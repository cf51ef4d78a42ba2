------------------------------ MODULE LiveClient ------------------------------
(***************************************************************************)
(* One LiveAgentClient (packages/robotscope-core/src/live/client.ts) and   *)
(* the agent at the other end of its WebSocket.                            *)
(*                                                                         *)
(* The client turns an uncorrelated, full duplex message stream into       *)
(* promises: connect() and the four command calls.  Each command kind has  *)
(* one slot (resolver, rejecter and a 5 s timer); the protocol carries no  *)
(* request identity, so an answer settles whatever request of its kind is  *)
(* waiting when it arrives.  The identities below are the model's own:     *)
(* they let the properties say whose answer a request received.            *)
(*                                                                         *)
(* The agent (agent/robotscope_agent/gateway.py) handles the messages of a *)
(* connection one at a time and answers each exactly once, after any delay.*)
(***************************************************************************)
EXTENDS Naturals, Sequences

CONSTANTS
  Kinds,        \* the command kinds: publish, service, goal, cancel
  MaxRequests,  \* bound: command calls made during the client's life
  MaxInbound    \* bound: unsolicited messages of the agent on the wire

ASSUME ClientAssumption ==
  /\ Kinds # {}
  /\ MaxRequests \in Nat
  /\ MaxInbound \in Nat

VARIABLES
  conn,           \* the promise of connect(): "none", "pending", "resolved" or "rejected"
  closed,         \* LiveAgentClient.closed
  sock,           \* readyState of LiveAgentClient.socket
  aborted,        \* options.signal.aborted
  connectTimer,   \* the handshake timer is armed
  allowed,        \* the kinds the session's capabilities allow
  slot,           \* slot[k]: the request whose resolver is installed, or None
  timer,          \* timer[k]: the request whose 5 s timer is armed, or None
  pendingUpdate,  \* LiveAgentClient.pendingUpdate
  updateTimer,    \* the 100 ms session update timer is armed
  dirty,          \* the buffer changed since onSessionUpdate last ran
  known,          \* a channel was announced since the last session message
  issued,         \* command calls made so far; request n is the n-th call
  kindOf,         \* the kind of each request
  status,         \* what became of each request's promise
  answered,       \* the request whose answer resolved this one's promise
  toAgent,        \* requests on the wire, oldest first
  toClient,       \* messages of the agent on the wire, oldest first
  agentUp         \* the agent still holds its end of the connection

connVars   == <<conn, closed, sock, aborted, connectTimer, allowed>>
slotVars   == <<slot, timer>>
updateVars == <<pendingUpdate, updateTimer, dirty, known>>
callVars   == <<issued, kindOf, status, answered>>
wireVars   == <<toAgent, toClient, agentUp>>
vars == <<connVars, slotVars, updateVars, callVars, wireVars>>

None     == 0
Requests == 1 .. MaxRequests
Settled  == {"resolved", "timedOut", "disconnected", "refused"}

Session(caps) == [type |-> "session", caps |-> caps, id |-> None]
BadSession    == [type |-> "badSession", caps |-> {}, id |-> None]
Failure       == [type |-> "error", caps |-> {}, id |-> None]
Channel       == [type |-> "channel", caps |-> {}, id |-> None]
Message       == [type |-> "message", caps |-> {}, id |-> None]
Result(r)     == [type |-> "result", caps |-> {}, id |-> r]

Messages == [type : {"session", "badSession", "error", "channel", "message",
                     "result"},
             caps : SUBSET Kinds, id : {None} \cup Requests]

Init ==
  /\ conn = "none" /\ closed = FALSE /\ sock = "none"
  /\ aborted = FALSE /\ connectTimer = FALSE /\ allowed = {}
  /\ slot = [k \in Kinds |-> None]
  /\ timer = [k \in Kinds |-> None]
  /\ pendingUpdate = FALSE /\ updateTimer = FALSE /\ dirty = FALSE
  /\ known = FALSE
  /\ issued = 0
  /\ kindOf = [r \in Requests |-> CHOOSE k \in Kinds : TRUE]
  /\ status = [r \in Requests |-> "idle"]
  /\ answered = [r \in Requests |-> None]
  /\ toAgent = <<>> /\ toClient = <<>> /\ agentUp = TRUE

-----------------------------------------------------------------------------
(* disconnect(): everything that could still call back is torn down.       *)

Waiting(r) == \E k \in Kinds : slot[k] = r

RejectWaiting ==
  status' = [r \in Requests |-> IF Waiting(r) THEN "disconnected" ELSE status[r]]

\* Faulty variant: a scheduled session update survives the disconnect.
KeepUpdate == UNCHANGED <<pendingUpdate, updateTimer>>

CancelUpdate ==
  /\ pendingUpdate' = FALSE
  /\ updateTimer' = FALSE

Disconnect ==
  /\ closed' = TRUE
  /\ sock' = "closed"
  /\ conn' = IF conn = "pending" THEN "rejected" ELSE conn
  /\ connectTimer' = FALSE
  /\ allowed' = {}
  /\ slot' = [k \in Kinds |-> None]
  /\ timer' = [k \in Kinds |-> None]
  /\ RejectWaiting
  /\ CancelUpdate
  /\ toClient' = <<>>                       \* the listeners drop whatever arrives
  /\ UNCHANGED <<dirty, known, issued, kindOf, answered>>

\* handle.close(), reachable once connect() has resolved.
Close ==
  /\ conn = "resolved" /\ ~closed
  /\ Disconnect
  /\ UNCHANGED <<aborted, toAgent, agentUp>>

\* The signal fires.  connect() installed a listener unless it has not run yet.
Abort ==
  /\ ~aborted
  /\ aborted' = TRUE
  /\ IF sock \in {"connecting", "open"}
       THEN Disconnect
       ELSE UNCHANGED <<conn, closed, sock, connectTimer, allowed,
                        slotVars, updateVars, callVars, toClient>>
  /\ UNCHANGED <<toAgent, agentUp>>

-----------------------------------------------------------------------------
(* connect() and the socket's events.                                      *)

Connect ==
  /\ conn = "none" /\ ~closed
  /\ IF aborted
       THEN /\ conn' = "rejected" /\ closed' = TRUE   \* openLive disconnects
            /\ UNCHANGED <<sock, connectTimer>>
       ELSE /\ conn' = "pending" /\ sock' = "connecting" /\ connectTimer' = TRUE
            /\ UNCHANGED closed
  /\ UNCHANGED <<aborted, allowed, slotVars, updateVars, callVars, wireVars>>

\* Faulty variant: the open socket, not the session, ends the handshake timer.
OpenEndsTimer ==
  /\ sock = "connecting" /\ agentUp
  /\ sock' = "open" /\ connectTimer' = FALSE
  /\ UNCHANGED <<conn, closed, aborted, allowed, slotVars, updateVars, callVars, wireVars>>

Open ==
  /\ sock = "connecting" /\ agentUp
  /\ sock' = "open"
  /\ UNCHANGED <<conn, closed, aborted, connectTimer, allowed,
                 slotVars, updateVars, callVars, wireVars>>

ConnectTimeout ==
  /\ connectTimer
  /\ Disconnect
  /\ UNCHANGED <<aborted, toAgent, agentUp>>

\* The close event, or an error event before the handshake is done.
SocketClosed ==
  /\ ~agentUp /\ sock \in {"connecting", "open"}
  /\ Disconnect
  /\ UNCHANGED <<aborted, toAgent, agentUp>>

Arrived(type) ==
  /\ sock = "open" /\ ~closed
  /\ toClient # <<>> /\ Head(toClient).type = type
  /\ UNCHANGED <<toAgent, agentUp>>

Receive(type) ==
  /\ Arrived(type)
  /\ toClient' = Tail(toClient)

\* Any session message empties the buffer, channels included, and replaces the
\* capabilities; the reset notifies nobody and schedules no session update.
ReceiveSession ==
  /\ Receive("session")
  /\ allowed' = Head(toClient).caps
  /\ conn' = IF conn = "pending" THEN "resolved" ELSE conn
  /\ connectTimer' = FALSE
  /\ dirty' = TRUE
  /\ known' = FALSE
  /\ UNCHANGED <<closed, sock, aborted, slotVars, pendingUpdate, updateTimer, callVars>>

\* fail() does nothing once the promise is settled; an error is then only shown.
ReceiveFailure ==
  /\ Arrived("badSession") \/ Arrived("error")
  /\ IF conn = "pending"
       THEN Disconnect
       ELSE /\ toClient' = Tail(toClient)
            /\ UNCHANGED <<conn, closed, sock, connectTimer, allowed,
                           slotVars, updateVars, callVars>>
  /\ UNCHANGED aborted

ScheduleUpdate ==
  /\ dirty' = TRUE
  /\ pendingUpdate' = TRUE
  /\ updateTimer' = (updateTimer \/ ~pendingUpdate)

ReceiveChannel ==
  /\ Receive("channel")
  /\ known' = TRUE
  /\ ScheduleUpdate
  /\ UNCHANGED <<connVars, slotVars, callVars>>

\* ingest() drops a message of a channel the buffer does not know.
ReceiveMessage ==
  /\ Receive("message")
  /\ IF known
       THEN ScheduleUpdate /\ UNCHANGED known
       ELSE UNCHANGED updateVars
  /\ UNCHANGED <<connVars, slotVars, callVars>>

\* Faulty variant: the flag stays set, so no later change is scheduled.
FireKeepsFlag == updateTimer' = FALSE /\ dirty' = FALSE /\ UNCHANGED pendingUpdate

FireUpdate ==
  /\ updateTimer' = FALSE
  /\ pendingUpdate' = FALSE
  /\ dirty' = FALSE

UpdateTimeout ==
  /\ updateTimer
  /\ FireUpdate
  /\ UNCHANGED <<connVars, slotVars, callVars, known, wireVars>>

-----------------------------------------------------------------------------
(* The command calls: publishCommand, callService, sendActionGoal and      *)
(* cancelActionGoal have one shape.                                        *)

\* Faulty variant: no "Another ... is in progress".
SendsWhileBusy(k) == sock = "open" /\ k \in allowed

CanSend(k) == sock = "open" /\ k \in allowed /\ slot[k] = None

Call(k) ==
  LET r == issued + 1 IN
  /\ issued < MaxRequests /\ conn = "resolved"
  /\ issued' = r
  /\ kindOf' = [kindOf EXCEPT ![r] = k]
  /\ IF CanSend(k)
       THEN /\ slot' = [slot EXCEPT ![k] = r]
            /\ timer' = [timer EXCEPT ![k] = r]
            /\ status' = [status EXCEPT ![r] = "pending"]
            /\ toAgent' = Append(toAgent, r)
       ELSE /\ status' = [status EXCEPT ![r] = "refused"]
            /\ UNCHANGED <<slotVars, toAgent>>
  /\ UNCHANGED <<connVars, updateVars, answered, toClient, agentUp>>

\* Faulty variants: the timer, or the resolver too, outlives the answer.
ClearSlotOnly(k) == slot' = [slot EXCEPT ![k] = None] /\ UNCHANGED timer
ClearNothing(k)  == UNCHANGED slotVars

ClearPending(k) ==
  /\ slot' = [slot EXCEPT ![k] = None]
  /\ timer' = [timer EXCEPT ![k] = None]

\* An answer nobody waits for is ignored; else it settles the waiting request.
Settle(k, x) ==
  IF slot[k] = None
    THEN UNCHANGED <<slotVars, status, answered>>
    ELSE /\ ClearPending(k)
         /\ status' = [status EXCEPT ![slot[k]] = "resolved"]
         /\ answered' = [answered EXCEPT ![slot[k]] = x]

\* Faulty variant: an answer settles the slot of another kind.
SlotMixedUp(x) == CHOOSE k \in Kinds : k # kindOf[x]

\* The handler of each result message resolves its own kind's slot.
SlotFor(x) == kindOf[x]

ReceiveResult ==
  LET x == Head(toClient).id IN
  /\ Receive("result")
  /\ Settle(SlotFor(x), x)
  /\ UNCHANGED <<connVars, updateVars, issued, kindOf>>

\* The timer's callback rejects whatever request the slot holds by now.
CallTimeout(k) ==
  /\ timer[k] # None
  /\ ClearPending(k)
  /\ status' = IF slot[k] = None THEN status
                                 ELSE [status EXCEPT ![slot[k]] = "timedOut"]
  /\ UNCHANGED <<connVars, updateVars, issued, kindOf, answered, wireVars>>

-----------------------------------------------------------------------------
(* The agent.                                                              *)

AgentSends ==
  /\ agentUp /\ sock = "open"
  /\ Len(toClient) < MaxInbound
  /\ \E m \in {Session(caps) : caps \in SUBSET Kinds} \cup {BadSession, Failure, Channel, Message} :
       toClient' = Append(toClient, m)
  /\ UNCHANGED <<connVars, slotVars, updateVars, callVars, toAgent, agentUp>>

\* A handler runs to its answer; a command already sent is run even if the
\* client has closed the socket meanwhile.
AgentAnswers ==
  /\ agentUp /\ toAgent # <<>>
  /\ toAgent' = Tail(toAgent)
  /\ toClient' = IF closed THEN toClient ELSE Append(toClient, Result(Head(toAgent)))
  /\ UNCHANGED <<connVars, slotVars, updateVars, callVars, agentUp>>

\* The agent stops, or a handler raises and ends the connection.
AgentStops ==
  /\ agentUp
  /\ agentUp' = FALSE
  /\ UNCHANGED <<connVars, slotVars, updateVars, callVars, toAgent, toClient>>

-----------------------------------------------------------------------------
Timers == ConnectTimeout \/ UpdateTimeout \/ \E k \in Kinds : CallTimeout(k)

Next ==
  \/ Connect \/ Open \/ Close \/ Abort \/ SocketClosed
  \/ ReceiveSession \/ ReceiveFailure \/ ReceiveChannel \/ ReceiveMessage
  \/ ReceiveResult
  \/ \E k \in Kinds : Call(k)
  \/ Timers
  \/ AgentSends \/ AgentAnswers \/ AgentStops

Spec == Init /\ [][Next]_vars

\* Timers are the event loop's and always run; nothing is assumed of the
\* network, the agent or the user.
FairSpec ==
  /\ Spec
  /\ WF_vars(ConnectTimeout)
  /\ WF_vars(UpdateTimeout)
  /\ \A k \in Kinds : WF_vars(CallTimeout(k))

-----------------------------------------------------------------------------
(* Properties.                                                             *)

\* The types of the variables; an answer is recorded for resolved promises only.
TypeOK ==
  /\ conn \in {"none", "pending", "resolved", "rejected"}
  /\ sock \in {"none", "connecting", "open", "closed"}
  /\ closed \in BOOLEAN /\ aborted \in BOOLEAN /\ agentUp \in BOOLEAN
  /\ connectTimer \in BOOLEAN /\ updateTimer \in BOOLEAN
  /\ pendingUpdate \in BOOLEAN /\ dirty \in BOOLEAN /\ known \in BOOLEAN
  /\ allowed \in SUBSET Kinds
  /\ slot \in [Kinds -> {None} \cup Requests]
  /\ timer \in [Kinds -> {None} \cup Requests]
  /\ issued \in 0 .. MaxRequests
  /\ kindOf \in [Requests -> Kinds]
  /\ status \in [Requests -> {"idle", "pending"} \cup Settled]
  /\ answered \in [Requests -> {None} \cup Requests]
  /\ \A r \in Requests : answered[r] # None <=> status[r] = "resolved"
  /\ toAgent \in Seq(Requests)
  /\ toClient \in Seq(Messages)

\* Whatever ended the connection (close(), the signal, a timeout, a refused
\* handshake, the remote end), the client is left with no promise pending and
\* nothing that could still call back.
ClosedIsQuiescent ==
  closed => /\ conn # "pending" /\ sock \notin {"connecting", "open"}
            /\ ~connectTimer /\ ~updateTimer
            /\ \A k \in Kinds : slot[k] = None /\ timer[k] = None
            /\ \A r \in Requests : status[r] # "pending"

\* A 5 s timer is armed exactly while its own request waits, so a request is
\* never timed out by the timer of an earlier one.
TimerGuardsItsSlot == timer = slot

\* No request identity travels on the wire, yet a promise is resolved with
\* another request's answer only if an earlier call of its kind timed out.
MismatchNeedsTimeout ==
  \A r \in Requests :
    status[r] = "resolved" /\ answered[r] # r =>
      \E q \in Requests : q < r /\ kindOf[q] = kindOf[r] /\ status[q] = "timedOut"

\* One answer resolves at most one promise (a part of the inductive invariant).
AnswersNotShared ==
  \A r, q \in Requests : answered[r] = answered[q] /\ answered[r] # None => r = q

\* Once a channel of the session has been announced, no change of the buffer is
\* forgotten: a timer is armed that will report it, even if the change was the
\* reset by a repeated session.  Until then the reset itself goes unreported.
DirtyIsScheduled == dirty => updateTimer \/ closed \/ ~known

\* A promise settles once.
SettledForever ==
  [][\A r \in Requests : status[r] \in Settled =>
        status'[r] = status[r] /\ answered'[r] = answered[r]]_vars

\* Every command call settles, whatever the agent and the network do.
CallsSettle == \A r \in Requests : status[r] = "pending" ~> status[r] # "pending"

\* connect() settles: an agent that accepts the socket and stays silent is
\* given up.
ConnectSettles == conn = "pending" ~> conn # "pending"
=============================================================================
