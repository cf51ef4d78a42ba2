--------------------------- MODULE LiveClientProofs ---------------------------
(***************************************************************************)
(* Proofs of the safety properties of LiveClient, for every set of kinds   *)
(* and every bound on the calls and on the wire.                           *)
(*                                                                         *)
(* The properties are not inductive by themselves.  What makes them so is  *)
(* SlotInv, which ties a slot to the one pending request of its kind and   *)
(* to the refusal of every later one, and WireInv, which says that a       *)
(* request's identity is on at most one wire, once, and is gone when its   *)
(* answer has been consumed.                                               *)
(***************************************************************************)
EXTENDS LiveClient, TLAPS

IsResult(j) == toClient[j].type = "result"

\* A slot holds the pending request of its kind; every later request of that
\* kind was refused, or has not been made.
SlotInv ==
  /\ \A k \in Kinds : slot[k] # None =>
       kindOf[slot[k]] = k /\ status[slot[k]] = "pending"
  /\ \A r \in Requests : status[r] = "pending" => slot[kindOf[r]] = r
  /\ \A r \in Requests : r > issued <=> status[r] = "idle"
  /\ \A k \in Kinds, q \in Requests :
       slot[k] # None /\ q > slot[k] /\ kindOf[q] = k =>
         status[q] \in {"idle", "refused"}

\* A request, then its answer, is on the wire at most once, and no longer
\* once the answer has been consumed; idle and refused requests never are.
WireInv ==
  /\ \A i, j \in 1 .. Len(toAgent) : i # j => toAgent[i] # toAgent[j]
  /\ \A i \in 1 .. Len(toAgent) :
       /\ status[toAgent[i]] \notin {"idle", "refused"}
       /\ \A r \in Requests : answered[r] # toAgent[i]
  /\ \A i \in 1 .. Len(toClient) : IsResult(i) =>
       /\ toClient[i].id \in Requests
       /\ status[toClient[i].id] \notin {"idle", "refused"}
       /\ \A r \in Requests : answered[r] # toClient[i].id
       /\ \A j \in 1 .. Len(toAgent) : toAgent[j] # toClient[i].id
       /\ \A j \in 1 .. Len(toClient) : IsResult(j) /\ i # j =>
            toClient[i].id # toClient[j].id
  /\ \A r \in Requests :
       answered[r] # None => status[answered[r]] \notin {"idle", "refused"}

\* The coalescing flag and its timer go together; a change is unscheduled only
\* while no channel is known; a request is disconnected only by a client that
\* has closed.
UpdateInv ==
  /\ pendingUpdate = updateTimer
  /\ dirty => pendingUpdate \/ closed \/ ~known
  /\ \A r \in Requests : status[r] = "disconnected" => closed

\* Nothing runs before connect().
StartInv ==
  conn = "none" => sock = "none" /\ ~connectTimer /\ ~updateTimer /\ issued = 0

IInv ==
  /\ TypeOK /\ SlotInv /\ WireInv /\ UpdateInv /\ StartInv
  /\ ClosedIsQuiescent /\ TimerGuardsItsSlot
  /\ MismatchNeedsTimeout /\ AnswersNotShared

-----------------------------------------------------------------------------
(* Facts about the operators.                                              *)

\* Tail shifts a sequence by one place.
LEMMA TailElements ==
  ASSUME NEW S, NEW s \in Seq(S), s # <<>>
  PROVE  /\ Tail(s) \in Seq(S) /\ Head(s) \in S /\ Head(s) = s[1]
         /\ Len(s) \in Nat /\ Len(s) > 0
         /\ Len(Tail(s)) = Len(s) - 1
         /\ \A i \in 1 .. Len(Tail(s)) : i + 1 \in 1 .. Len(s) /\ Tail(s)[i] = s[i + 1]
  OBVIOUS

\* Append adds one place at the end.
LEMMA AppendElements ==
  ASSUME NEW S, NEW s \in Seq(S), NEW e \in S
  PROVE  /\ Append(s, e) \in Seq(S)
         /\ Len(s) \in Nat /\ Len(Append(s, e)) = Len(s) + 1
         /\ \A i \in 1 .. Len(s) : Append(s, e)[i] = s[i]
         /\ Append(s, e)[Len(s) + 1] = e
  OBVIOUS

\* The messages that are not answers, and the answers, are messages.
LEMMA MessageTypes ==
  /\ BadSession \in Messages /\ Failure \in Messages /\ Channel \in Messages
  /\ Message \in Messages
  /\ \A caps \in SUBSET Kinds : Session(caps) \in Messages
  /\ \A r \in Requests : Result(r) \in Messages
                         /\ Result(r).type = "result" /\ Result(r).id = r
  /\ \A m \in {Session(caps) : caps \in SUBSET Kinds}
              \cup {BadSession, Failure, Channel, Message} :
       m \in Messages /\ m.type # "result"
  BY DEF BadSession, Failure, Channel, Message, Session, Result, Messages

-----------------------------------------------------------------------------
\* The initial states satisfy the invariant.
LEMMA InitInv == Init => IInv
<1> SUFFICES ASSUME Init PROVE IInv
  OBVIOUS
<1> USE ClientAssumption DEF Init, None, Requests
<1>0. (CHOOSE k \in Kinds : TRUE) \in Kinds
  OBVIOUS
<1>1. TypeOK
  <2>1. kindOf \in [Requests -> Kinds]
    BY <1>0
  <2>2. /\ slot \in [Kinds -> {None} \cup Requests]
        /\ timer \in [Kinds -> {None} \cup Requests]
        /\ status \in [Requests -> {"idle", "pending"} \cup Settled]
        /\ answered \in [Requests -> {None} \cup Requests]
    OBVIOUS
  <2>3. /\ \A r \in Requests : answered[r] # None <=> status[r] = "resolved"
        /\ issued \in 0 .. MaxRequests /\ allowed \in SUBSET Kinds
    OBVIOUS
  <2>4. toAgent \in Seq(Requests) /\ toClient \in Seq(Messages)
    OBVIOUS
  <2> QED
    BY <2>1, <2>2, <2>3, <2>4 DEF TypeOK
<1>2. SlotInv
  <2>1. \A r \in Requests : r > issued /\ status[r] = "idle"
    OBVIOUS
  <2>2. \A k \in Kinds : slot[k] = None
    OBVIOUS
  <2> QED
    BY <2>1, <2>2 DEF SlotInv
<1>3. WireInv /\ UpdateInv
  <2>1. WireInv
    BY DEF WireInv
  <2>2. UpdateInv
    BY DEF UpdateInv
  <2> QED
    BY <2>1, <2>2
<1>4. ClosedIsQuiescent /\ TimerGuardsItsSlot /\ StartInv
  BY DEF ClosedIsQuiescent, TimerGuardsItsSlot, StartInv
<1>5. MismatchNeedsTimeout /\ AnswersNotShared
  BY DEF MismatchNeedsTimeout, AnswersNotShared
<1> QED
  BY <1>1, <1>2, <1>3, <1>4, <1>5 DEF IInv

\* Tearing the client down preserves the invariant, whoever asked for it.
LEMMA DisconnectInv ==
  ASSUME IInv, conn # "none", Disconnect, UNCHANGED toAgent,
         aborted' \in BOOLEAN, agentUp' \in BOOLEAN
  PROVE  IInv'
<1> USE DEF IInv, Disconnect, None
<1> DEFINE Freed(r) == IF Waiting(r) THEN "disconnected" ELSE status[r]
<1>1. /\ toClient' = <<>> /\ closed' = TRUE
      /\ status' = [r \in Requests |-> Freed(r)]
      /\ UNCHANGED <<dirty, known, issued, kindOf, answered, toAgent>>
  BY DEF RejectWaiting, Freed
<1>2. \A r \in Requests : Waiting(r) <=> status[r] = "pending"
  <2> SUFFICES ASSUME NEW r \in Requests
               PROVE  Waiting(r) <=> status[r] = "pending"
    OBVIOUS
  <2>1. r # None
    BY ClientAssumption DEF Requests
  <2>2. kindOf[r] \in Kinds
    BY DEF TypeOK
  <2> QED
    BY <2>1, <2>2 DEF Waiting, SlotInv
<1>3. /\ \A r \in Requests : status[r] = "pending" => status'[r] = "disconnected"
      /\ \A r \in Requests : status[r] # "pending" => status'[r] = status[r]
  BY <1>1, <1>2
<1>4. TypeOK'
  <2>1. status' \in [Requests -> {"idle", "pending"} \cup Settled]
    BY <1>1 DEF TypeOK, Settled
  <2>2. \A r \in Requests : answered'[r] # None <=> status'[r] = "resolved"
    BY <1>1, <1>3 DEF TypeOK
  <2> QED
    <3>1. /\ slot' \in [Kinds -> {None} \cup Requests]
          /\ timer' \in [Kinds -> {None} \cup Requests]
          /\ toClient' \in Seq(Messages) /\ toAgent' \in Seq(Requests)
      BY <1>1 DEF TypeOK
    <3> QED
      BY <1>1, <2>1, <2>2, <3>1 DEF TypeOK, CancelUpdate
<1>5. SlotInv'
  BY <1>1, <1>3 DEF SlotInv
<1>6. WireInv'
  BY <1>1, <1>3 DEF WireInv, TypeOK, IsResult
<1>7. UpdateInv' /\ ClosedIsQuiescent' /\ TimerGuardsItsSlot' /\ StartInv'
  BY <1>1, <1>3 DEF StartInv, UpdateInv, ClosedIsQuiescent, TimerGuardsItsSlot, CancelUpdate
<1>8. MismatchNeedsTimeout' /\ AnswersNotShared'
  BY <1>1, <1>3 DEF MismatchNeedsTimeout, AnswersNotShared, TypeOK
<1> QED
  BY <1>4, <1>5, <1>6, <1>7, <1>8

\* A call that goes out is the newest request, the only pending one of its
\* kind and on no wire yet; a refused call touches neither slot nor wire.
LEMMA CallInv ==
  ASSUME IInv, NEW k \in Kinds, Call(k)
  PROVE  IInv'
<1> USE DEF IInv, None
<1> DEFINE r == issued + 1
<1>1. /\ r \in Requests /\ issued \in Nat
      /\ issued' = r
      /\ kindOf' = [kindOf EXCEPT ![r] = k]
      /\ conn = "resolved"
      /\ UNCHANGED <<connVars, updateVars, answered, toClient, agentUp>>
  BY ClientAssumption DEF Call, TypeOK, Requests
<1>2. status[r] = "idle" /\ answered[r] = None
  BY <1>1 DEF SlotInv, TypeOK
<1>3. /\ \A q \in Requests : q # r => status'[q] = status[q] /\ kindOf'[q] = kindOf[q]
      /\ status'[r] \in {"pending", "refused"} /\ kindOf'[r] = k
  BY <1>1 DEF Call, TypeOK
<1>4. CASE ~CanSend(k)
  <2>1. /\ status' = [status EXCEPT ![r] = "refused"]
        /\ UNCHANGED <<slot, timer, toAgent>>
    BY <1>4 DEF Call, slotVars
  <2>2. TypeOK'
    BY <1>1, <1>2, <2>1 DEF TypeOK, Settled, connVars, updateVars, Requests
  <2>3. SlotInv'
    BY <1>1, <1>2, <1>3, <2>1 DEF SlotInv, TypeOK, Requests
  <2>4. WireInv'
    BY <1>1, <1>2, <1>3, <2>1 DEF WireInv, TypeOK, IsResult
  <2>5. UpdateInv' /\ StartInv' /\ ClosedIsQuiescent' /\ TimerGuardsItsSlot'
    BY <1>1, <1>2, <1>3, <2>1
       DEF UpdateInv, StartInv, ClosedIsQuiescent, TimerGuardsItsSlot, connVars, updateVars, TypeOK
  <2>6. MismatchNeedsTimeout' /\ AnswersNotShared'
    BY <1>1, <1>2, <1>3, <2>1 DEF MismatchNeedsTimeout, AnswersNotShared, TypeOK
  <2> QED
    BY <2>2, <2>3, <2>4, <2>5, <2>6
<1>5. CASE CanSend(k)
  <2>1. /\ status' = [status EXCEPT ![r] = "pending"]
        /\ slot' = [slot EXCEPT ![k] = r]
        /\ timer' = [timer EXCEPT ![k] = r]
        /\ toAgent' = Append(toAgent, r)
        /\ slot[k] = None /\ sock = "open"
    BY <1>5 DEF Call, CanSend
  <2>2. TypeOK'
    BY <1>1, <1>2, <2>1, AppendElements
       DEF TypeOK, Settled, connVars, updateVars, Requests
  <2>3. SlotInv'
    BY <1>1, <1>2, <1>3, <2>1 DEF SlotInv, TypeOK, Requests
  <2>4. WireInv'
    <3>1. /\ Len(toAgent) \in Nat /\ Len(toAgent') = Len(toAgent) + 1
          /\ \A i \in 1 .. Len(toAgent) :
               toAgent'[i] = toAgent[i] /\ toAgent[i] \in Requests /\ toAgent[i] # r
          /\ toAgent'[Len(toAgent) + 1] = r
      BY <1>1, <1>2, <2>1, AppendElements DEF TypeOK, WireInv
    <3>2. \A q \in Requests : answered[q] # r
      BY <1>1, <1>2, <2>1 DEF TypeOK, WireInv
    <3> QED
      BY <1>1, <1>2, <1>3, <2>1, <3>1, <3>2 DEF WireInv, TypeOK, IsResult
  <2>5. UpdateInv' /\ StartInv' /\ ClosedIsQuiescent' /\ TimerGuardsItsSlot'
    BY <1>1, <1>2, <1>3, <2>1
       DEF UpdateInv, StartInv, ClosedIsQuiescent, TimerGuardsItsSlot, connVars, updateVars, TypeOK
  <2>6. MismatchNeedsTimeout' /\ AnswersNotShared'
    BY <1>1, <1>2, <1>3, <2>1 DEF MismatchNeedsTimeout, AnswersNotShared, TypeOK
  <2> QED
    BY <2>2, <2>3, <2>4, <2>5, <2>6
<1> QED
  BY <1>4, <1>5

\* A 5 s timer rejects its own request and frees its slot.
LEMMA CallTimeoutInv ==
  ASSUME IInv, NEW k \in Kinds, CallTimeout(k)
  PROVE  IInv'
<1> USE DEF IInv, None
<1> DEFINE r == slot[k]
<1>1. /\ r \in Requests /\ kindOf[r] = k /\ status[r] = "pending"
      /\ slot' = [slot EXCEPT ![k] = None]
      /\ timer' = [timer EXCEPT ![k] = None]
      /\ status' = [status EXCEPT ![r] = "timedOut"]
      /\ UNCHANGED <<connVars, updateVars, issued, kindOf, answered, wireVars>>
  BY DEF CallTimeout, ClearPending, TimerGuardsItsSlot, SlotInv, TypeOK
<1>2. /\ \A q \in Requests : q # r => status'[q] = status[q]
      /\ status'[r] = "timedOut"
  BY <1>1 DEF TypeOK
<1>3. TypeOK'
  BY <1>1, <1>2 DEF TypeOK, Settled, connVars, updateVars, wireVars
<1>4. SlotInv'
  BY <1>1, <1>2 DEF SlotInv, TypeOK
<1>5. WireInv'
  BY <1>1, <1>2 DEF WireInv, wireVars, IsResult, TypeOK
<1>6. UpdateInv' /\ StartInv' /\ ClosedIsQuiescent' /\ TimerGuardsItsSlot'
  BY <1>1, <1>2
     DEF UpdateInv, StartInv, ClosedIsQuiescent, TimerGuardsItsSlot, connVars, updateVars, TypeOK
<1>7. MismatchNeedsTimeout' /\ AnswersNotShared'
  BY <1>1, <1>2 DEF MismatchNeedsTimeout, AnswersNotShared, TypeOK
<1> QED
  BY <1>3, <1>4, <1>5, <1>6, <1>7

\* An answer of another request than the waiting one belongs to an earlier
\* request: it timed out, or it too was settled by an answer not its own.
LEMMA ReceiveResultInv ==
  ASSUME IInv, ReceiveResult
  PROVE  IInv'
<1> USE DEF IInv, None
<1> DEFINE x == Head(toClient).id
           k == kindOf[x]
           r == slot[k]
<1>1. /\ Len(toClient) \in Nat /\ Len(toClient) > 0
      /\ toClient' = Tail(toClient) /\ toClient' \in Seq(Messages)
      /\ Len(toClient') = Len(toClient) - 1
      /\ \A i \in 1 .. Len(toClient') :
           i + 1 \in 1 .. Len(toClient) /\ toClient'[i] = toClient[i + 1]
      /\ x = toClient[1].id /\ IsResult(1) /\ ~closed
      /\ UNCHANGED <<connVars, updateVars, issued, kindOf, toAgent, agentUp>>
  BY TailElements DEF ReceiveResult, Receive, Arrived, TypeOK, IsResult
<1>2. /\ x \in Requests /\ status[x] \notin {"idle", "refused"}
      /\ \A q \in Requests : answered[q] # x
      /\ \A j \in 1 .. Len(toAgent) : toAgent[j] # x
      /\ \A j \in 1 .. Len(toClient) : IsResult(j) /\ j # 1 => toClient[j].id # x
  BY <1>1 DEF WireInv
<1>3. k \in Kinds
  BY <1>2 DEF TypeOK
<1>4. /\ \A i \in 1 .. Len(toClient') : IsResult(i)' =>
           /\ toClient'[i].id \in Requests /\ toClient'[i].id # x
           /\ status[toClient'[i].id] \notin {"idle", "refused"}
           /\ \A q \in Requests : answered[q] # toClient'[i].id
           /\ \A j \in 1 .. Len(toAgent) : toAgent[j] # toClient'[i].id
      /\ \A i, j \in 1 .. Len(toClient') : IsResult(i)' /\ IsResult(j)' /\ i # j =>
           toClient'[i].id # toClient'[j].id
  BY <1>1, <1>2 DEF WireInv, IsResult
<1>5. CASE r = None
  <2>1. UNCHANGED <<slot, timer, status, answered>>
    BY <1>5 DEF ReceiveResult, Settle, SlotFor, slotVars
  <2>2. TypeOK'
    BY <1>1, <2>1 DEF TypeOK, connVars, updateVars
  <2>3. SlotInv' /\ UpdateInv' /\ StartInv'
    BY <1>1, <2>1 DEF SlotInv, UpdateInv, StartInv, connVars, updateVars
  <2>4. WireInv'
    BY <1>1, <1>4, <2>1 DEF WireInv
  <2>5. ClosedIsQuiescent' /\ TimerGuardsItsSlot'
    BY <1>1, <2>1 DEF ClosedIsQuiescent, TimerGuardsItsSlot, connVars, updateVars
  <2>6. MismatchNeedsTimeout' /\ AnswersNotShared'
    BY <1>1, <2>1 DEF MismatchNeedsTimeout, AnswersNotShared
  <2> QED
    BY <2>2, <2>3, <2>4, <2>5, <2>6
<1>6. CASE r # None
  <2>1. /\ r \in Requests /\ kindOf[r] = k /\ status[r] = "pending"
        /\ slot' = [slot EXCEPT ![k] = None]
        /\ timer' = [timer EXCEPT ![k] = None]
        /\ status' = [status EXCEPT ![r] = "resolved"]
        /\ answered' = [answered EXCEPT ![r] = x]
    BY <1>3, <1>6 DEF ReceiveResult, Settle, SlotFor, ClearPending, SlotInv, TypeOK
  <2>2. /\ \A q \in Requests : q # r => status'[q] = status[q] /\ answered'[q] = answered[q]
        /\ status'[r] = "resolved" /\ answered'[r] = x
    BY <2>1 DEF TypeOK
  <2>3. TypeOK'
    <3>1. /\ slot' \in [Kinds -> {None} \cup Requests]
          /\ timer' \in [Kinds -> {None} \cup Requests]
          /\ status' \in [Requests -> {"idle", "pending"} \cup Settled]
          /\ answered' \in [Requests -> {None} \cup Requests]
      BY <1>2, <2>1 DEF TypeOK, Settled
    <3>2. x # None
      BY <1>2 DEF Requests
    <3>3. \A q \in Requests : answered'[q] # None <=> status'[q] = "resolved"
      BY <1>2, <2>2, <3>2 DEF TypeOK
    <3> QED
      BY <1>1, <3>1, <3>3 DEF TypeOK, connVars, updateVars
  <2>4. SlotInv'
    <3>1. /\ slot'[k] = None /\ issued' = issued /\ kindOf' = kindOf
          /\ \A j \in Kinds : j # k => slot'[j] = slot[j]
      BY <1>1, <1>3, <2>1 DEF TypeOK
    <3>2. \A j \in Kinds : slot'[j] # None =>
            /\ j # k /\ slot[j] # None /\ slot'[j] = slot[j] /\ slot[j] # r
            /\ slot[j] \in Requests
      BY <1>3, <2>1, <3>1 DEF SlotInv, TypeOK
    <3>3. \A j \in Kinds : slot'[j] # None =>
            kindOf[slot'[j]] = j /\ status'[slot'[j]] = "pending"
      BY <2>2, <3>2 DEF SlotInv
    <3>4. \A q \in Requests : status'[q] = "pending" => slot'[kindOf[q]] = q
      BY <2>1, <2>2, <3>1 DEF SlotInv, TypeOK
    <3>5. \A q \in Requests : q > issued <=> status'[q] = "idle"
      BY <2>1, <2>2 DEF SlotInv
    <3>6. \A j \in Kinds, q \in Requests :
            slot'[j] # None /\ q > slot'[j] /\ kindOf[q] = j => status'[q] \in {"idle", "refused"}
      BY <2>1, <2>2, <3>2 DEF SlotInv
    <3> QED
      BY <3>1, <3>3, <3>4, <3>5, <3>6 DEF SlotInv
  <2>5. WireInv'
    <3>1. \A i \in 1 .. Len(toAgent) :
            /\ toAgent[i] \in Requests /\ toAgent[i] # x
            /\ status'[toAgent[i]] \notin {"idle", "refused"}
            /\ \A q \in Requests : answered'[q] # toAgent[i]
      BY <1>2, <2>1, <2>2 DEF WireInv, TypeOK
    <3>2. \A i \in 1 .. Len(toClient') : IsResult(i)' =>
            /\ status'[toClient'[i].id] \notin {"idle", "refused"}
            /\ \A q \in Requests : answered'[q] # toClient'[i].id
      BY <1>4, <2>2
    <3>3. \A q \in Requests : answered'[q] # None =>
            status'[answered'[q]] \notin {"idle", "refused"}
      BY <1>2, <2>2 DEF WireInv, TypeOK
    <3> QED
      BY <1>1, <1>4, <3>1, <3>2, <3>3 DEF WireInv
  <2>6. UpdateInv' /\ StartInv' /\ ClosedIsQuiescent' /\ TimerGuardsItsSlot'
    BY <1>1, <2>1, <2>2
       DEF UpdateInv, StartInv, ClosedIsQuiescent, TimerGuardsItsSlot, connVars, updateVars, TypeOK
  <2>7. x # r => \E q \in Requests :
          q < r /\ kindOf[q] = k /\ status[q] = "timedOut"
    <3> SUFFICES ASSUME x # r
                 PROVE  \E q \in Requests : q < r /\ kindOf[q] = k /\ status[q] = "timedOut"
      OBVIOUS
    <3>1. x < r
      BY <1>2, <1>3, <1>6, <2>1 DEF SlotInv, Requests
    <3>2. status[x] \in {"timedOut", "resolved"}
      BY <1>1, <1>2 DEF SlotInv, UpdateInv, TypeOK, Settled
    <3>3. CASE status[x] = "timedOut"
      BY <1>2, <3>1, <3>3
    <3>4. CASE status[x] = "resolved"
      <4>1. PICK q \in Requests : q < x /\ kindOf[q] = kindOf[x] /\ status[q] = "timedOut"
        BY <1>2, <3>4 DEF MismatchNeedsTimeout
      <4> QED
        BY <1>2, <2>1, <3>1, <4>1 DEF Requests
    <3> QED
      BY <3>2, <3>3, <3>4
  <2>8. MismatchNeedsTimeout'
    BY <1>1, <2>1, <2>2, <2>7 DEF MismatchNeedsTimeout, TypeOK
  <2>9. AnswersNotShared'
    BY <1>2, <2>1, <2>2 DEF AnswersNotShared
  <2> QED
    BY <2>3, <2>4, <2>5, <2>6, <2>8, <2>9
<1> QED
  BY <1>5, <1>6

\* An answer moves its request's identity from one wire to the other.
LEMMA AgentAnswersInv ==
  ASSUME IInv, AgentAnswers
  PROVE  IInv'
<1> USE DEF IInv, None
<1> DEFINE x == Head(toAgent)
<1>1. /\ Len(toAgent) \in Nat /\ Len(toAgent) > 0
      /\ toAgent' = Tail(toAgent) /\ toAgent' \in Seq(Requests)
      /\ Len(toAgent') = Len(toAgent) - 1
      /\ \A i \in 1 .. Len(toAgent') :
           i + 1 \in 1 .. Len(toAgent) /\ toAgent'[i] = toAgent[i + 1]
      /\ x = toAgent[1] /\ x \in Requests
      /\ UNCHANGED <<connVars, slotVars, updateVars, callVars, agentUp>>
  BY TailElements DEF AgentAnswers, TypeOK
<1>2. /\ \A i \in 1 .. Len(toAgent') : toAgent'[i] # x
      /\ \A j \in 1 .. Len(toClient) : IsResult(j) => toClient[j].id # x
      /\ status[x] \notin {"idle", "refused"}
      /\ \A q \in Requests : answered[q] # x
  BY <1>1 DEF WireInv
<1>3. UNCHANGED <<conn, closed, sock, aborted, connectTimer, allowed, slot, timer,
                  pendingUpdate, updateTimer, dirty, known, issued, kindOf, status, answered>>
  BY <1>1 DEF connVars, slotVars, updateVars, callVars
<1>4. SlotInv' /\ UpdateInv' /\ StartInv' /\ ClosedIsQuiescent' /\ TimerGuardsItsSlot'
      /\ MismatchNeedsTimeout' /\ AnswersNotShared'
  BY <1>3 DEF SlotInv, UpdateInv, StartInv, ClosedIsQuiescent, TimerGuardsItsSlot,
              MismatchNeedsTimeout, AnswersNotShared
<1>5. CASE closed
  <2>1. toClient' = toClient
    BY <1>5 DEF AgentAnswers
  <2>2. TypeOK' /\ WireInv'
    BY <1>1, <1>3, <2>1 DEF TypeOK, WireInv, IsResult
  <2> QED
    BY <1>4, <2>2
<1>6. CASE ~closed
  <2>1. /\ Len(toClient) \in Nat /\ Len(toClient') = Len(toClient) + 1
        /\ toClient' \in Seq(Messages)
        /\ \A i \in 1 .. Len(toClient) : toClient'[i] = toClient[i]
        /\ toClient'[Len(toClient) + 1].id = x
    BY <1>1, <1>6, AppendElements, MessageTypes DEF AgentAnswers, TypeOK
  <2>2. TypeOK'
    BY <1>1, <1>3, <2>1 DEF TypeOK
  <2>3. \A i \in 1 .. Len(toClient') : IsResult(i)' =>
          /\ toClient'[i].id \in Requests
          /\ status[toClient'[i].id] \notin {"idle", "refused"}
          /\ \A q \in Requests : answered[q] # toClient'[i].id
          /\ \A j \in 1 .. Len(toAgent') : toAgent'[j] # toClient'[i].id
    <3> SUFFICES ASSUME NEW i \in 1 .. Len(toClient'), IsResult(i)'
                 PROVE  /\ toClient'[i].id \in Requests
                        /\ status[toClient'[i].id] \notin {"idle", "refused"}
                        /\ \A q \in Requests : answered[q] # toClient'[i].id
                        /\ \A j \in 1 .. Len(toAgent') : toAgent'[j] # toClient'[i].id
      OBVIOUS
    <3>1. CASE i = Len(toClient) + 1
      BY <1>1, <1>2, <2>1, <3>1
    <3>2. CASE i \in 1 .. Len(toClient)
      BY <1>1, <2>1, <3>2 DEF WireInv, IsResult
    <3> QED
      BY <2>1, <3>1, <3>2
  <2>4. \A i, j \in 1 .. Len(toClient') : IsResult(i)' /\ IsResult(j)' /\ i # j =>
          toClient'[i].id # toClient'[j].id
    BY <1>1, <1>2, <2>1 DEF WireInv, IsResult
  <2>5. \A i, j \in 1 .. Len(toAgent') : i # j => toAgent'[i] # toAgent'[j]
    BY <1>1 DEF WireInv
  <2>6. \A i \in 1 .. Len(toAgent') :
          /\ status[toAgent'[i]] \notin {"idle", "refused"}
          /\ \A q \in Requests : answered[q] # toAgent'[i]
    BY <1>1 DEF WireInv
  <2>7. WireInv'
    BY <1>3, <2>3, <2>4, <2>5, <2>6 DEF WireInv
  <2> QED
    BY <1>4, <2>2, <2>7
<1> QED
  BY <1>5, <1>6

\* A message that is not an answer leaves the identities on the wire alone
\* when it is sent ...
LEMMA SendWireInv ==
  ASSUME TypeOK, WireInv, UNCHANGED <<toAgent, status, answered>>,
         NEW m \in Messages, m.type # "result", toClient' = Append(toClient, m)
  PROVE  WireInv' /\ toClient' \in Seq(Messages)
<1>1. /\ Len(toClient) \in Nat /\ Len(toClient') = Len(toClient) + 1
      /\ toClient' \in Seq(Messages)
      /\ \A i \in 1 .. Len(toClient) : toClient'[i] = toClient[i]
      /\ toClient'[Len(toClient) + 1].type # "result"
  BY AppendElements DEF TypeOK
<1>2. \A i \in 1 .. Len(toClient') : IsResult(i)' =>
        i \in 1 .. Len(toClient) /\ IsResult(i) /\ toClient'[i] = toClient[i]
  BY <1>1 DEF IsResult
<1> QED
  BY <1>1, <1>2 DEF WireInv

\* ... and when it is taken off the wire.
LEMMA TakeWireInv ==
  ASSUME TypeOK, WireInv, UNCHANGED <<toAgent, status, answered>>,
         toClient # <<>>, toClient' = Tail(toClient)
  PROVE  WireInv' /\ toClient' \in Seq(Messages)
<1>1. /\ Len(toClient) \in Nat /\ Len(toClient') = Len(toClient) - 1
      /\ toClient' \in Seq(Messages)
      /\ \A i \in 1 .. Len(toClient') :
           i + 1 \in 1 .. Len(toClient) /\ toClient'[i] = toClient[i + 1]
  BY TailElements DEF TypeOK
<1>2. \A i \in 1 .. Len(toClient') : IsResult(i)' =>
        i + 1 \in 1 .. Len(toClient) /\ IsResult(i + 1) /\ toClient'[i] = toClient[i + 1]
  BY <1>1 DEF IsResult
<1>3. \A i \in 1 .. Len(toClient') : IsResult(i)' =>
        /\ toClient'[i].id \in Requests
        /\ status[toClient'[i].id] \notin {"idle", "refused"}
        /\ \A r \in Requests : answered[r] # toClient'[i].id
        /\ \A j \in 1 .. Len(toAgent) : toAgent[j] # toClient'[i].id
  BY <1>2 DEF WireInv
<1>4. \A i, j \in 1 .. Len(toClient') : IsResult(i)' /\ IsResult(j)' /\ i # j =>
        toClient'[i].id # toClient'[j].id
  <2> SUFFICES ASSUME NEW i \in 1 .. Len(toClient'), NEW j \in 1 .. Len(toClient'),
                      IsResult(i)', IsResult(j)', i # j
               PROVE  toClient'[i].id # toClient'[j].id
    OBVIOUS
  <2>1. /\ i + 1 # j + 1
        /\ i + 1 \in 1 .. Len(toClient) /\ IsResult(i + 1) /\ toClient'[i] = toClient[i + 1]
        /\ j + 1 \in 1 .. Len(toClient) /\ IsResult(j + 1) /\ toClient'[j] = toClient[j + 1]
    BY <1>1, <1>2
  <2>2. toClient[i + 1].id # toClient[j + 1].id
    BY <2>1 DEF WireInv
  <2> QED
    BY <2>1, <2>2
<1> QED
  BY <1>1, <1>3, <1>4 DEF WireInv

\* Nothing is settled when the agent sends a message that is no answer, or when
\* the oldest message is taken and has no effect on a request.
LEMMA OtherMessageInv ==
  ASSUME IInv, UNCHANGED <<toAgent, slot, timer, issued, kindOf, status, answered>>,
         \/ toClient' = toClient
         \/ \E m \in Messages : m.type # "result" /\ toClient' = Append(toClient, m)
         \/ toClient # <<>> /\ toClient' = Tail(toClient)
  PROVE  /\ SlotInv' /\ WireInv' /\ TimerGuardsItsSlot'
         /\ MismatchNeedsTimeout' /\ AnswersNotShared'
         /\ toClient' \in Seq(Messages)
<1>1. SlotInv' /\ TimerGuardsItsSlot' /\ MismatchNeedsTimeout' /\ AnswersNotShared'
  BY DEF IInv, SlotInv, TimerGuardsItsSlot, MismatchNeedsTimeout, AnswersNotShared
<1>2. WireInv' /\ toClient' \in Seq(Messages)
  <2>1. CASE toClient' = toClient
    BY <2>1 DEF IInv, WireInv, IsResult, TypeOK
  <2>2. CASE \E m \in Messages : m.type # "result" /\ toClient' = Append(toClient, m)
    BY <2>2, SendWireInv DEF IInv
  <2>3. CASE toClient # <<>> /\ toClient' = Tail(toClient)
    BY <2>3, TakeWireInv DEF IInv
  <2> QED
    BY <2>1, <2>2, <2>3
<1> QED
  BY <1>1, <1>2

\* Every step preserves the invariant.
LEMMA NextInv == IInv /\ [Next]_vars => IInv'
<1> SUFFICES ASSUME IInv, [Next]_vars PROVE IInv'
  OBVIOUS
<1> DEFINE Kept == UNCHANGED <<toAgent, slot, timer, issued, kindOf, status, answered>>
<1>1. CASE Connect
  <2>1. /\ Kept /\ toClient' = toClient
        /\ UNCHANGED <<aborted, allowed, agentUp, pendingUpdate, updateTimer, dirty, known>>
        /\ ~closed /\ conn = "none"
    BY <1>1 DEF Connect, slotVars, updateVars, callVars, wireVars
  <2>2. SlotInv' /\ WireInv' /\ TimerGuardsItsSlot' /\ MismatchNeedsTimeout'
        /\ AnswersNotShared'
    BY <2>1, OtherMessageInv
  <2>3. CASE aborted
    <3>1. conn' = "rejected" /\ closed' = TRUE /\ UNCHANGED <<sock, connectTimer>>
      BY <1>1, <2>3 DEF Connect
    <3>2. /\ sock \notin {"connecting", "open"} /\ ~connectTimer /\ ~updateTimer
          /\ \A k \in Kinds : slot[k] = None
          /\ \A r \in Requests : status[r] # "pending"
      <4>1. \A r \in Requests : status[r] = "idle"
        BY <2>1, ClientAssumption DEF IInv, StartInv, SlotInv, Requests
      <4>2. \A k \in Kinds : slot[k] = None
        BY <4>1 DEF IInv, SlotInv, TypeOK
      <4> QED
        BY <2>1, <4>1, <4>2 DEF IInv, StartInv
    <3>3. TypeOK' /\ UpdateInv' /\ StartInv'
      BY <2>1, <3>1 DEF IInv, TypeOK, UpdateInv, StartInv
    <3>4. ClosedIsQuiescent'
      BY <2>1, <3>1, <3>2 DEF IInv, ClosedIsQuiescent, TimerGuardsItsSlot
    <3> QED
      BY <2>2, <3>3, <3>4 DEF IInv
  <2>4. CASE ~aborted
    <3>1. conn' = "pending" /\ sock' = "connecting" /\ connectTimer' = TRUE
          /\ UNCHANGED closed
      BY <1>1, <2>4 DEF Connect
    <3>2. TypeOK' /\ UpdateInv' /\ StartInv' /\ ClosedIsQuiescent'
      BY <2>1, <3>1 DEF IInv, TypeOK, UpdateInv, StartInv, ClosedIsQuiescent
    <3> QED
      BY <2>2, <3>2 DEF IInv
  <2> QED
    BY <2>3, <2>4
<1>2. CASE Open
  <2>1. Kept /\ toClient' = toClient
    BY <1>2 DEF Open, slotVars, callVars, wireVars
  <2>2. TypeOK' /\ UpdateInv' /\ StartInv' /\ ClosedIsQuiescent'
    BY <1>2 DEF Open, IInv, TypeOK, UpdateInv, StartInv, ClosedIsQuiescent,
                slotVars, updateVars, callVars, wireVars
  <2> QED
    BY <2>1, <2>2, OtherMessageInv DEF IInv
<1>3. CASE Close
  BY <1>3, DisconnectInv DEF Close, IInv, TypeOK, StartInv
<1>4. CASE Abort
  <2>1. CASE sock \in {"connecting", "open"}
    BY <1>4, <2>1, DisconnectInv DEF Abort, IInv, TypeOK, StartInv
  <2>2. CASE sock \notin {"connecting", "open"}
    <3>1. /\ Kept /\ toClient' = toClient
          /\ UNCHANGED <<conn, closed, sock, connectTimer, allowed, agentUp,
                         pendingUpdate, updateTimer, dirty, known>>
          /\ aborted' = TRUE
      BY <1>4, <2>2 DEF Abort, slotVars, updateVars, callVars
    <3>2. TypeOK' /\ UpdateInv' /\ StartInv' /\ ClosedIsQuiescent'
      BY <3>1 DEF IInv, TypeOK, UpdateInv, StartInv, ClosedIsQuiescent
    <3> QED
      BY <3>1, <3>2, OtherMessageInv DEF IInv
  <2> QED
    BY <2>1, <2>2
<1>5. CASE SocketClosed
  BY <1>5, DisconnectInv DEF SocketClosed, IInv, TypeOK, StartInv
<1>6. CASE ReceiveSession
  <2>1. /\ Kept /\ toClient # <<>> /\ toClient' = Tail(toClient)
        /\ Head(toClient) \in Messages /\ Head(toClient).type = "session"
        /\ allowed' = Head(toClient).caps /\ ~closed
        /\ conn' \in {conn, "resolved"} /\ connectTimer' = FALSE
        /\ dirty' = TRUE /\ known' = FALSE
        /\ UNCHANGED <<closed, sock, aborted, agentUp, pendingUpdate, updateTimer>>
    BY <1>6, TailElements DEF ReceiveSession, Receive, Arrived, IInv, TypeOK,
                              slotVars, updateVars, callVars
  <2>2. allowed' \in SUBSET Kinds
    BY <2>1 DEF Messages
  <2>3. toClient' \in Seq(Messages) /\ SlotInv' /\ WireInv' /\ TimerGuardsItsSlot'
        /\ MismatchNeedsTimeout' /\ AnswersNotShared'
    BY <2>1, OtherMessageInv
  <2>4. TypeOK' /\ UpdateInv' /\ StartInv' /\ ClosedIsQuiescent'
    BY <2>1, <2>2, <2>3 DEF IInv, TypeOK, UpdateInv, StartInv, ClosedIsQuiescent
  <2> QED
    BY <2>3, <2>4 DEF IInv
<1>7. CASE ReceiveFailure
  <2>1. UNCHANGED <<aborted, agentUp, toAgent>>
    BY <1>7 DEF ReceiveFailure, Arrived
  <2>2. CASE conn = "pending"
    BY <1>7, <2>1, <2>2, DisconnectInv DEF ReceiveFailure, IInv, TypeOK, StartInv
  <2>3. CASE conn # "pending"
    <3>1. /\ Kept /\ toClient # <<>> /\ toClient' = Tail(toClient)
          /\ UNCHANGED <<conn, closed, sock, connectTimer, allowed,
                         pendingUpdate, updateTimer, dirty, known>>
      BY <1>7, <2>1, <2>3 DEF ReceiveFailure, Arrived, slotVars, updateVars, callVars
    <3>2. toClient' \in Seq(Messages) /\ SlotInv' /\ WireInv' /\ TimerGuardsItsSlot'
          /\ MismatchNeedsTimeout' /\ AnswersNotShared'
      BY <3>1, OtherMessageInv
    <3>3. TypeOK' /\ UpdateInv' /\ StartInv' /\ ClosedIsQuiescent'
      BY <2>1, <3>1, <3>2 DEF IInv, TypeOK, UpdateInv, StartInv, ClosedIsQuiescent
    <3> QED
      BY <3>2, <3>3 DEF IInv
  <2> QED
    BY <2>2, <2>3
<1>8. CASE ReceiveChannel \/ ReceiveMessage
  <2>1. /\ Kept /\ toClient # <<>> /\ toClient' = Tail(toClient) /\ ~closed
        /\ sock = "open"
        /\ UNCHANGED <<conn, closed, sock, aborted, connectTimer, allowed, agentUp>>
    BY <1>8 DEF ReceiveChannel, ReceiveMessage, Receive, Arrived, connVars, slotVars, callVars
  <2>2. toClient' \in Seq(Messages) /\ SlotInv' /\ WireInv' /\ TimerGuardsItsSlot'
        /\ MismatchNeedsTimeout' /\ AnswersNotShared'
    BY <2>1, OtherMessageInv
  <2>3. CASE known' \in BOOLEAN /\ ScheduleUpdate
    <3>1. known' \in BOOLEAN /\ dirty' = TRUE /\ pendingUpdate' = TRUE
          /\ updateTimer' = (updateTimer \/ ~pendingUpdate)
      BY <2>3 DEF ScheduleUpdate
    <3>2. TypeOK' /\ UpdateInv' /\ StartInv' /\ ClosedIsQuiescent'
      BY <2>1, <2>2, <3>1 DEF IInv, TypeOK, UpdateInv, StartInv, ClosedIsQuiescent
    <3> QED
      BY <2>2, <3>2 DEF IInv
  <2>4. CASE UNCHANGED updateVars
    <3>1. UNCHANGED <<pendingUpdate, updateTimer, dirty, known>>
      BY <2>4 DEF updateVars
    <3>2. TypeOK' /\ UpdateInv' /\ StartInv' /\ ClosedIsQuiescent'
      BY <2>1, <2>2, <3>1 DEF IInv, TypeOK, UpdateInv, StartInv, ClosedIsQuiescent
    <3> QED
      BY <2>2, <3>2 DEF IInv
  <2> QED
    BY <1>8, <2>3, <2>4 DEF ReceiveChannel, ReceiveMessage, IInv, TypeOK
<1>9. CASE ReceiveResult
  BY <1>9, ReceiveResultInv
<1>10. ASSUME NEW k \in Kinds, Call(k) PROVE IInv'
  BY <1>10, CallInv
<1>11. CASE ConnectTimeout
  BY <1>11, DisconnectInv DEF ConnectTimeout, IInv, TypeOK, StartInv
<1>12. CASE UpdateTimeout
  <2>1. /\ Kept /\ toClient' = toClient
        /\ updateTimer' = FALSE /\ pendingUpdate' = FALSE /\ dirty' = FALSE
        /\ UNCHANGED <<conn, closed, sock, aborted, connectTimer, allowed, agentUp, known>>
    BY <1>12 DEF UpdateTimeout, FireUpdate, connVars, slotVars, callVars, wireVars
  <2>2. TypeOK' /\ UpdateInv' /\ StartInv' /\ ClosedIsQuiescent'
    BY <2>1 DEF IInv, TypeOK, UpdateInv, StartInv, ClosedIsQuiescent
  <2> QED
    BY <2>1, <2>2, OtherMessageInv DEF IInv
<1>13. ASSUME NEW k \in Kinds, CallTimeout(k) PROVE IInv'
  BY <1>13, CallTimeoutInv
<1>14. CASE AgentSends
  <2>1. /\ Kept
        /\ \E m \in Messages : m.type # "result" /\ toClient' = Append(toClient, m)
        /\ UNCHANGED <<conn, closed, sock, aborted, connectTimer, allowed, agentUp,
                       pendingUpdate, updateTimer, dirty, known>>
    BY <1>14, MessageTypes DEF AgentSends, connVars, slotVars, updateVars, callVars
  <2>2. toClient' \in Seq(Messages) /\ SlotInv' /\ WireInv' /\ TimerGuardsItsSlot'
        /\ MismatchNeedsTimeout' /\ AnswersNotShared'
    BY <2>1, OtherMessageInv
  <2>3. TypeOK' /\ UpdateInv' /\ StartInv' /\ ClosedIsQuiescent'
    BY <2>1, <2>2 DEF IInv, TypeOK, UpdateInv, StartInv, ClosedIsQuiescent
  <2> QED
    BY <2>2, <2>3 DEF IInv
<1>15. CASE AgentAnswers
  BY <1>15, AgentAnswersInv
<1>16. CASE AgentStops \/ UNCHANGED vars
  <2>1. /\ Kept /\ toClient' = toClient /\ agentUp' \in {agentUp, FALSE}
        /\ UNCHANGED <<conn, closed, sock, aborted, connectTimer, allowed,
                       pendingUpdate, updateTimer, dirty, known>>
    BY <1>16 DEF AgentStops, vars, connVars, slotVars, updateVars, callVars, wireVars
  <2>2. TypeOK' /\ UpdateInv' /\ StartInv' /\ ClosedIsQuiescent'
    BY <2>1 DEF IInv, TypeOK, UpdateInv, StartInv, ClosedIsQuiescent
  <2> QED
    BY <2>1, <2>2, OtherMessageInv DEF IInv
<1> QED
  BY <1>1, <1>2, <1>3, <1>4, <1>5, <1>6, <1>7, <1>8, <1>9, <1>10, <1>11, <1>12,
     <1>13, <1>14, <1>15, <1>16 DEF Next, Timers

-----------------------------------------------------------------------------
\* Every reachable state satisfies the invariant.
THEOREM Invariance == Spec => []IInv
<1>1. Init => IInv
  BY InitInv
<1>2. IInv /\ [Next]_vars => IInv'
  BY NextInv
<1> QED
  BY <1>1, <1>2, PTL DEF Spec

\* The client's variables keep their types.
THEOREM TypeCorrect == Spec => []TypeOK
BY Invariance, PTL DEF IInv

\* Whatever ended the connection left no promise pending and no timer armed.
THEOREM ClosedClientIsQuiescent == Spec => []ClosedIsQuiescent
BY Invariance, PTL DEF IInv

\* A request is never timed out by the timer of an earlier one.
THEOREM TimersGuardTheirSlots == Spec => []TimerGuardsItsSlot
BY Invariance, PTL DEF IInv

\* Without an identity on the wire, a request receives the answer of another
\* only after an earlier request of its kind has timed out.
THEOREM MismatchesNeedTimeouts == Spec => []MismatchNeedsTimeout
BY Invariance, PTL DEF IInv

\* One answer resolves at most one promise.
THEOREM AnswersResolveOnce == Spec => []AnswersNotShared
BY Invariance, PTL DEF IInv

\* From the first channel of a session on, a change of the buffer, the reset by a
\* repeated session included, has a timer that will report it until the client
\* closes.
THEOREM ChangesAreScheduled == Spec => []DirtyIsScheduled
<1>1. IInv => DirtyIsScheduled
  BY DEF IInv, UpdateInv, TypeOK, DirtyIsScheduled
<1> QED
  BY <1>1, Invariance, PTL

\* A promise settles once: no handler, timer or teardown touches it again.
THEOREM PromisesSettleOnce == Spec => SettledForever
<1> DEFINE Settles == \A r \in Requests : status[r] \in Settled =>
                        status'[r] = status[r] /\ answered'[r] = answered[r]
<1>1. IInv /\ [Next]_vars => [Settles]_vars
  <2> SUFFICES ASSUME IInv, [Next]_vars,
                      NEW r \in Requests, status[r] \in Settled
               PROVE  status'[r] = status[r] /\ answered'[r] = answered[r]
    OBVIOUS
  <2>1. status[r] # "pending" /\ status[r] # "idle"
    BY DEF Settled
  <2>2. \A k \in Kinds : slot[k] # r
    BY <2>1, ClientAssumption DEF IInv, SlotInv, None, Requests
  <2>3. CASE UNCHANGED <<status, answered>>
    BY <2>3
  <2>4. CASE Disconnect
    BY <2>2, <2>4 DEF Disconnect, RejectWaiting, Waiting
  <2>5. ASSUME NEW k \in Kinds, Call(k)
        PROVE  status'[r] = status[r] /\ answered'[r] = answered[r]
    <3>1. r # issued + 1
      BY <2>1 DEF IInv, SlotInv, TypeOK
    <3> QED
      BY <2>5, <3>1 DEF Call, IInv, TypeOK
  <2>6. ASSUME NEW k \in Kinds, CallTimeout(k)
        PROVE  status'[r] = status[r] /\ answered'[r] = answered[r]
    BY <2>2, <2>6 DEF CallTimeout, IInv, TypeOK
  <2>7. CASE ReceiveResult
    <3>1. SlotFor(Head(toClient).id) \in Kinds
      <4>1. Head(toClient) = toClient[1] /\ 1 \in 1 .. Len(toClient)
            /\ IsResult(1)
        BY <2>7, TailElements DEF ReceiveResult, Receive, Arrived, IInv, TypeOK, IsResult
      <4> QED
        BY <4>1 DEF SlotFor, IInv, WireInv, TypeOK
    <3> QED
      BY <2>2, <2>7, <3>1 DEF ReceiveResult, Settle, IInv, TypeOK
  <2>8. \/ UNCHANGED <<status, answered>>
        \/ Disconnect
        \/ \E k \in Kinds : Call(k)
        \/ \E k \in Kinds : CallTimeout(k)
        \/ ReceiveResult
    BY DEF Next, Timers, vars, callVars, Connect, Open, Close, Abort, SocketClosed,
           ReceiveSession, ReceiveFailure, ReceiveChannel, ReceiveMessage, ConnectTimeout,
           UpdateTimeout, AgentSends, AgentAnswers, AgentStops
  <2> QED
    BY <2>3, <2>4, <2>5, <2>6, <2>7, <2>8
<1> QED
  BY <1>1, Invariance, PTL DEF Spec, SettledForever
=============================================================================
