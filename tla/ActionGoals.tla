------------------------------ MODULE ActionGoals ------------------------------
(***************************************************************************)
(* The goals of one action name, as the agent keeps them:                  *)
(* LiveBridge (agent/robotscope_agent/bridge.py) with the part of          *)
(* LiveGateway (gateway.py) that calls it and broadcasts its events, and   *)
(* the ROS 2 action server it talks to.                                    *)
(*                                                                         *)
(* Three parties interleave.  The command handler runs on the asyncio loop *)
(* and blocks it while it spins for a reply, so commands are handled one   *)
(* at a time and nothing else leaves the gateway meanwhile.  The outcome   *)
(* callback runs on an executor, also during such a spin.  The server      *)
(* accepts, refuses, cancels and finishes whenever it likes.               *)
(***************************************************************************)
EXTENDS Naturals, Sequences

CONSTANTS
  MaxGoals,     \* bound: goals ever sent to the server
  MaxCommands   \* bound: commands ever handled

ASSUME GoalsAssumption == MaxGoals \in Nat /\ MaxCommands \in Nat

VARIABLES
  active,     \* _active_goal_handles[action]: a goal, or None
  client,     \* _action_clients holds a client for the action
  handler,    \* what the handler of the current command is doing
  sent,       \* goals sent so far; goal n is the n-th
  commands,   \* commands handled so far
  server,     \* the server's view of each goal
  cancel,     \* the latest cancel request for each goal
  tracked,    \* the goals whose acceptance was seen: a result callback waits
  reported,   \* the goals whose result callback has run
  queue,      \* broadcasts scheduled on the loop, oldest first
  wire        \* what a viewer that stays connected has been sent

serverVars == <<server, cancel>>
bridgeVars == <<active, client, tracked, reported>>
vars == <<active, client, handler, sent, commands, server, cancel,
          tracked, reported, queue, wire>>

None  == 0
Goals == 1 .. MaxGoals

Idle == [step |-> "idle", goal |-> None, preempt |-> FALSE]
At(step, g, preempt) == [step |-> step, goal |-> g, preempt |-> preempt]
Msg(type, g) == [type |-> type, goal |-> g]

Init ==
  /\ active = None /\ client = FALSE /\ handler = Idle
  /\ sent = 0 /\ commands = 0
  /\ server = [g \in Goals |-> "none"]
  /\ cancel = [g \in Goals |-> "none"]
  /\ tracked = {} /\ reported = {}
  /\ queue = <<>> /\ wire = <<>>

-----------------------------------------------------------------------------
(* The command handler.                                                    *)

\* The handler answers the viewer and returns to the loop.
Reply(m) ==
  /\ wire' = Append(wire, m)
  /\ handler' = Idle

Refuse == Reply(Msg("failed", None))

Take ==
  /\ handler = Idle
  /\ commands < MaxCommands
  /\ commands' = commands + 1
  /\ UNCHANGED <<bridgeVars, sent, server, queue>>

\* cancel_action_goal looks the handle up itself: the outcome may have taken it.
StartCancel(preempt) ==
  IF active = None
    THEN Refuse /\ UNCHANGED cancel
    ELSE /\ cancel' = [cancel EXCEPT ![active] = "asked"]
         /\ handler' = At("cancelling", active, preempt)
         /\ UNCHANGED wire

HandleSend(preempt) ==
  /\ sent < MaxGoals
  /\ Take
  /\ IF active = None
       THEN handler' = At("opening", None, FALSE) /\ UNCHANGED wire
       ELSE IF preempt
         THEN handler' = At("preempting", None, TRUE) /\ UNCHANGED wire
         ELSE Refuse
  /\ UNCHANGED cancel

HandleCancel ==
  /\ Take
  /\ StartCancel(FALSE)

Preempt ==
  /\ handler.step = "preempting"
  /\ StartCancel(TRUE)
  /\ UNCHANGED <<bridgeVars, sent, commands, server, queue>>

ClearHandle == active' = None

\* Faulty variant: the cancel request is sent and its reply is not awaited.
NotAwaited == TRUE

\* Any reply counts as a cancel, also one that refuses it.
ReplyArrived == cancel[handler.goal] \in {"accepted", "refused"}

CancelReplied ==
  /\ handler.step = "cancelling"
  /\ ReplyArrived
  /\ IF handler.preempt
       THEN ClearHandle /\ handler' = At("opening", None, FALSE) /\ UNCHANGED wire
       ELSE Reply(Msg("cancelRequested", handler.goal)) /\ UNCHANGED active
  /\ UNCHANGED <<client, tracked, reported, sent, commands, serverVars, queue>>

\* Faulty variant: the spin for the cancel's reply has no limit.
NeverTimesOut == FALSE /\ UNCHANGED vars

CancelTimeout ==
  /\ handler.step = "cancelling"
  /\ Refuse
  /\ UNCHANGED <<bridgeVars, sent, commands, serverVars, queue>>

\* wait_for_server gives up; only the first goal of an action waits for it.
ServerMissing ==
  /\ handler.step = "opening" /\ ~client
  /\ Refuse
  /\ UNCHANGED <<bridgeVars, sent, commands, serverVars, queue>>

SendGoal ==
  LET g == sent + 1 IN
  /\ handler.step = "opening"
  /\ client' = TRUE
  /\ sent' = g
  /\ server' = [server EXCEPT ![g] = "offered"]
  /\ handler' = At("sending", g, FALSE)
  /\ UNCHANGED <<active, tracked, reported, commands, cancel, queue, wire>>

GoalAccepted ==
  /\ handler.step = "sending"
  /\ server[handler.goal] \in {"executing", "ended"}
  /\ active' = handler.goal
  /\ tracked' = tracked \cup {handler.goal}
  /\ handler' = At("replying", handler.goal, FALSE)
  /\ UNCHANGED <<client, reported, sent, commands, serverVars, queue, wire>>

\* The executor may run the goal's result callback before this.
ReplyAccepted ==
  /\ handler.step = "replying"
  /\ Reply(Msg("accepted", handler.goal))
  /\ UNCHANGED <<bridgeVars, sent, commands, serverVars, queue>>

GoalRejected ==
  /\ handler.step = "sending"
  /\ server[handler.goal] = "rejected"
  /\ Refuse
  /\ UNCHANGED <<bridgeVars, sent, commands, serverVars, queue>>

\* The goal may still be accepted: nobody will know.
SendTimeout ==
  /\ handler.step = "sending"
  /\ Refuse
  /\ UNCHANGED <<bridgeVars, sent, commands, serverVars, queue>>

-----------------------------------------------------------------------------
(* The result callback and the loop's broadcasts.                          *)

\* Faulty variant: the handle outlives the outcome.
LeaveHandle(g) == UNCHANGED active

\* The handle of the action's name goes, whichever goal it belongs to.
PopHandle(g) == active' = None

\* Faulty variant: a goal nobody tracks reports its end too.
AnyEnded(g) == g \notin reported /\ server[g] = "ended"

OutcomeDue(g) == g \in tracked \ reported /\ server[g] = "ended"

Outcome(g) ==
  /\ OutcomeDue(g)
  /\ PopHandle(g)
  /\ reported' = reported \cup {g}
  /\ queue' = Append(queue, Msg("outcome", g))
  /\ UNCHANGED <<client, tracked, handler, sent, commands, serverVars, wire>>

\* Faulty variant: a broadcast leaves while a handler is still busy.
RunsAnyTime == queue # <<>>

\* The loop runs a scheduled broadcast only when no handler blocks it.
LoopRuns == queue # <<>> /\ handler = Idle

Broadcast ==
  /\ LoopRuns
  /\ wire' = Append(wire, Head(queue))
  /\ queue' = Tail(queue)
  /\ UNCHANGED <<bridgeVars, handler, sent, commands, serverVars>>

-----------------------------------------------------------------------------
(* The action server.                                                      *)

Decide(g) ==
  /\ server[g] = "offered"
  /\ \E verdict \in {"executing", "rejected"} :
       server' = [server EXCEPT ![g] = verdict]
  /\ UNCHANGED <<bridgeVars, handler, sent, commands, cancel, queue, wire>>

AnswerCancel(g) ==
  /\ cancel[g] = "asked"
  /\ \E verdict \in {"accepted", "refused"} :
       /\ server[g] = "ended" => verdict = "refused"
       /\ cancel' = [cancel EXCEPT ![g] = verdict]
  /\ UNCHANGED <<bridgeVars, handler, sent, commands, server, queue, wire>>

\* The goal succeeds, aborts or, once its cancel was accepted, is canceled.
Finish(g) ==
  /\ server[g] = "executing"
  /\ server' = [server EXCEPT ![g] = "ended"]
  /\ UNCHANGED <<bridgeVars, handler, sent, commands, cancel, queue, wire>>

-----------------------------------------------------------------------------
Next ==
  \/ \E preempt \in BOOLEAN : HandleSend(preempt)
  \/ HandleCancel \/ Preempt \/ CancelReplied \/ CancelTimeout
  \/ ServerMissing \/ SendGoal \/ GoalAccepted \/ ReplyAccepted
  \/ GoalRejected \/ SendTimeout
  \/ \E g \in Goals : Outcome(g) \/ Decide(g) \/ AnswerCancel(g) \/ Finish(g)
  \/ Broadcast

Spec == Init /\ [][Next]_vars

\* Every spin of the handler is bounded and the handler's own steps run; the
\* server and the network owe nothing.
FairSpec ==
  /\ Spec
  /\ WF_vars(Preempt) /\ WF_vars(CancelTimeout) /\ WF_vars(SendTimeout)
  /\ WF_vars(SendGoal \/ ServerMissing) /\ WF_vars(ReplyAccepted)

-----------------------------------------------------------------------------
(* Properties.                                                             *)

Steps == {"idle", "preempting", "cancelling", "opening", "sending", "replying"}
WireMessages == [type : {"failed", "accepted", "cancelRequested", "outcome"},
                 goal : {None} \cup Goals]

\* The types of the variables.
TypeOK ==
  /\ active \in {None} \cup Goals /\ client \in BOOLEAN
  /\ handler \in [step : Steps, goal : {None} \cup Goals, preempt : BOOLEAN]
  /\ handler.step \in {"cancelling", "sending", "replying"} => handler.goal # None
  /\ sent \in 0 .. MaxGoals /\ commands \in 0 .. MaxCommands
  /\ server \in [Goals -> {"none", "offered", "rejected", "executing", "ended"}]
  /\ cancel \in [Goals -> {"none", "asked", "accepted", "refused"}]
  /\ tracked \in SUBSET Goals /\ reported \in SUBSET tracked
  /\ queue \in Seq(WireMessages) /\ wire \in Seq(WireMessages)

\* A stored handle belongs to an accepted goal whose outcome is still to come:
\* the agent never refuses or cancels on account of a goal that is over.
HandleIsPending == active # None => active \in tracked \ reported

\* A viewer learns that a goal was accepted before it learns how it ended,
\* though the result callback may run before the acceptance is written.
AcceptedBeforeOutcome ==
  \A j \in 1 .. Len(wire) : wire[j].type = "outcome" =>
    \E i \in 1 .. j - 1 : wire[i] = Msg("accepted", wire[j].goal)

\* A goal is sent, and its acceptance awaited, only while no handle is stored.
SentWhileFree == handler.step = "sending" => active = None

\* A handle is replaced only after the server answered a cancel for it, and
\* otherwise leaves only when some goal's outcome arrives.
HandleLeavesForAReason ==
  [][active # None /\ active' # active =>
       \/ reported' # reported
       \/ cancel[active] \in {"accepted", "refused"}]_vars

\* The handler returns to the loop whatever the server does.
HandlerReturns == handler # Idle ~> handler = Idle

\* The documented replacement (docs/action-gateway.md: "Preempt Fibonacci
\* replaces running goal on same action", "Cancel goal button while status is
\* running"): the newest accepted goal stays the one that a cancel or a preempt
\* reaches until its outcome has been reported.
NewestGoalIsHeld ==
  \A g \in tracked \ reported :
    (\A h \in tracked : h <= g) /\ handler = Idle =>
      active = g \/ cancel[g] # "none"
=============================================================================
