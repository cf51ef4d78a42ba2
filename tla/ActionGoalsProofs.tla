-------------------------- MODULE ActionGoalsProofs --------------------------
(***************************************************************************)
(* Proofs of the safety properties of ActionGoals, for every number of     *)
(* goals and of commands.                                                  *)
(*                                                                         *)
(* Goals are numbered in the order they are sent, so a goal being sent is  *)
(* not tracked yet; that is what makes HandleIsPending inductive.  The     *)
(* order on the wire rests on the handler: an outcome may be queued while  *)
(* the acceptance is still being written, never sent.                      *)
(***************************************************************************)
EXTENDS ActionGoals, TLAPS

\* Goals not sent yet are unknown to everyone; a handler still sending has not
\* tracked its goal, and it keeps the handle's place free until it has.  One
\* that cancels works on the stored handle, unless the outcome has taken it.
GoalInv ==
  /\ \A g \in Goals : g > sent => server[g] = "none"
  /\ \A g \in tracked : server[g] \in {"executing", "ended"}
  /\ handler.step = "sending" => handler.goal \notin tracked
  /\ handler.step \in {"opening", "sending"} => active = None
  /\ handler.step = "cancelling" => active \in {None, handler.goal}
  /\ \/ handler.step \in {"preempting", "opening"}
     \/ handler.step = "cancelling" /\ handler.preempt
     => sent < MaxGoals

\* Every tracked goal has had its acceptance written, or is about to; only
\* tracked goals have an outcome to broadcast.
Written(g) == \E i \in 1 .. Len(wire) : wire[i] = Msg("accepted", g)

WireInv ==
  /\ \A g \in tracked : Written(g) \/ handler = At("replying", g, FALSE)
  /\ \A i \in 1 .. Len(queue) :
       queue[i].type = "outcome" /\ queue[i].goal \in tracked
  /\ AcceptedBeforeOutcome

IInv == TypeOK /\ GoalInv /\ HandleIsPending /\ WireInv

-----------------------------------------------------------------------------
\* Tail shifts a sequence by one place.
LEMMA TailElements ==
  ASSUME NEW S, NEW s \in Seq(S), s # <<>>
  PROVE  /\ Tail(s) \in Seq(S) /\ Head(s) \in S /\ Head(s) = s[1]
         /\ Len(s) \in Nat /\ Len(s) > 0
         /\ Len(Tail(s)) = Len(s) - 1
         /\ \A i \in 1 .. Len(Tail(s)) : i + 1 \in 1 .. Len(s) /\ Tail(s)[i] = s[i + 1]
  OBVIOUS

\* Append adds one place at the end.
LEMMA AppendElements ==
  ASSUME NEW S, NEW s \in Seq(S), NEW e \in S
  PROVE  /\ Append(s, e) \in Seq(S)
         /\ Len(s) \in Nat /\ Len(Append(s, e)) = Len(s) + 1
         /\ \A i \in 1 .. Len(s) : Append(s, e)[i] = s[i]
         /\ Append(s, e)[Len(s) + 1] = e
  OBVIOUS

\* What the handler and the callback write are messages.
LEMMA MsgTypes ==
  ASSUME NEW g \in {None} \cup Goals
  PROVE  /\ \A type \in {"failed", "accepted", "cancelRequested", "outcome"} :
              Msg(type, g) \in WireMessages
         /\ \A type : Msg(type, g).type = type /\ Msg(type, g).goal = g
  BY DEF Msg, WireMessages

\* A message other than an outcome may be written at any time, and an outcome
\* once its goal's acceptance has been.
LEMMA WriteKeepsOrder ==
  ASSUME wire \in Seq(WireMessages), AcceptedBeforeOutcome,
         NEW m \in WireMessages, wire' = Append(wire, m),
         m.type = "outcome" => Written(m.goal)
  PROVE  /\ AcceptedBeforeOutcome' /\ wire' \in Seq(WireMessages)
         /\ \A g \in Goals : Written(g) => Written(g)'
         /\ \A g : m = Msg("accepted", g) => Written(g)'
<1>1. /\ wire' \in Seq(WireMessages)
      /\ Len(wire) \in Nat /\ Len(wire') = Len(wire) + 1
      /\ \A i \in 1 .. Len(wire) : wire'[i] = wire[i]
      /\ wire'[Len(wire) + 1] = m
  BY AppendElements
<1>2. AcceptedBeforeOutcome'
  <2> SUFFICES ASSUME NEW j \in 1 .. Len(wire'), wire'[j].type = "outcome"
               PROVE  \E i \in 1 .. j - 1 : wire'[i] = Msg("accepted", wire'[j].goal)
    BY DEF AcceptedBeforeOutcome, Msg
  <2>1. CASE j \in 1 .. Len(wire)
    <3>1. PICK i \in 1 .. j - 1 : wire[i] = Msg("accepted", wire[j].goal)
      BY <1>1, <2>1 DEF AcceptedBeforeOutcome
    <3> QED
      BY <1>1, <2>1, <3>1
  <2>2. CASE j = Len(wire) + 1
    <3>1. PICK i \in 1 .. Len(wire) : wire[i] = Msg("accepted", m.goal)
      BY <1>1, <2>2 DEF Written
    <3> QED
      BY <1>1, <2>2, <3>1
  <2> QED
    BY <1>1, <2>1, <2>2
<1>3. \A g \in Goals : Written(g) => Written(g)'
  BY <1>1 DEF Written, Msg
<1>4. \A g : m = Msg("accepted", g) => Written(g)'
  BY <1>1 DEF Written, Msg
<1> QED
  BY <1>1, <1>2, <1>3, <1>4

-----------------------------------------------------------------------------
\* The initial states satisfy the invariant.
LEMMA InitInv == Init => IInv
<1> SUFFICES ASSUME Init PROVE IInv
  OBVIOUS
<1> USE GoalsAssumption DEF Init, None, Goals, Idle
<1>1. TypeOK
  <2>1. /\ server \in [Goals -> {"none", "offered", "rejected", "executing", "ended"}]
        /\ cancel \in [Goals -> {"none", "asked", "accepted", "refused"}]
        /\ queue \in Seq(WireMessages) /\ wire \in Seq(WireMessages)
    OBVIOUS
  <2>2. /\ handler \in [step : Steps, goal : {None} \cup Goals, preempt : BOOLEAN]
        /\ handler.step = "idle"
    BY DEF Steps
  <2>3. sent \in 0 .. MaxGoals /\ commands \in 0 .. MaxCommands
    OBVIOUS
  <2>4. /\ active \in {None} \cup Goals /\ client \in BOOLEAN
        /\ tracked \in SUBSET Goals /\ reported \in SUBSET tracked
    OBVIOUS
  <2> QED
    BY <2>1, <2>2, <2>3, <2>4 DEF TypeOK
<1>2. GoalInv /\ HandleIsPending
  BY DEF GoalInv, HandleIsPending
<1>3. WireInv
  BY DEF WireInv, AcceptedBeforeOutcome
<1> QED
  BY <1>1, <1>2, <1>3 DEF IInv

-----------------------------------------------------------------------------
(* One step.                                                               *)

\* A handler that is not about to write an acceptance may go on.
LEMMA QuietWireInv ==
  ASSUME WireInv, UNCHANGED <<wire, queue, tracked>>,
         handler.step # "replying" \/ handler' = handler
  PROVE  WireInv'
BY DEF WireInv, Written, AcceptedBeforeOutcome, At, Msg

\* A handler's answer ends the command; the acceptance it owed is that answer.
LEMMA ReplyWireInv ==
  ASSUME TypeOK, WireInv, UNCHANGED <<queue, tracked>>,
         NEW type \in {"failed", "accepted", "cancelRequested"},
         NEW g \in {None} \cup Goals, Reply(Msg(type, g)),
         handler.step = "replying" => type = "accepted" /\ g = handler.goal
  PROVE  WireInv' /\ wire' \in Seq(WireMessages)
<1>1. /\ Msg(type, g) \in WireMessages /\ Msg(type, g).type # "outcome"
      /\ wire' = Append(wire, Msg(type, g)) /\ wire \in Seq(WireMessages)
  BY MsgTypes DEF Reply, TypeOK
<1>2. /\ AcceptedBeforeOutcome' /\ wire' \in Seq(WireMessages)
      /\ \A h \in Goals : Written(h) => Written(h)'
      /\ \A h : Msg(type, g) = Msg("accepted", h) => Written(h)'
  BY <1>1, WriteKeepsOrder DEF WireInv
<1>3. \A h \in tracked : Written(h)'
  <2> SUFFICES ASSUME NEW h \in tracked PROVE Written(h)'
    OBVIOUS
  <2>1. CASE Written(h)
    BY <1>2, <2>1 DEF TypeOK
  <2>2. CASE handler = At("replying", h, FALSE)
    BY <1>2, <2>2 DEF At
  <2> QED
    BY <2>1, <2>2 DEF WireInv
<1> QED
  BY <1>2, <1>3 DEF WireInv

\* Looking the handle up to cancel it: refused, or asked of the server.
LEMMA StartCancelInv ==
  ASSUME IInv, NEW preempt \in BOOLEAN, StartCancel(preempt),
         handler.step = IF preempt THEN "preempting" ELSE "idle",
         UNCHANGED <<bridgeVars, sent, server, queue>>, commands' \in 0 .. MaxCommands
  PROVE  IInv'
<1> USE DEF IInv
<1>1. UNCHANGED <<active, client, tracked, reported>>
  BY DEF bridgeVars
<1>2. CASE active = None
  <2>1. Reply(Msg("failed", None)) /\ UNCHANGED cancel
    BY <1>2 DEF StartCancel, Refuse
  <2>2. WireInv' /\ wire' \in Seq(WireMessages)
    BY <1>1, <2>1, ReplyWireInv
  <2>3. handler' = Idle
    BY <2>1 DEF Reply
  <2>4. TypeOK'
    BY <1>1, <2>1, <2>2, <2>3 DEF TypeOK, Idle, Steps
  <2>5. GoalInv' /\ HandleIsPending'
    BY <1>1, <2>3 DEF GoalInv, HandleIsPending, Idle
  <2> QED
    BY <2>2, <2>4, <2>5
<1>3. CASE active # None
  <2>1. /\ cancel' = [cancel EXCEPT ![active] = "asked"]
        /\ handler' = At("cancelling", active, preempt) /\ UNCHANGED wire
    BY <1>3 DEF StartCancel
  <2>2. WireInv'
    BY <1>1, <2>1, QuietWireInv
  <2>3. TypeOK'
    BY <1>1, <1>3, <2>1 DEF TypeOK, At, Steps
  <2>4. GoalInv' /\ HandleIsPending'
    BY <1>1, <2>1 DEF GoalInv, HandleIsPending, At
  <2> QED
    BY <2>2, <2>3, <2>4
<1> QED
  BY <1>2, <1>3

\* Giving up, whatever for, only answers the viewer.
LEMMA RefuseInv ==
  ASSUME IInv, Refuse, handler.step # "replying", commands' \in 0 .. MaxCommands,
         UNCHANGED <<bridgeVars, sent, serverVars, queue>>
  PROVE  IInv'
<1> USE DEF IInv
<1>1. UNCHANGED <<active, client, tracked, reported, server, cancel>>
  BY DEF bridgeVars, serverVars
<1>2. WireInv' /\ wire' \in Seq(WireMessages)
  BY <1>1, ReplyWireInv DEF Refuse
<1>3. handler' = Idle
  BY DEF Refuse, Reply
<1>4. TypeOK'
  BY <1>1, <1>2, <1>3 DEF TypeOK, Idle, Steps
<1>5. GoalInv' /\ HandleIsPending'
  BY <1>1, <1>3 DEF GoalInv, HandleIsPending, Idle
<1> QED
  BY <1>2, <1>4, <1>5

\* Taking a command starts from an idle handler.
LEMMA TakeFacts ==
  ASSUME TypeOK, Take
  PROVE  /\ handler.step = "idle" /\ commands' \in 0 .. MaxCommands
         /\ UNCHANGED <<active, client, tracked, reported, sent, server, queue>>
<1>1. handler.step = "idle"
  BY DEF Take, Idle
<1>2. commands' \in 0 .. MaxCommands
  BY GoalsAssumption DEF Take, TypeOK
<1> QED
  BY <1>1, <1>2 DEF Take, bridgeVars

\* Every step preserves the invariant.
LEMMA NextInv == IInv /\ [Next]_vars => IInv'
<1> SUFFICES ASSUME IInv, [Next]_vars PROVE IInv'
  OBVIOUS
<1> USE DEF IInv
<1>1. ASSUME NEW preempt \in BOOLEAN, HandleSend(preempt) PROVE IInv'
  <2>1. /\ handler.step = "idle" /\ commands' \in 0 .. MaxCommands /\ sent < MaxGoals
        /\ UNCHANGED <<active, client, tracked, reported, sent, server, queue, cancel>>
    BY <1>1, TakeFacts DEF HandleSend
  <2>2. CASE active = None \/ preempt
    <3>1. /\ UNCHANGED wire
          /\ handler' \in {At("opening", None, FALSE), At("preempting", None, TRUE)}
          /\ handler'.step = "opening" => active = None
          /\ handler' \in [step : Steps, goal : {None} \cup Goals, preempt : BOOLEAN]
          /\ handler'.step \in {"opening", "preempting"}
      <4>1. /\ UNCHANGED wire
            /\ \/ handler' = At("opening", None, FALSE) /\ active = None
               \/ handler' = At("preempting", None, TRUE)
        BY <1>1, <2>2 DEF HandleSend
      <4>2. \A step \in Steps, b \in BOOLEAN :
              /\ At(step, None, b) \in [step : Steps, goal : {None} \cup Goals, preempt : BOOLEAN]
              /\ At(step, None, b).step = step
        BY DEF At
      <4>3. "opening" \in Steps /\ "preempting" \in Steps /\ "opening" # "preempting"
        BY DEF Steps
      <4> QED
        BY <4>1, <4>2, <4>3
    <3>2. WireInv'
      <4>1. UNCHANGED <<wire, queue, tracked>> /\ handler.step # "replying"
        BY <2>1, <3>1
      <4> QED
        BY <4>1, QuietWireInv
    <3>3. TypeOK'
      BY <2>1, <3>1 DEF TypeOK
    <3>4. GoalInv' /\ HandleIsPending'
      BY <2>1, <3>1 DEF GoalInv, HandleIsPending
    <3> QED
      BY <3>2, <3>3, <3>4
  <2>3. CASE active # None /\ ~preempt
    BY <1>1, <2>1, <2>3, RefuseInv DEF HandleSend, bridgeVars, serverVars
  <2> QED
    BY <2>2, <2>3
<1>2. CASE HandleCancel
  <2>1. /\ handler.step = "idle" /\ commands' \in 0 .. MaxCommands
        /\ FALSE \in BOOLEAN /\ StartCancel(FALSE) /\ UNCHANGED <<bridgeVars, sent, server, queue>>
    BY <1>2, TakeFacts DEF HandleCancel, bridgeVars
  <2> QED
    BY <2>1, StartCancelInv
<1>3. CASE Preempt
  BY <1>3, StartCancelInv DEF Preempt, TypeOK
<1>4. CASE CancelReplied
  <2>1. /\ handler.step = "cancelling" /\ handler.goal \in Goals
        /\ UNCHANGED <<client, tracked, reported, sent, commands, server, cancel, queue>>
    BY <1>4 DEF CancelReplied, TypeOK, serverVars
  <2>2. CASE handler.preempt
    <3>1. active' = None /\ handler' = At("opening", None, FALSE) /\ UNCHANGED wire
      BY <1>4, <2>2 DEF CancelReplied, ClearHandle
    <3>2. WireInv'
      BY <2>1, <3>1, QuietWireInv
    <3>3. TypeOK'
      BY <2>1, <3>1 DEF TypeOK, At, Steps
    <3>4. sent < MaxGoals
      BY <2>1, <2>2 DEF GoalInv
    <3>5. GoalInv' /\ HandleIsPending'
      BY <2>1, <3>1, <3>4 DEF GoalInv, HandleIsPending, At
    <3> QED
      BY <3>2, <3>3, <3>5
  <2>3. CASE ~handler.preempt
    <3>1. Reply(Msg("cancelRequested", handler.goal)) /\ UNCHANGED active
      BY <1>4, <2>3 DEF CancelReplied
    <3>2. WireInv' /\ wire' \in Seq(WireMessages)
      BY <2>1, <3>1, ReplyWireInv
    <3>3. handler' = Idle
      BY <3>1 DEF Reply
    <3>4. TypeOK'
      BY <2>1, <3>1, <3>2, <3>3 DEF TypeOK, Idle, Steps
    <3>5. GoalInv' /\ HandleIsPending'
      BY <2>1, <3>1, <3>3 DEF GoalInv, HandleIsPending, Idle
    <3> QED
      BY <3>2, <3>4, <3>5
  <2> QED
    BY <2>2, <2>3
<1>5. CASE CancelTimeout \/ ServerMissing \/ GoalRejected \/ SendTimeout
  <2>1. /\ Refuse /\ handler.step # "replying"
        /\ UNCHANGED <<bridgeVars, sent, commands, serverVars, queue>>
    BY <1>5 DEF CancelTimeout, ServerMissing, GoalRejected, SendTimeout
  <2> QED
    BY <2>1, RefuseInv DEF TypeOK
<1>6. CASE SendGoal
  <2> DEFINE g == sent + 1
  <2>1. /\ handler.step = "opening" /\ client' = TRUE /\ sent' = g
        /\ server' = [server EXCEPT ![g] = "offered"]
        /\ handler' = At("sending", g, FALSE)
        /\ UNCHANGED <<active, tracked, reported, commands, cancel, queue, wire>>
    BY <1>6 DEF SendGoal
  <2>2. sent \in Nat /\ g \in Nat
    BY GoalsAssumption DEF TypeOK
  <2>3. g \in Goals
    BY <2>1, <2>2, GoalsAssumption DEF GoalInv, Goals
  <2>4. g \notin tracked
    BY <2>2, <2>3 DEF GoalInv
  <2>5. WireInv'
    BY <2>1, QuietWireInv
  <2>6. TypeOK'
    BY <2>1, <2>2, <2>3, GoalsAssumption DEF TypeOK, At, Steps, Goals, None
  <2>7. GoalInv'
    BY <2>1, <2>2, <2>3, <2>4 DEF GoalInv, At, TypeOK, Goals
  <2> QED
    BY <2>1, <2>5, <2>6, <2>7 DEF HandleIsPending
<1>7. CASE GoalAccepted
  <2> DEFINE g == handler.goal
  <2>1. /\ handler.step = "sending" /\ g \in Goals /\ g \notin tracked /\ g \notin reported
        /\ server[g] \in {"executing", "ended"}
        /\ active' = g /\ tracked' = tracked \cup {g}
        /\ handler' = At("replying", g, FALSE)
        /\ UNCHANGED <<client, reported, sent, commands, server, cancel, queue, wire>>
    BY <1>7 DEF GoalAccepted, TypeOK, GoalInv, serverVars
  <2>2. TypeOK'
    BY <2>1, GoalsAssumption DEF TypeOK, At, Steps, Goals, None
  <2>3. GoalInv' /\ HandleIsPending'
    <3>1. handler'.step = "replying"
      BY <2>1 DEF At
    <3>2. GoalInv'
      BY <2>1, <3>1 DEF GoalInv
    <3>3. HandleIsPending'
      BY <2>1 DEF HandleIsPending
    <3> QED
      BY <3>2, <3>3
  <2>4. WireInv'
    <3>1. \A h \in tracked : Written(h)'
      BY <2>1 DEF WireInv, Written, At
    <3>2. AcceptedBeforeOutcome'
      BY <2>1 DEF WireInv, AcceptedBeforeOutcome, Msg
    <3> QED
      BY <2>1, <3>1, <3>2 DEF WireInv
  <2> QED
    BY <2>2, <2>3, <2>4
<1>8. CASE ReplyAccepted
  <2>1. /\ handler.step = "replying" /\ handler.goal \in Goals
        /\ Reply(Msg("accepted", handler.goal))
        /\ UNCHANGED <<active, client, tracked, reported, sent, commands,
                       server, cancel, queue>>
    BY <1>8 DEF ReplyAccepted, TypeOK, bridgeVars, serverVars
  <2>2. WireInv' /\ wire' \in Seq(WireMessages)
    BY <2>1, ReplyWireInv
  <2>3. handler' = Idle
    BY <2>1 DEF Reply
  <2>4. TypeOK'
    BY <2>1, <2>2, <2>3 DEF TypeOK, Idle, Steps
  <2>5. GoalInv' /\ HandleIsPending'
    BY <2>1, <2>3 DEF GoalInv, HandleIsPending, Idle
  <2> QED
    BY <2>2, <2>4, <2>5
<1>9. ASSUME NEW g \in Goals, Outcome(g) PROVE IInv'
  <2>1. /\ g \in tracked /\ active' = None /\ reported' = reported \cup {g}
        /\ queue' = Append(queue, Msg("outcome", g))
        /\ UNCHANGED <<client, tracked, handler, sent, commands, server, cancel, wire>>
    BY <1>9 DEF Outcome, OutcomeDue, PopHandle, serverVars
  <2>2. /\ queue' \in Seq(WireMessages) /\ Len(queue) \in Nat
        /\ Len(queue') = Len(queue) + 1
        /\ \A i \in 1 .. Len(queue) : queue'[i] = queue[i]
        /\ queue'[Len(queue) + 1] = Msg("outcome", g)
    BY <2>1, AppendElements, MsgTypes DEF TypeOK
  <2>3. TypeOK'
    BY <2>1, <2>2 DEF TypeOK
  <2>4. GoalInv' /\ HandleIsPending'
    BY <2>1 DEF GoalInv, HandleIsPending
  <2>5. \A i \in 1 .. Len(queue') : queue'[i].type = "outcome" /\ queue'[i].goal \in tracked
    BY <2>1, <2>2 DEF WireInv, Msg
  <2>6. WireInv'
    BY <2>1, <2>5 DEF WireInv, Written, AcceptedBeforeOutcome, Msg
  <2> QED
    BY <2>3, <2>4, <2>6
<1>10. CASE Broadcast
  <2> DEFINE m == Head(queue)
  <2>1. /\ handler = Idle /\ queue # <<>> /\ wire' = Append(wire, m)
        /\ queue' = Tail(queue)
        /\ UNCHANGED <<active, client, tracked, reported, handler, sent, commands,
                       server, cancel>>
    BY <1>10 DEF Broadcast, LoopRuns, bridgeVars, serverVars
  <2>2. /\ queue' \in Seq(WireMessages) /\ m \in WireMessages /\ m = queue[1]
        /\ Len(queue) \in Nat /\ Len(queue) > 0
        /\ \A i \in 1 .. Len(queue') : i + 1 \in 1 .. Len(queue) /\ queue'[i] = queue[i + 1]
    BY <2>1, TailElements DEF TypeOK
  <2>3. m.goal \in tracked /\ handler.step # "replying"
    BY <2>1, <2>2 DEF WireInv, Idle
  <2>4. Written(m.goal)
    BY <2>3 DEF WireInv, At
  <2>5. /\ AcceptedBeforeOutcome' /\ wire' \in Seq(WireMessages)
        /\ \A g \in Goals : Written(g) => Written(g)'
    BY <2>1, <2>2, <2>4, WriteKeepsOrder DEF WireInv, TypeOK
  <2>6. TypeOK'
    BY <2>1, <2>2, <2>5 DEF TypeOK
  <2>7. \A i \in 1 .. Len(queue') : queue'[i].type = "outcome" /\ queue'[i].goal \in tracked
    BY <2>2 DEF WireInv
  <2>8. \A g \in tracked : Written(g)'
    BY <2>3, <2>5 DEF WireInv, At, TypeOK
  <2>9. WireInv'
    BY <2>1, <2>5, <2>7, <2>8 DEF WireInv
  <2>10. GoalInv' /\ HandleIsPending'
    BY <2>1 DEF GoalInv, HandleIsPending
  <2> QED
    BY <2>6, <2>9, <2>10
<1>11. ASSUME NEW g \in Goals, Decide(g) \/ AnswerCancel(g) \/ Finish(g) PROVE IInv'
  <2>1. /\ UNCHANGED <<active, client, tracked, reported, handler, sent, commands, queue, wire>>
        /\ server' \in [Goals -> {"none", "offered", "rejected", "executing", "ended"}]
        /\ cancel' \in [Goals -> {"none", "asked", "accepted", "refused"}]
        /\ server[g] # "none" \/ UNCHANGED server
        /\ \A h \in Goals : h # g => server'[h] = server[h]
        /\ server[g] \in {"executing", "ended"} => server'[g] \in {"executing", "ended"}
    BY <1>11 DEF Decide, AnswerCancel, Finish, TypeOK, bridgeVars
  <2>2. WireInv'
    BY <2>1, QuietWireInv
  <2>3. TypeOK'
    BY <2>1 DEF TypeOK
  <2>4. GoalInv' /\ HandleIsPending'
    BY <2>1 DEF GoalInv, HandleIsPending, TypeOK
  <2> QED
    BY <2>2, <2>3, <2>4
<1>12. CASE UNCHANGED vars
  <2>1. WireInv'
    BY <1>12, QuietWireInv DEF vars
  <2>2. TypeOK' /\ GoalInv' /\ HandleIsPending'
    BY <1>12 DEF vars, TypeOK, GoalInv, HandleIsPending
  <2> QED
    BY <2>1, <2>2
<1> QED
  BY <1>1, <1>2, <1>3, <1>4, <1>5, <1>6, <1>7, <1>8, <1>9, <1>10, <1>11, <1>12 DEF Next

-----------------------------------------------------------------------------
\* Every reachable state satisfies the invariant.
THEOREM Invariance == Spec => []IInv
<1>1. Init => IInv
  BY InitInv
<1>2. IInv /\ [Next]_vars => IInv'
  BY NextInv
<1> QED
  BY <1>1, <1>2, PTL DEF Spec

\* The bridge's variables keep their types.
THEOREM TypeCorrect == Spec => []TypeOK
BY Invariance, PTL DEF IInv

\* The agent never acts on the handle of a goal that is over.
THEOREM HandlesArePending == Spec => []HandleIsPending
BY Invariance, PTL DEF IInv

\* A viewer learns that a goal was accepted before it learns how it ended.
THEOREM AcceptancesComeFirst == Spec => []AcceptedBeforeOutcome
<1>1. IInv => AcceptedBeforeOutcome
  BY DEF IInv, WireInv
<1> QED
  BY <1>1, Invariance, PTL

\* A goal is sent only while no handle is stored.
THEOREM GoalsAreSentWhileFree == Spec => []SentWhileFree
<1>1. IInv => SentWhileFree
  BY DEF IInv, GoalInv, SentWhileFree
<1> QED
  BY <1>1, Invariance, PTL

\* A stored handle leaves only with an outcome or after a cancel was answered.
THEOREM HandlesLeaveForAReason == Spec => HandleLeavesForAReason
<1> DEFINE Leaves == active # None /\ active' # active =>
                       \/ reported' # reported
                       \/ cancel[active] \in {"accepted", "refused"}
<1>1. IInv /\ [Next]_vars => [Leaves]_vars
  <2> SUFFICES ASSUME IInv, [Next]_vars, active # None, active' # active
               PROVE  \/ reported' # reported
                      \/ cancel[active] \in {"accepted", "refused"}
    OBVIOUS
  <2> USE DEF IInv
  <2>1. CASE CancelReplied
    <3>1. handler.goal = active
      BY <2>1 DEF CancelReplied, GoalInv
    <3> QED
      BY <2>1, <3>1 DEF CancelReplied, ReplyArrived
  <2>2. ASSUME NEW g \in Goals, Outcome(g) PROVE reported' # reported
    BY <2>2 DEF Outcome, OutcomeDue
  <2>3. CASE GoalAccepted
    BY <2>3 DEF GoalAccepted, GoalInv
  <2>4. CASE UNCHANGED active
    BY <2>4
  <2>5. \/ CancelReplied \/ GoalAccepted \/ UNCHANGED active
        \/ \E g \in Goals : Outcome(g)
    BY DEF Next, vars, bridgeVars, HandleSend, HandleCancel, Take, Preempt, CancelTimeout,
           ServerMissing, SendGoal, ReplyAccepted, GoalRejected, SendTimeout,
           Decide, AnswerCancel, Finish, Broadcast
  <2> QED
    BY <2>1, <2>2, <2>3, <2>4, <2>5
<1> QED
  BY <1>1, Invariance, PTL DEF Spec, HandleLeavesForAReason
=============================================================================
