-------------------------- MODULE AgentStreamProofs --------------------------
(***************************************************************************)
(* Proofs of what AgentStream says of the order on the wire and of the     *)
(* last status, for any topics, viewers and bounds.                        *)
(*                                                                         *)
(* A data message is sent to the clients only, and a client's handshake is *)
(* over; so the session comes first because of where a viewer is in its    *)
(* handshake, and a channel comes before its data because of the order in  *)
(* which the loop was handed both: JobsInv describes the loop's queue, and *)
(* ViewerInv what a viewer has been sent at each step.                     *)
(***************************************************************************)
EXTENDS AgentStream, TLAPS

Messages == [type : {"session", "channel", "data", "status"}, n : Nat]
ShakeSteps == {"none", "session", "listing", "channels", "status", "streaming", "joined", "left"}

\* TypeOK, and the types of what the broadcasts and the handshakes work on.
StreamType ==
  /\ TypeOK
  /\ scan \in [step : {"idle", "scanning", "announcing", "dead"}, before : Nat]
  /\ jobs \in Seq(Messages)
  /\ wire \in [Viewers -> Seq(Messages)]
  /\ shake \in [Viewers -> [step : ShakeSteps, todo : Seq(Nat)]]
  /\ missed \in [Viewers -> SUBSET Nat]

\* The channels that were announced and not broadcast wait in the queue, in their
\* order; data waits behind its channel.
QueueInv ==
  /\ \A i \in 1 .. Len(jobs) : jobs[i].type = "channel" =>
       emitted < jobs[i].n /\ jobs[i].n <= announced
  /\ \A i, j \in 1 .. Len(jobs) :
       i < j /\ jobs[i].type = "channel" /\ jobs[j].type = "channel" => jobs[i].n < jobs[j].n
  /\ \A c \in emitted + 1 .. announced : \E i \in 1 .. Len(jobs) : jobs[i] = Channel(c)
  /\ \A k \in 1 .. Len(jobs) : jobs[k].type = "data" =>
       \/ jobs[k].n <= emitted
       \/ \E i \in 1 .. k - 1 : jobs[i] = Channel(jobs[k].n)
  /\ \A k \in 1 .. Len(jobs) :
       jobs[k].type # "session" /\ (jobs[k].type = "data" => 0 < jobs[k].n)

JobsInv ==
  /\ scan.step \in {"idle", "scanning"} => Len(channels) = announced
  /\ scan.step = "announcing" => Len(channels) = announced + 1
  /\ QueueInv

Sent(v, m) == \E i \in 1 .. Len(wire[v]) : wire[v][i] = m

\* Before the session a viewer is sent statuses alone, and before it joins no
\* data; a client knows what was broadcast, but for what it missed.
ViewerInv ==
  \A v \in Viewers :
    /\ v \in clients => shake[v].step = "joined"
    /\ shake[v].step \in {"none", "session"} =>
         \A i \in 1 .. Len(wire[v]) : wire[v][i].type = "status"
    /\ shake[v].step \in {"listing", "channels", "status", "streaming", "joined"} =>
         Sent(v, Session)
    /\ shake[v].step \notin {"joined", "left"} =>
         \A i \in 1 .. Len(wire[v]) : wire[v][i].type # "data"
    /\ v \in clients =>
         \A c \in 1 .. emitted : c \in missed[v] \/ Sent(v, Channel(c))

Order == SessionComesFirst /\ DataFollowsChannel

IInv == StreamType /\ JobsInv /\ ViewerInv /\ Order

-----------------------------------------------------------------------------
\* Tail shifts a sequence by one place.
LEMMA TailElements ==
  ASSUME NEW S, NEW s \in Seq(S), s # <<>>
  PROVE  /\ Tail(s) \in Seq(S) /\ Head(s) \in S /\ Head(s) = s[1]
         /\ Len(s) \in Nat /\ Len(s) > 0
         /\ Len(Tail(s)) = Len(s) - 1
         /\ \A i \in 1 .. Len(Tail(s)) : i + 1 \in 1 .. Len(s) /\ Tail(s)[i] = s[i + 1]
  OBVIOUS

\* Append adds one place at the end.
LEMMA AppendElements ==
  ASSUME NEW S, NEW s \in Seq(S), NEW e \in S
  PROVE  /\ Append(s, e) \in Seq(S)
         /\ Len(s) \in Nat /\ Len(Append(s, e)) = Len(s) + 1
         /\ \A i \in 1 .. Len(s) : Append(s, e)[i] = s[i]
         /\ Append(s, e)[Len(s) + 1] = e
  OBVIOUS

\* What is handed over and sent are messages.
LEMMA MessageTypes ==
  /\ Session \in Messages
  /\ \A n \in Nat : Channel(n) \in Messages /\ Data(n) \in Messages /\ Status(n) \in Messages
  /\ \A n : /\ Channel(n).type = "channel" /\ Channel(n).n = n
            /\ Data(n).type = "data" /\ Data(n).n = n
            /\ Status(n).type = "status" /\ Status(n).n = n
  /\ Session.type = "session"
  /\ \A m \in Messages : m.type = "channel" => m = Channel(m.n)
  BY DEF Messages, Session, Channel, Data, Status

\* A send adds the message to what each of the viewers was sent, and nothing to
\* what the others were.
LEMMA SendElements ==
  ASSUME NEW vs, NEW m \in Messages, SentTo(vs, m), wire \in [Viewers -> Seq(Messages)]
  PROVE  /\ wire' \in [Viewers -> Seq(Messages)]
         /\ \A v \in Viewers :
              /\ Len(wire[v]) \in Nat
              /\ \A i \in 1 .. Len(wire[v]) : wire'[v][i] = wire[v][i]
              /\ v \in vs => /\ Len(wire'[v]) = Len(wire[v]) + 1
                             /\ wire'[v][Len(wire[v]) + 1] = m
              /\ v \notin vs => wire'[v] = wire[v]
<1>1. \A v \in Viewers : /\ Append(wire[v], m) \in Seq(Messages)
                         /\ Len(wire[v]) \in Nat
                         /\ Len(Append(wire[v], m)) = Len(wire[v]) + 1
                         /\ \A i \in 1 .. Len(wire[v]) : Append(wire[v], m)[i] = wire[v][i]
                         /\ Append(wire[v], m)[Len(wire[v]) + 1] = m
  BY AppendElements
<1>2. \A v \in Viewers : wire'[v] = IF v \in vs THEN Append(wire[v], m) ELSE wire[v]
  BY DEF SentTo
<1>3. wire' \in [Viewers -> Seq(Messages)]
  BY <1>1 DEF SentTo
<1> QED
  BY <1>1, <1>2, <1>3

\* What a viewer was sent it stays sent.
LEMMA SentForGood ==
  ASSUME NEW vs, NEW m \in Messages, SentTo(vs, m), wire \in [Viewers -> Seq(Messages)],
         NEW v \in Viewers
  PROVE  /\ \A x : Sent(v, x) => Sent(v, x)'
         /\ v \in vs => Sent(v, m)'
<1> USE SendElements
<1>1. ASSUME NEW x, Sent(v, x) PROVE Sent(v, x)'
  <2>1. PICK i \in 1 .. Len(wire[v]) : wire[v][i] = x
    BY <1>1 DEF Sent
  <2>2. Len(wire[v]) \in Nat /\ Len(wire'[v]) >= Len(wire[v])
    OBVIOUS
  <2>3. i \in 1 .. Len(wire'[v]) /\ wire'[v][i] = x
    BY <2>1, <2>2
  <2> QED
    BY <2>3 DEF Sent
<1>2. ASSUME v \in vs PROVE Sent(v, m)'
  <2>1. Len(wire[v]) + 1 \in 1 .. Len(wire'[v]) /\ wire'[v][Len(wire[v]) + 1] = m
    BY <1>2
  <2> QED
    BY <2>1 DEF Sent
<1> QED
  BY <1>1, <1>2

\* A send keeps the order if those it goes to have had the session, when it is a
\* channel or data, and the channel, when it is data of a channel they did not miss.
LEMMA SendKeepsOrder ==
  ASSUME NEW vs, NEW m \in Messages, SentTo(vs, m), wire \in [Viewers -> Seq(Messages)],
         Order, UNCHANGED missed,
         m.type \in {"channel", "data"} => \A v \in Viewers \cap vs : Sent(v, Session),
         m.type = "data" =>
           \A v \in Viewers \cap vs : m.n \in missed[v] \/ Sent(v, Channel(m.n))
  PROVE  Order'
<1>a. /\ wire' \in [Viewers -> Seq(Messages)]
      /\ \A v \in Viewers :
           /\ Len(wire[v]) \in Nat
           /\ \A i \in 1 .. Len(wire[v]) : wire'[v][i] = wire[v][i]
           /\ v \in vs => /\ Len(wire'[v]) = Len(wire[v]) + 1
                          /\ wire'[v][Len(wire[v]) + 1] = m
           /\ v \notin vs => wire'[v] = wire[v]
  BY SendElements
<1>1. \A v \in Viewers : DOMAIN wire[v] = 1 .. Len(wire[v]) /\ DOMAIN wire'[v] = 1 .. Len(wire'[v])
  BY <1>a
<1>2. ASSUME NEW v \in Viewers, NEW i \in 1 .. Len(wire'[v]), i \notin 1 .. Len(wire[v])
      PROVE  v \in vs /\ i = Len(wire[v]) + 1 /\ wire'[v][i] = m
  BY <1>a, <1>2
<1>3. SessionComesFirst'
  <2> SUFFICES ASSUME NEW v \in Viewers, NEW i \in 1 .. Len(wire'[v]),
                      wire'[v][i].type \in {"channel", "data"}
               PROVE  \E j \in 1 .. i - 1 : wire'[v][j] = Session
    <3>1. \A v \in Viewers : \A i \in 1 .. Len(wire'[v]) :
            wire'[v][i].type \in {"channel", "data"} =>
              \E j \in 1 .. i - 1 : wire'[v][j] = Session
      OBVIOUS
    <3> QED
      BY <3>1, <1>1 DEF SessionComesFirst, Session
  <2>1. CASE i \in 1 .. Len(wire[v])
    <3>0. wire[v][i].type \in {"channel", "data"}
      BY <2>1, <1>a
    <3>1. PICK j \in 1 .. i - 1 : wire[v][j] = Session
      BY <2>1, <3>0, <1>1 DEF Order, SessionComesFirst
    <3>2. j \in 1 .. Len(wire[v])
      BY <2>1, <1>a
    <3> QED
      BY <3>1, <3>2, <1>a
  <2>2. CASE i \notin 1 .. Len(wire[v])
    <3>1. Sent(v, Session) /\ i = Len(wire[v]) + 1
      BY <1>2, <2>2
    <3>2. PICK j \in 1 .. Len(wire[v]) : wire[v][j] = Session
      BY <3>1 DEF Sent
    <3> QED
      BY <3>1, <3>2, <1>a
  <2> QED
    BY <2>1, <2>2
<1>4. DataFollowsChannel'
  <2> SUFFICES ASSUME NEW v \in Viewers, NEW i \in 1 .. Len(wire'[v]),
                      wire'[v][i].type = "data", wire'[v][i].n \notin missed[v]
               PROVE  \E j \in 1 .. i - 1 : wire'[v][j] = Channel(wire'[v][i].n)
    <3>1. \A v \in Viewers : \A i \in 1 .. Len(wire'[v]) :
            wire'[v][i].type = "data" /\ wire'[v][i].n \notin missed[v] =>
              \E j \in 1 .. i - 1 : wire'[v][j] = Channel(wire'[v][i].n)
      OBVIOUS
    <3> QED
      BY <3>1, <1>1 DEF DataFollowsChannel, Channel
  <2>1. CASE i \in 1 .. Len(wire[v])
    <3>0. wire[v][i].type = "data" /\ wire[v][i].n \notin missed[v]
      BY <2>1, <1>a
    <3>1. PICK j \in 1 .. i - 1 : wire[v][j] = Channel(wire[v][i].n)
      BY <2>1, <3>0, <1>1 DEF Order, DataFollowsChannel
    <3>2. j \in 1 .. Len(wire[v])
      BY <2>1, <1>a
    <3> QED
      BY <2>1, <3>1, <3>2, <1>a
  <2>2. CASE i \notin 1 .. Len(wire[v])
    <3>1. i = Len(wire[v]) + 1 /\ wire'[v][i] = m /\ Sent(v, Channel(m.n))
      BY <1>2, <2>2
    <3>2. PICK j \in 1 .. Len(wire[v]) : wire[v][j] = Channel(m.n)
      BY <3>1 DEF Sent
    <3> QED
      BY <3>1, <3>2, <1>a
  <2> QED
    BY <2>1, <2>2
<1> QED
  BY <1>3, <1>4 DEF Order

-----------------------------------------------------------------------------
(* The initial states, and the steps of the executor's thread.             *)

LEMMA InitInvariance == Init => IInv
<1> SUFFICES ASSUME Init PROVE IInv
  OBVIOUS
<1>1. /\ channels = <<>> /\ jobs = <<>> /\ Len(channels) = 0 /\ Len(jobs) = 0
      /\ <<>> \in Seq(Topics) /\ <<>> \in Seq(Messages) /\ <<>> \in Seq(Nat)
      /\ \A v \in Viewers : wire[v] = <<>> /\ Len(wire[v]) = 0 /\ missed[v] = {}
      /\ \A v \in Viewers : shake[v].step = "none"
  BY DEF Init, At
<1>2. TypeOK
  BY <1>1, StreamAssumption DEF Init, TypeOK, Idle, IsInjective
<1>3. StreamType
  BY <1>1, <1>2 DEF Init, StreamType, Idle, At, ShakeSteps
<1>4. JobsInv
  BY <1>1 DEF Init, JobsInv, QueueInv, Idle
<1>5. ViewerInv
  BY <1>1 DEF Init, ViewerInv
<1>6. Order
  BY <1>1 DEF Order, SessionComesFirst, DataFollowsChannel
<1> QED
  BY <1>3, <1>4, <1>5, <1>6 DEF IInv

\* What viewers are sent is none of the thread's business.
LEMMA ElsewhereKept ==
  ASSUME ViewerInv, Order, UNCHANGED <<emitted, clients, shake, wire, missed>>
  PROVE  ViewerInv' /\ Order'
<1>1. ViewerInv'
  BY DEF ViewerInv, Sent, Channel, Session
<1>2. Order'
  BY DEF Order, SessionComesFirst, DataFollowsChannel, Channel, Session
<1> QED
  BY <1>1, <1>2

\* A message handed over goes to the end of the queue.
LEMMA HandElements ==
  ASSUME NEW m \in Messages, Hand(m), jobs \in Seq(Messages)
  PROVE  /\ jobs' \in Seq(Messages)
         /\ Len(jobs) \in Nat /\ Len(jobs') = Len(jobs) + 1
         /\ \A i \in 1 .. Len(jobs) : jobs'[i] = jobs[i]
         /\ jobs'[Len(jobs) + 1] = m
  BY AppendElements DEF Hand

LEMMA HandKeepsQueue ==
  ASSUME StreamType, QueueInv, NEW m \in Messages, Hand(m), emitted' = emitted,
         m.type # "session",
         m.type = "channel" => m.n = announced + 1 /\ announced' = announced + 1,
         m.type # "channel" => announced' = announced,
         m.type = "data" => m.n \in 1 .. announced
  PROVE  QueueInv' /\ jobs' \in Seq(Messages)
<1> DEFINE l == Len(jobs)
<1>1. /\ jobs' \in Seq(Messages)
      /\ l \in Nat /\ Len(jobs') = l + 1
      /\ \A i \in 1 .. l : jobs'[i] = jobs[i]
      /\ jobs'[l + 1] = m
  BY HandElements DEF StreamType
<1>2. /\ announced \in Nat /\ emitted \in 0 .. announced
      /\ \A i \in 1 .. l : jobs[i] \in Messages /\ jobs[i].n \in Nat
      /\ m.n \in Nat /\ (m.type = "channel" => m = Channel(m.n))
      /\ Channel(announced + 1).type = "channel" /\ Channel(announced + 1).n = announced + 1
  <2>1. \A i \in 1 .. l : jobs[i] \in Messages
    BY DEF StreamType
  <2>2. announced \in Nat /\ emitted \in 0 .. announced
    <3>1. Len(channels) \in Nat /\ announced \in 0 .. Len(channels) /\ emitted \in 0 .. announced
      BY DEF StreamType, TypeOK
    <3> QED
      BY <3>1
  <2> QED
    BY <2>1, <2>2, MessageTypes DEF Messages
<1> HIDE DEF l
<1>3. ASSUME NEW i \in 1 .. Len(jobs') PROVE i \in 1 .. l \/ i = l + 1
  BY <1>1, <1>3
<1>4. ASSUME NEW i \in 1 .. Len(jobs'), jobs'[i].type = "channel"
      PROVE  emitted' < jobs'[i].n /\ jobs'[i].n <= announced'
  BY <1>1, <1>2, <1>3, <1>4 DEF QueueInv, l
<1>5. ASSUME NEW i \in 1 .. Len(jobs'), NEW j \in 1 .. Len(jobs'),
             i < j, jobs'[i].type = "channel", jobs'[j].type = "channel"
      PROVE  jobs'[i].n < jobs'[j].n
  <2>1. i \in 1 .. l
    BY <1>1, <1>3, <1>5
  <2>2. jobs[i].type = "channel" /\ jobs'[i] = jobs[i]
    BY <2>1, <1>1, <1>5
  <2>3. CASE j \in 1 .. l
    <3>1. jobs[j].type = "channel" /\ jobs'[j] = jobs[j]
      BY <2>3, <1>1, <1>5
    <3> QED
      BY <2>1, <2>2, <2>3, <3>1, <1>5 DEF QueueInv, l
  <2>4. CASE j = l + 1
    <3>1. jobs'[j] = m /\ m.n = announced + 1
      BY <2>4, <1>1, <1>5
    <3>2. jobs[i].n <= announced
      BY <2>1, <2>2 DEF QueueInv, l
    <3> QED
      BY <2>1, <2>2, <3>1, <3>2, <1>2
  <2> QED
    BY <1>3, <2>3, <2>4
<1>6. ASSUME NEW c \in emitted' + 1 .. announced'
      PROVE  \E i \in 1 .. Len(jobs') : jobs'[i] = Channel(c)
  <2>1. CASE c \in emitted + 1 .. announced
    <3>1. PICK i \in 1 .. l : jobs[i] = Channel(c)
      BY <2>1 DEF QueueInv, l
    <3> QED
      BY <3>1, <1>1
  <2>2. CASE c \notin emitted + 1 .. announced
    <3>1. m.type = "channel" /\ c = announced + 1
      BY <2>2, <1>2, <1>6
    <3>2. jobs'[l + 1] = Channel(c) /\ l + 1 \in 1 .. Len(jobs')
      BY <3>1, <1>1, <1>2
    <3> QED
      BY <3>2
  <2> QED
    BY <2>1, <2>2
<1>7. ASSUME NEW k \in 1 .. Len(jobs'), jobs'[k].type = "data", ~ jobs'[k].n <= emitted'
      PROVE  \E i \in 1 .. k - 1 : jobs'[i] = Channel(jobs'[k].n)
  <2>1. CASE k \in 1 .. l
    <3>1. jobs'[k] = jobs[k]
      BY <2>1, <1>1
    <3>2. PICK i \in 1 .. k - 1 : jobs[i] = Channel(jobs[k].n)
      BY <2>1, <3>1, <1>7 DEF QueueInv, l
    <3>3. i \in 1 .. l
      BY <2>1, <3>2, <1>1
    <3> QED
      BY <3>1, <3>2, <3>3, <1>1
  <2>2. CASE k = l + 1
    <3>1. jobs'[k] = m /\ m.n \in emitted + 1 .. announced
      BY <2>2, <1>1, <1>2, <1>7
    <3>2. PICK i \in 1 .. l : jobs[i] = Channel(m.n)
      BY <3>1 DEF QueueInv, l
    <3>3. jobs'[i] = Channel(m.n) /\ i \in 1 .. k - 1
      BY <2>2, <3>2, <1>1
    <3> QED
      BY <3>1, <3>3
  <2> QED
    BY <1>3, <2>1, <2>2
<1>8. ASSUME NEW k \in 1 .. Len(jobs')
      PROVE  jobs'[k].type # "session" /\ (jobs'[k].type = "data" => 0 < jobs'[k].n)
  BY <1>1, <1>3, <1>8 DEF QueueInv, l
<1>9. QueueInv'
  <2>1. /\ \A i \in 1 .. Len(jobs') : jobs'[i].type = "channel" =>
             emitted' < jobs'[i].n /\ jobs'[i].n <= announced'
        /\ \A i, j \in 1 .. Len(jobs') :
             i < j /\ jobs'[i].type = "channel" /\ jobs'[j].type = "channel" =>
               jobs'[i].n < jobs'[j].n
        /\ \A c \in emitted' + 1 .. announced' : \E i \in 1 .. Len(jobs') : jobs'[i] = Channel(c)
        /\ \A k \in 1 .. Len(jobs') : jobs'[k].type = "data" =>
             \/ jobs'[k].n <= emitted'
             \/ \E i \in 1 .. k - 1 : jobs'[i] = Channel(jobs'[k].n)
        /\ \A k \in 1 .. Len(jobs') :
             jobs'[k].type # "session" /\ (jobs'[k].type = "data" => 0 < jobs'[k].n)
    BY <1>4, <1>5, <1>6, <1>7, <1>8
  <2> QED
    BY <2>1 DEF QueueInv, Channel
<1> QED
  BY <1>1, <1>9

LEMMA AppearInv == ASSUME IInv, NEW t \in Topics, Appear(t) PROVE IInv'
<1>1. StreamType'
  BY DEF IInv, StreamType, TypeOK, Appear, loopVars, viewerVars
<1>2. JobsInv'
  BY DEF IInv, JobsInv, QueueInv, Appear, loopVars, viewerVars, Channel
<1> QED
  BY <1>1, <1>2, ElsewhereKept DEF IInv, Appear, loopVars, viewerVars

LEMMA ScanStartsInv == ASSUME IInv, ScanStarts PROVE IInv'
<1>1. Len(channels) \in Nat
  BY DEF IInv, StreamType, TypeOK
<1>2. StreamType'
  BY <1>1 DEF IInv, StreamType, TypeOK, ScanStarts, loopVars, viewerVars
<1>3. JobsInv'
  BY DEF IInv, JobsInv, QueueInv, ScanStarts, loopVars, viewerVars, Channel, Idle
<1> QED
  BY <1>2, <1>3, ElsewhereKept DEF IInv, ScanStarts, loopVars, viewerVars

LEMMA SubscribeInv == ASSUME IInv, NEW t \in Topics, Subscribe(t) PROVE IInv'
<1>1. /\ channels' \in Seq(Topics) /\ Len(channels) \in Nat
      /\ Len(channels') = Len(channels) + 1
      /\ \A i \in 1 .. Len(channels) : channels'[i] = channels[i]
      /\ channels'[Len(channels) + 1] = t
  BY AppendElements DEF IInv, StreamType, TypeOK, Subscribe
<1>2. IsInjective(channels')
  <2>1. DOMAIN channels = 1 .. Len(channels) /\ DOMAIN channels' = 1 .. Len(channels')
    BY <1>1 DEF IInv, StreamType, TypeOK
  <2>2. \A i \in 1 .. Len(channels) : channels[i] # t
    BY <2>1 DEF Subscribe, Missing, ToSet
  <2>3. \A i, j \in 1 .. Len(channels) : channels[i] = channels[j] => i = j
    BY <2>1 DEF IInv, StreamType, TypeOK, IsInjective
  <2>4. ASSUME NEW i \in 1 .. Len(channels'), NEW j \in 1 .. Len(channels'),
               channels'[i] = channels'[j]
        PROVE  i = j
    <3>1. /\ i \in 1 .. Len(channels) \/ i = Len(channels) + 1
          /\ j \in 1 .. Len(channels) \/ j = Len(channels) + 1
      BY <1>1
    <3> QED
      BY <1>1, <2>2, <2>3, <2>4, <3>1
  <2> QED
    BY <2>1, <2>4 DEF IsInjective
<1>3. StreamType'
  <2>1. UNCHANGED <<graph, announced, data, jobs, emitting, emitted, clients, shake, wire, missed>>
    BY DEF Subscribe, loopVars, viewerVars
  <2>2. /\ scan' \in [step : {"idle", "scanning", "announcing", "dead"}, before : Nat]
        /\ scan'.before = scan.before
    BY DEF IInv, StreamType, Subscribe
  <2>3. /\ Len(channels') <= MaxTopics
        /\ scan'.before \in 0 .. Len(channels')
        /\ announced' \in 0 .. Len(channels')
    BY <1>1, <2>1, <2>2, StreamAssumption DEF IInv, StreamType, TypeOK, Subscribe
  <2>4. TypeOK'
    BY <1>1, <1>2, <2>1, <2>2, <2>3 DEF IInv, StreamType, TypeOK
  <2> QED
    BY <2>1, <2>2, <2>4 DEF IInv, StreamType
<1>4. JobsInv'
  BY <1>1 DEF IInv, JobsInv, QueueInv, StreamType, Subscribe, loopVars, viewerVars, Channel
<1> QED
  BY <1>3, <1>4, ElsewhereKept DEF IInv, Subscribe, loopVars, viewerVars

LEMMA AnnounceInv == ASSUME IInv, Announce PROVE IInv'
<1>1. /\ Len(channels) \in Nat /\ Len(channels) = announced + 1
      /\ announced \in Nat /\ emitted \in 0 .. announced
  BY DEF IInv, StreamType, TypeOK, JobsInv, Announce
<1>2. QueueInv' /\ jobs' \in Seq(Messages)
  BY <1>1, MessageTypes, HandKeepsQueue DEF IInv, JobsInv, Announce, loopVars
<1>3. StreamType'
  <2>1. UNCHANGED <<graph, channels, data, emitting, emitted, clients, shake, wire, missed>>
    BY DEF Announce, loopVars, viewerVars
  <2>2. /\ announced' = Len(channels)
        /\ scan' \in [step : {"idle", "scanning", "announcing", "dead"}, before : Nat]
        /\ scan'.before = scan.before
    BY DEF IInv, StreamType, Announce
  <2>3. announced' \in 0 .. Len(channels') /\ emitted' \in 0 .. announced'
    BY <1>1, <2>1, <2>2
  <2>4. TypeOK'
    BY <2>1, <2>2, <2>3 DEF IInv, StreamType, TypeOK
  <2> QED
    BY <1>2, <2>1, <2>2, <2>4 DEF IInv, StreamType
<1>4. JobsInv'
  BY <1>1, <1>2 DEF IInv, JobsInv, StreamType, Announce
<1> QED
  BY <1>3, <1>4, ElsewhereKept DEF IInv, Announce, loopVars, viewerVars

LEMMA ScanEndsInv == ASSUME IInv, ScanEnds PROVE IInv'
<1>1. Len(channels) \in Nat
  BY DEF IInv, StreamType, TypeOK
<1>2. QueueInv' /\ jobs' \in Seq(Messages)
  <2>1. CASE Hand(Status(Subscribed))
    BY <2>1, <1>1, MessageTypes, HandKeepsQueue
    DEF IInv, JobsInv, ScanEnds, loopVars, viewerVars, Subscribed
  <2>2. CASE UNCHANGED jobs
    BY <2>2 DEF IInv, JobsInv, QueueInv, StreamType, ScanEnds, loopVars, viewerVars, Channel
  <2> QED
    BY <2>1, <2>2 DEF ScanEnds
<1>3. StreamType'
  BY <1>1, <1>2 DEF IInv, StreamType, TypeOK, ScanEnds, loopVars, viewerVars, Idle
<1>4. JobsInv'
  BY <1>2 DEF IInv, JobsInv, ScanEnds, Idle
<1> QED
  BY <1>3, <1>4, ElsewhereKept DEF IInv, ScanEnds, loopVars, viewerVars

LEMMA MessageInv == ASSUME IInv, NEW c \in Channels, Message(c) PROVE IInv'
<1>1. /\ Len(channels) = announced /\ c \in 1 .. announced /\ announced \in Nat
  BY DEF IInv, StreamType, TypeOK, JobsInv, Message, TimerIdle, Idle
<1>2. QueueInv' /\ jobs' \in Seq(Messages)
  BY <1>1, MessageTypes, HandKeepsQueue DEF IInv, JobsInv, Message, loopVars, viewerVars
<1>3. StreamType'
  BY <1>2, StreamAssumption DEF IInv, StreamType, TypeOK, Message, loopVars, viewerVars
<1>4. JobsInv'
  BY <1>2 DEF IInv, JobsInv, Message
<1> QED
  BY <1>3, <1>4, ElsewhereKept DEF IInv, Message, loopVars, viewerVars

-----------------------------------------------------------------------------
(* The loop's broadcasts.                                                  *)

\* What QueueInv says of a queue is said of its tail once its head was broadcast.
LEMMA TailKeepsQueue ==
  ASSUME StreamType, QueueInv, jobs # <<>>, jobs' = Tail(jobs), announced' = announced,
         IF Head(jobs).type = "channel" THEN emitted' = Head(jobs).n ELSE emitted' = emitted
  PROVE  /\ QueueInv' /\ jobs' \in Seq(Messages)
         /\ emitted' \in 0 .. announced
         /\ Head(jobs).type = "channel" => emitted' = emitted + 1
<1> DEFINE m == Head(jobs)
           l == Len(jobs)
<1>1. /\ m \in Messages /\ m = jobs[1] /\ jobs' \in Seq(Messages)
      /\ l \in Nat /\ l > 0 /\ Len(jobs') = l - 1
      /\ \A i \in 1 .. Len(jobs') : i + 1 \in 1 .. l /\ jobs'[i] = jobs[i + 1]
      /\ \A i \in 1 .. l : jobs[i] \in Messages /\ jobs[i].n \in Nat
  <2>1. \A i \in 1 .. l : jobs[i] \in Messages
    BY DEF StreamType
  <2> QED
    BY <2>1, TailElements DEF StreamType, Messages
<1>2. announced \in Nat /\ emitted \in 0 .. announced
  <2>1. Len(channels) \in Nat /\ announced \in 0 .. Len(channels) /\ emitted \in 0 .. announced
    BY DEF StreamType, TypeOK
  <2> QED
    BY <2>1
<1>3. IF m.type = "channel" THEN emitted' = m.n ELSE emitted' = emitted
  OBVIOUS
<1> HIDE DEF m, l
<1>4. ASSUME m.type = "channel" PROVE m.n = emitted + 1
  <2>1. emitted < m.n /\ m.n <= announced /\ m.n \in Nat
    BY <1>1, <1>4 DEF QueueInv, l
  <2>2. PICK i \in 1 .. l : jobs[i] = Channel(emitted + 1)
    BY <1>1, <1>2, <2>1 DEF QueueInv, l
  <2>3. jobs[i].type = "channel" /\ jobs[i].n = emitted + 1
    BY <2>2, MessageTypes
  <2>4. CASE i = 1
    BY <2>3, <2>4, <1>1
  <2>5. CASE i # 1
    <3>1. m.n < emitted + 1
      BY <2>3, <2>5, <1>1, <1>4 DEF QueueInv, l
    <3> QED
      BY <2>1, <3>1, <1>2
  <2> QED
    BY <2>4, <2>5
<1>5. emitted' \in emitted .. announced /\ (m.type = "channel" => emitted' = emitted + 1)
  BY <1>1, <1>2, <1>3, <1>4 DEF QueueInv, l
<1>6. \A i \in 1 .. l : i = 1 \/ (i - 1 \in 1 .. Len(jobs') /\ jobs'[i - 1] = jobs[i])
  BY <1>1
<1>7. ASSUME NEW i \in 1 .. Len(jobs'), jobs'[i].type = "channel"
      PROVE  emitted' < jobs'[i].n /\ jobs'[i].n <= announced'
  <2>1. i + 1 \in 1 .. l /\ 1 < i + 1 /\ jobs[i + 1].type = "channel" /\ jobs'[i] = jobs[i + 1]
    BY <1>1, <1>7
  <2>2. emitted < jobs[i + 1].n /\ jobs[i + 1].n <= announced
    BY <2>1 DEF QueueInv, l
  <2>3. m.type = "channel" => m.n < jobs[i + 1].n
    BY <1>1, <2>1 DEF QueueInv, l
  <2> QED
    BY <1>3, <2>1, <2>2, <2>3
<1>8. ASSUME NEW i \in 1 .. Len(jobs'), NEW j \in 1 .. Len(jobs'),
             i < j, jobs'[i].type = "channel", jobs'[j].type = "channel"
      PROVE  jobs'[i].n < jobs'[j].n
  <2>1. /\ i + 1 \in 1 .. l /\ j + 1 \in 1 .. l /\ i + 1 < j + 1
        /\ jobs'[i] = jobs[i + 1] /\ jobs'[j] = jobs[j + 1]
    BY <1>1, <1>8
  <2> QED
    BY <2>1, <1>8 DEF QueueInv, l
<1>9. ASSUME NEW c \in emitted' + 1 .. announced'
      PROVE  \E i \in 1 .. Len(jobs') : jobs'[i] = Channel(c)
  <2>1. c \in emitted + 1 .. announced /\ c # emitted'
    <3>1. PICK e \in Nat : e = emitted' /\ emitted <= e
      BY <1>2, <1>5
    <3>2. c \in e + 1 .. announced
      BY <1>9, <3>1
    <3>3. c \in Int /\ e < c /\ c <= announced
      BY <1>2, <3>2
    <3>4. c # e
      BY <3>3
    <3>5. c \in emitted + 1 .. announced
      BY <1>2, <3>1, <3>3
    <3> QED
      BY <3>1, <3>4, <3>5
  <2>2. PICK i \in 1 .. l : jobs[i] = Channel(c)
    BY <2>1 DEF QueueInv, l
  <2>3. i # 1
    BY <1>1, <1>3, <2>1, <2>2, MessageTypes
  <2>4. i - 1 \in 1 .. Len(jobs') /\ jobs'[i - 1] = Channel(c)
    BY <1>6, <2>2, <2>3
  <2> QED
    BY <2>4
<1>10. ASSUME NEW k \in 1 .. Len(jobs'), jobs'[k].type = "data", ~ jobs'[k].n <= emitted'
       PROVE  \E i \in 1 .. k - 1 : jobs'[i] = Channel(jobs'[k].n)
  <2>1. k + 1 \in 1 .. l /\ jobs'[k] = jobs[k + 1] /\ jobs[k + 1].n \in Nat
    BY <1>1
  <2>2. ~ jobs[k + 1].n <= emitted
    BY <1>2, <1>5, <1>10, <2>1
  <2>3. PICK i \in 1 .. (k + 1) - 1 : jobs[i] = Channel(jobs[k + 1].n)
    BY <1>10, <2>1, <2>2 DEF QueueInv, l
  <2>4. i # 1
    BY <1>1, <1>2, <1>3, <1>5, <1>10, <2>1, <2>3, MessageTypes
  <2>5. i \in 1 .. l /\ i - 1 \in 1 .. k - 1
    BY <1>1, <2>1, <2>3, <2>4
  <2>6. jobs'[i - 1] = Channel(jobs'[k].n)
    BY <1>6, <2>1, <2>3, <2>4, <2>5
  <2> QED
    BY <2>5, <2>6
<1>11. ASSUME NEW k \in 1 .. Len(jobs')
       PROVE  jobs'[k].type # "session" /\ (jobs'[k].type = "data" => 0 < jobs'[k].n)
  BY <1>1, <1>11 DEF QueueInv, l
<1>12. QueueInv'
  <2>1. /\ \A i \in 1 .. Len(jobs') : jobs'[i].type = "channel" =>
             emitted' < jobs'[i].n /\ jobs'[i].n <= announced'
        /\ \A i, j \in 1 .. Len(jobs') :
             i < j /\ jobs'[i].type = "channel" /\ jobs'[j].type = "channel" =>
               jobs'[i].n < jobs'[j].n
        /\ \A c \in emitted' + 1 .. announced' : \E i \in 1 .. Len(jobs') : jobs'[i] = Channel(c)
        /\ \A k \in 1 .. Len(jobs') : jobs'[k].type = "data" =>
             \/ jobs'[k].n <= emitted'
             \/ \E i \in 1 .. k - 1 : jobs'[i] = Channel(jobs'[k].n)
        /\ \A k \in 1 .. Len(jobs') :
             jobs'[k].type # "session" /\ (jobs'[k].type = "data" => 0 < jobs'[k].n)
    BY <1>7, <1>8, <1>9, <1>10, <1>11
  <2> QED
    BY <2>1 DEF QueueInv, Channel
<1> QED
  BY <1>1, <1>2, <1>5, <1>12 DEF m

LEMMA BroadcastInv == ASSUME IInv, Broadcast PROVE IInv'
<1>1. UNCHANGED <<graph, channels, scan, announced, data, clients, shake, missed>>
  BY DEF Broadcast, bridgeVars
<1>2. PICK m \in Messages : m = Head(jobs) /\ m = jobs[1] /\ 1 \in 1 .. Len(jobs)
  BY TailElements DEF IInv, StreamType, Broadcast
<1>3. /\ QueueInv' /\ jobs' \in Seq(Messages)
      /\ emitted' \in 0 .. announced /\ emitted \in 0 .. announced /\ announced \in Nat
      /\ IF m.type = "channel"
           THEN emitted' = emitted + 1 /\ emitted' = m.n /\ emitting' = emitting + 1
           ELSE emitted' = emitted /\ emitting' = emitting
  <2>1. Len(channels) \in Nat /\ announced \in 0 .. Len(channels) /\ emitted \in 0 .. announced
    BY DEF IInv, StreamType, TypeOK
  <2>2. /\ jobs # <<>> /\ jobs' = Tail(jobs)
        /\ IF m.type = "channel"
             THEN emitted' = m.n /\ emitting' = emitting + 1
             ELSE emitted' = emitted /\ emitting' = emitting
    BY <1>2 DEF Broadcast, loopVars
  <2>3. StreamType /\ QueueInv /\ announced' = announced
    BY <1>1 DEF IInv, JobsInv
  <2> QED
    BY <1>2, <2>1, <2>2, <2>3, TailKeepsQueue
<1>4. SentTo(clients, m) /\ wire \in [Viewers -> Seq(Messages)]
  BY <1>2 DEF IInv, StreamType, Broadcast
<1>5. /\ wire' \in [Viewers -> Seq(Messages)]
      /\ \A v \in Viewers : v \notin clients => wire'[v] = wire[v]
  BY <1>4, SendElements
<1>6. \A v \in Viewers : /\ \A x : Sent(v, x) => Sent(v, x)'
                         /\ v \in clients => Sent(v, m)'
  BY <1>4, SentForGood
<1>7. m.type # "session" /\ (m.type = "data" => m.n \in 1 .. emitted)
  BY <1>2, <1>3 DEF IInv, JobsInv, QueueInv, Messages
<1>8. ASSUME NEW v \in clients
      PROVE  /\ v \in Viewers /\ shake[v].step = "joined" /\ Sent(v, Session)
             /\ \A c \in 1 .. emitted : c \in missed[v] \/ Sent(v, Channel(c))
  <2>1. v \in Viewers
    BY DEF IInv, StreamType, TypeOK
  <2> QED
    BY <2>1 DEF IInv, ViewerInv
<1>9. StreamType'
  <2>1. emitting' \in 0 .. emitted'
    BY <1>3 DEF IInv, StreamType, TypeOK
  <2>2. \A v \in Viewers : missed'[v] \subseteq 1 .. emitted'
    BY <1>1, <1>3 DEF IInv, StreamType, TypeOK
  <2>3. TypeOK'
    BY <1>1, <1>3, <2>1, <2>2 DEF IInv, StreamType, TypeOK
  <2> QED
    BY <1>1, <1>3, <1>5, <2>3 DEF IInv, StreamType
<1>10. JobsInv'
  BY <1>1, <1>3 DEF IInv, JobsInv
<1>11. ViewerInv'
  <2> SUFFICES ASSUME NEW v \in Viewers
               PROVE  /\ v \in clients => shake[v].step = "joined"
                      /\ shake[v].step \in {"none", "session"} =>
                           \A i \in 1 .. Len(wire'[v]) : wire'[v][i].type = "status"
                      /\ shake[v].step \in {"listing", "channels", "status", "streaming", "joined"} =>
                           Sent(v, Session)'
                      /\ shake[v].step \notin {"joined", "left"} =>
                           \A i \in 1 .. Len(wire'[v]) : wire'[v][i].type # "data"
                      /\ v \in clients =>
                           \A c \in 1 .. emitted' : c \in missed[v] \/ Sent(v, Channel(c))'
    BY <1>1 DEF ViewerInv
  <2>1. shake[v].step # "joined" => v \notin clients /\ wire'[v] = wire[v]
    BY <1>5, <1>8
  <2>2. Sent(v, Session) => Sent(v, Session)'
    BY <1>6
  <2>3. ASSUME v \in clients, NEW c \in 1 .. emitted' PROVE c \in missed[v] \/ Sent(v, Channel(c))'
    <3>1. CASE c \in 1 .. emitted
      BY <1>6, <1>8, <2>3, <3>1
    <3>2. CASE c \notin 1 .. emitted
      <4>1. m.type = "channel" /\ m.n = c
        BY <1>3, <2>3, <3>2
      <4> QED
        BY <1>6, <2>3, <4>1, MessageTypes
    <3> QED
      BY <3>1, <3>2
  <2> QED
    BY <2>1, <2>2, <2>3 DEF IInv, ViewerInv
<1>12. Order'
  <2>1. m.type \in {"channel", "data"} => \A v \in Viewers \cap clients : Sent(v, Session)
    BY <1>8
  <2>2. m.type = "data" =>
          \A v \in Viewers \cap clients : m.n \in missed[v] \/ Sent(v, Channel(m.n))
    BY <1>7, <1>8
  <2> QED
    BY <1>1, <1>4, <2>1, <2>2, SendKeepsOrder DEF IInv
<1> QED
  BY <1>9, <1>10, <1>11, <1>12 DEF IInv

LEMMA EmitStatusInv == ASSUME IInv, EmitStatus PROVE IInv'
<1>1. UNCHANGED <<graph, channels, scan, announced, data, jobs, emitted, clients, shake, missed>>
  BY DEF EmitStatus, bridgeVars
<1>2. PICK m \in Messages : m = Status(Len(channels)) /\ m.type = "status"
  <2>1. Len(channels) \in Nat
    BY DEF IInv, StreamType, TypeOK
  <2> QED
    BY <2>1, MessageTypes
<1>3. SentTo(clients, m) /\ wire \in [Viewers -> Seq(Messages)]
  BY <1>2 DEF IInv, StreamType, EmitStatus
<1>4. /\ wire' \in [Viewers -> Seq(Messages)]
      /\ \A v \in Viewers : v \notin clients => wire'[v] = wire[v]
      /\ \A v \in Viewers : \A x : Sent(v, x) => Sent(v, x)'
  BY <1>3, SendElements, SentForGood
<1>5. StreamType'
  <2>1. emitting' \in 0 .. emitted
    <3>1. announced \in Nat /\ emitted \in 0 .. announced /\ emitting \in 0 .. emitted
      BY DEF IInv, StreamType, TypeOK
    <3> QED
      BY <3>1 DEF EmitStatus
  <2>2. TypeOK'
    BY <1>1, <2>1 DEF IInv, StreamType, TypeOK
  <2> QED
    BY <1>1, <1>4, <2>2 DEF IInv, StreamType
<1>6. JobsInv'
  BY <1>1 DEF IInv, JobsInv, QueueInv, Channel
<1>7. ViewerInv'
  <2>1. \A v \in Viewers : shake[v].step # "joined" => wire'[v] = wire[v]
    BY <1>4 DEF IInv, ViewerInv
  <2> QED
    BY <1>1, <1>4, <2>1 DEF IInv, ViewerInv
<1>8. Order'
  BY <1>1, <1>2, <1>3, SendKeepsOrder DEF IInv
<1> QED
  BY <1>5, <1>6, <1>7, <1>8 DEF IInv

-----------------------------------------------------------------------------
(* The handshakes.                                                         *)

\* Where the other viewers are is none of a handshake's business.
LEMMA ShakeStep ==
  ASSUME StreamType, NEW v \in Viewers, NEW next \in ShakeSteps, NEW todo \in Seq(Nat),
         shake' = [shake EXCEPT ![v] = At(next, todo)]
  PROVE  /\ shake' \in [Viewers -> [step : ShakeSteps, todo : Seq(Nat)]]
         /\ shake'[v].step = next
         /\ \A w \in Viewers : w # v => shake'[w] = shake[w]
<1>1. At(next, todo) \in [step : ShakeSteps, todo : Seq(Nat)] /\ At(next, todo).step = next
  BY DEF At
<1> QED
  BY <1>1 DEF StreamType

LEMMA JobsElsewhere ==
  ASSUME JobsInv, UNCHANGED <<channels, scan, announced, jobs, emitted>>
  PROVE  JobsInv'
  BY DEF JobsInv, QueueInv, Channel

\* A handshake's send keeps the invariant if it sends no data, and no channel
\* before the session.
LEMMA HandshakeSend ==
  ASSUME IInv, NEW v \in Viewers, NEW m \in Messages, SentTo({v}, m),
         UNCHANGED <<bridgeVars, jobs, loopVars, clients, missed>>,
         shake' \in [Viewers -> [step : ShakeSteps, todo : Seq(Nat)]],
         \A w \in Viewers : w # v => shake'[w] = shake[w],
         shake[v].step \notin {"joined", "left"},
         shake'[v].step \in {"session", "listing", "channels", "status", "streaming"},
         m.type # "data",
         m.type = "channel" => Sent(v, Session),
         IF shake'[v].step = "session"
           THEN m.type = "status" /\ shake[v].step = "none"
           ELSE m = Session \/ Sent(v, Session)
  PROVE  IInv'
<1>1. UNCHANGED <<graph, channels, scan, announced, data, jobs, emitting, emitted, clients, missed>>
  BY DEF bridgeVars, loopVars
<1>2. wire \in [Viewers -> Seq(Messages)]
  BY DEF IInv, StreamType
<1>3. /\ wire' \in [Viewers -> Seq(Messages)]
      /\ \A w \in Viewers : w # v => wire'[w] = wire[w]
      /\ Len(wire[v]) \in Nat
      /\ \A i \in 1 .. Len(wire[v]) : wire'[v][i] = wire[v][i]
      /\ Len(wire'[v]) = Len(wire[v]) + 1 /\ wire'[v][Len(wire[v]) + 1] = m
  BY <1>2, SendElements
<1>4. /\ \A w \in Viewers : \A x : Sent(w, x) => Sent(w, x)'
      /\ Sent(v, m)'
  BY <1>2, SentForGood
<1>5. v \notin clients
  BY DEF IInv, ViewerInv
<1>6. StreamType'
  <2>1. TypeOK'
    BY <1>1 DEF IInv, StreamType, TypeOK
  <2> QED
    BY <1>1, <1>3, <2>1 DEF IInv, StreamType
<1>7. JobsInv'
  BY <1>1, JobsElsewhere DEF IInv
<1>8. ViewerInv'
  <2> SUFFICES ASSUME NEW w \in Viewers
               PROVE  /\ w \in clients => shake'[w].step = "joined"
                      /\ shake'[w].step \in {"none", "session"} =>
                           \A i \in 1 .. Len(wire'[w]) : wire'[w][i].type = "status"
                      /\ shake'[w].step \in {"listing", "channels", "status", "streaming", "joined"} =>
                           Sent(w, Session)'
                      /\ shake'[w].step \notin {"joined", "left"} =>
                           \A i \in 1 .. Len(wire'[w]) : wire'[w][i].type # "data"
                      /\ w \in clients =>
                           \A c \in 1 .. emitted : c \in missed[w] \/ Sent(w, Channel(c))'
    BY <1>1 DEF ViewerInv
  <2>1. CASE w # v
    <3>1. shake'[w] = shake[w] /\ wire'[w] = wire[w]
      BY <1>3, <2>1
    <3>2. \A x : Sent(w, x) => Sent(w, x)'
      BY <1>4
    <3> QED
      BY <3>1, <3>2 DEF IInv, ViewerInv
  <2>2. CASE w = v
    <3>1. \A i \in 1 .. Len(wire'[v]) : i \in 1 .. Len(wire[v]) \/ wire'[v][i] = m
      BY <1>3
    <3>2. \A i \in 1 .. Len(wire'[v]) : wire'[v][i].type # "data"
      <4>1. \A i \in 1 .. Len(wire[v]) : wire[v][i].type # "data"
        BY DEF IInv, ViewerInv
      <4> QED
        BY <1>3, <3>1, <4>1
    <3>3. ASSUME shake'[v].step = "session", NEW i \in 1 .. Len(wire'[v])
          PROVE  wire'[v][i].type = "status"
      <4>1. m.type = "status" /\ \A j \in 1 .. Len(wire[v]) : wire[v][j].type = "status"
        BY <3>3 DEF IInv, ViewerInv
      <4> QED
        BY <1>3, <3>1, <4>1
    <3>4. shake'[v].step # "session" => Sent(v, Session)'
      BY <1>4
    <3> QED
      BY <1>5, <2>2, <3>2, <3>3, <3>4
  <2> QED
    BY <2>1, <2>2
<1>9. Order'
  <2>1. m.type \in {"channel", "data"} => \A w \in Viewers \cap {v} : Sent(w, Session)
    OBVIOUS
  <2> QED
    BY <1>1, <1>2, <2>1, SendKeepsOrder DEF IInv
<1> QED
  BY <1>6, <1>7, <1>8, <1>9 DEF IInv

LEMMA GreetInv == ASSUME IInv, NEW v \in Viewers, Greet(v) PROVE IInv'
<1>1. PICK m \in Messages : m = Status(Len(channels)) /\ m.type = "status"
  <2>1. Len(channels) \in Nat
    BY DEF IInv, StreamType, TypeOK
  <2> QED
    BY <2>1, MessageTypes
<1>2. /\ shake' \in [Viewers -> [step : ShakeSteps, todo : Seq(Nat)]]
      /\ shake'[v].step = "session"
      /\ \A w \in Viewers : w # v => shake'[w] = shake[w]
  <2>1. StreamType /\ shake' = [shake EXCEPT ![v] = At("session", <<>>)]
    BY DEF IInv, Greet
  <2>2. "session" \in ShakeSteps /\ <<>> \in Seq(Nat)
    BY DEF ShakeSteps
  <2> QED
    BY <2>1, <2>2, ShakeStep
<1>3. SentTo({v}, m) /\ shake[v].step = "none" /\ UNCHANGED <<bridgeVars, jobs, loopVars, clients, missed>>
  BY <1>1 DEF Greet, JoinsLater
<1> QED
  BY <1>1, <1>2, <1>3, HandshakeSend

LEMMA SendSessionInv == ASSUME IInv, NEW v \in Viewers, SendSession(v) PROVE IInv'
<1>1. /\ shake' \in [Viewers -> [step : ShakeSteps, todo : Seq(Nat)]]
      /\ shake'[v].step = "listing"
      /\ \A w \in Viewers : w # v => shake'[w] = shake[w]
  <2>1. StreamType /\ shake' = [shake EXCEPT ![v] = At("listing", <<>>)]
    BY DEF IInv, SendSession
  <2>2. "listing" \in ShakeSteps /\ <<>> \in Seq(Nat)
    BY DEF ShakeSteps
  <2> QED
    BY <2>1, <2>2, ShakeStep
<1>2. /\ SentTo({v}, Session) /\ shake[v].step = "session"
      /\ UNCHANGED <<bridgeVars, jobs, loopVars, clients, missed>>
  BY DEF SendSession
<1>3. Session \in Messages /\ Session.type = "session"
  BY MessageTypes
<1> QED
  BY <1>1, <1>2, <1>3, HandshakeSend

LEMMA ListChannelsInv == ASSUME IInv, NEW v \in Viewers, ListChannels(v) PROVE IInv'
<1>1. UNCHANGED <<graph, channels, scan, announced, data, jobs, emitting, emitted, clients, wire, missed>>
  BY DEF ListChannels, bridgeVars, loopVars
<1>2. PICK todo \in Seq(Nat) : shake' = [shake EXCEPT ![v] = At("channels", todo)]
  <2>1. Len(channels) \in Nat
    BY DEF IInv, StreamType, TypeOK
  <2>2. [c \in 1 .. Len(channels) |-> c] \in Seq(Nat)
    BY <2>1
  <2> QED
    BY <2>2 DEF ListChannels
<1>3. /\ shake' \in [Viewers -> [step : ShakeSteps, todo : Seq(Nat)]]
      /\ shake'[v].step = "channels" /\ shake[v].step = "listing"
      /\ \A w \in Viewers : w # v => shake'[w] = shake[w]
  BY <1>2, ShakeStep DEF IInv, ListChannels, ShakeSteps
<1>4. StreamType'
  <2>1. TypeOK'
    BY <1>1 DEF IInv, StreamType, TypeOK
  <2> QED
    BY <1>1, <1>3, <2>1 DEF IInv, StreamType
<1>5. JobsInv' /\ Order'
  BY <1>1, JobsElsewhere DEF IInv, Order, SessionComesFirst, DataFollowsChannel, Channel, Session
<1>6. ViewerInv'
  <2>1. \A w \in Viewers : \A x : Sent(w, x)' <=> Sent(w, x)
    BY <1>1 DEF Sent
  <2> QED
    BY <1>1, <1>3, <2>1 DEF IInv, ViewerInv
<1> QED
  BY <1>4, <1>5, <1>6 DEF IInv

LEMMA SendChannelInv == ASSUME IInv, NEW v \in Viewers, SendChannel(v) PROVE IInv'
<1>1. shake[v] \in [step : ShakeSteps, todo : Seq(Nat)] /\ shake[v].todo # <<>> /\ shake[v].step = "channels"
  BY DEF IInv, StreamType, SendChannel
<1>2. Head(shake[v].todo) \in Nat /\ Tail(shake[v].todo) \in Seq(Nat)
  BY <1>1, TailElements
<1>3. PICK m \in Messages : m = Channel(Head(shake[v].todo)) /\ m.type = "channel"
  BY <1>2, MessageTypes
<1>4. /\ shake' \in [Viewers -> [step : ShakeSteps, todo : Seq(Nat)]]
      /\ shake'[v].step = "channels"
      /\ \A w \in Viewers : w # v => shake'[w] = shake[w]
  <2>1. shake' = [shake EXCEPT ![v] = [shake[v] EXCEPT !.todo = Tail(shake[v].todo)]]
    BY DEF SendChannel
  <2>2. [shake[v] EXCEPT !.todo = Tail(shake[v].todo)] \in [step : ShakeSteps, todo : Seq(Nat)]
    BY <1>1, <1>2
  <2>3. [shake[v] EXCEPT !.todo = Tail(shake[v].todo)].step = "channels"
    BY <1>1
  <2> QED
    BY <2>1, <2>2, <2>3 DEF IInv, StreamType
<1>5. SentTo({v}, m) /\ UNCHANGED <<bridgeVars, jobs, loopVars, clients, missed>>
  BY <1>3 DEF SendChannel
<1>6. Sent(v, Session)
  BY <1>1 DEF IInv, ViewerInv
<1> QED
  BY <1>1, <1>3, <1>4, <1>5, <1>6, HandshakeSend

LEMMA SendStatusInv == ASSUME IInv, NEW v \in Viewers, SendStatus(v) PROVE IInv'
<1>1. PICK m \in Messages : m = Status(Len(channels)) /\ m.type = "status"
  <2>1. Len(channels) \in Nat
    BY DEF IInv, StreamType, TypeOK
  <2> QED
    BY <2>1, MessageTypes
<1>2. /\ shake' \in [Viewers -> [step : ShakeSteps, todo : Seq(Nat)]]
      /\ shake'[v].step = "status"
      /\ \A w \in Viewers : w # v => shake'[w] = shake[w]
  <2>1. StreamType /\ shake' = [shake EXCEPT ![v] = At("status", <<>>)]
    BY DEF IInv, SendStatus
  <2>2. "status" \in ShakeSteps /\ <<>> \in Seq(Nat)
    BY DEF ShakeSteps
  <2> QED
    BY <2>1, <2>2, ShakeStep
<1>3. /\ SentTo({v}, m) /\ shake[v].step = "channels"
      /\ UNCHANGED <<bridgeVars, jobs, loopVars, clients, missed>>
  BY <1>1 DEF SendStatus
<1>4. Sent(v, Session)
  BY <1>3 DEF IInv, ViewerInv
<1> QED
  BY <1>1, <1>2, <1>3, <1>4, HandshakeSend

LEMMA SendStreamingInv == ASSUME IInv, NEW v \in Viewers, SendStreaming(v) PROVE IInv'
<1>1. PICK m \in Messages : m = Status(Len(channels)) /\ m.type = "status"
  <2>1. Len(channels) \in Nat
    BY DEF IInv, StreamType, TypeOK
  <2> QED
    BY <2>1, MessageTypes
<1>2. /\ shake' \in [Viewers -> [step : ShakeSteps, todo : Seq(Nat)]]
      /\ shake'[v].step = "streaming"
      /\ \A w \in Viewers : w # v => shake'[w] = shake[w]
  <2>1. StreamType /\ shake' = [shake EXCEPT ![v] = At("streaming", <<>>)]
    BY DEF IInv, SendStreaming
  <2>2. "streaming" \in ShakeSteps /\ <<>> \in Seq(Nat)
    BY DEF ShakeSteps
  <2> QED
    BY <2>1, <2>2, ShakeStep
<1>3. /\ SentTo({v}, m) /\ shake[v].step = "status"
      /\ UNCHANGED <<bridgeVars, jobs, loopVars, clients, missed>>
  BY <1>1 DEF SendStreaming
<1>4. Sent(v, Session)
  BY <1>3 DEF IInv, ViewerInv
<1> QED
  BY <1>1, <1>2, <1>3, <1>4, HandshakeSend

LEMMA JoinInv == ASSUME IInv, NEW v \in Viewers, Join(v) PROVE IInv'
<1>1. /\ UNCHANGED <<graph, channels, scan, announced, data, jobs, emitting, emitted, wire>>
      /\ clients' = clients \cup {v}
      /\ missed' = [missed EXCEPT ![v] = (1 .. emitted) \ Known(v)]
      /\ shake[v].step \in {"status", "streaming"}
  BY DEF Join, bridgeVars, loopVars
<1>2. /\ shake' \in [Viewers -> [step : ShakeSteps, todo : Seq(Nat)]]
      /\ shake'[v].step = "joined"
      /\ \A w \in Viewers : w # v => shake'[w] = shake[w]
  <2>1. StreamType /\ shake' = [shake EXCEPT ![v] = At("joined", <<>>)]
    BY DEF IInv, Join
  <2>2. "joined" \in ShakeSteps /\ <<>> \in Seq(Nat)
    BY DEF ShakeSteps
  <2> QED
    BY <2>1, <2>2, ShakeStep
<1>3. /\ missed' \in [Viewers -> SUBSET Nat]
      /\ missed'[v] = (1 .. emitted) \ Known(v)
      /\ \A w \in Viewers : w # v => missed'[w] = missed[w]
  <2>1. emitted \in Nat
    <3>1. Len(channels) \in Nat /\ announced \in 0 .. Len(channels) /\ emitted \in 0 .. announced
      BY DEF IInv, StreamType, TypeOK
    <3> QED
      BY <3>1
  <2>2. (1 .. emitted) \ Known(v) \in SUBSET Nat
    BY <2>1
  <2> HIDE DEF Known
  <2> QED
    BY <1>1, <2>2 DEF IInv, StreamType
<1>4. /\ v \notin clients /\ Sent(v, Session)
      /\ \A i \in 1 .. Len(wire[v]) : wire[v][i].type # "data"
  BY <1>1 DEF IInv, ViewerInv
<1>5. \A c \in 1 .. emitted : c \in missed'[v] \/ Sent(v, Channel(c))
  <2> SUFFICES ASSUME NEW c \in Known(v) PROVE Sent(v, Channel(c))
    BY <1>3
  <2>1. wire[v] \in Seq(Messages) /\ DOMAIN wire[v] = 1 .. Len(wire[v])
    BY DEF IInv, StreamType
  <2>2. PICK i \in 1 .. Len(wire[v]) : wire[v][i].type = "channel" /\ wire[v][i].n = c
    BY <2>1 DEF Known
  <2>3. wire[v][i] = Channel(c)
    BY <2>1, <2>2, MessageTypes
  <2> QED
    BY <2>2, <2>3 DEF Sent
<1>6. StreamType'
  <2>1. \A w \in Viewers : missed'[w] \subseteq 1 .. emitted
    BY <1>3 DEF IInv, StreamType, TypeOK
  <2>2. TypeOK'
    BY <1>1, <2>1 DEF IInv, StreamType, TypeOK
  <2> QED
    BY <1>1, <1>2, <1>3, <2>2 DEF IInv, StreamType
<1>7. JobsInv'
  BY <1>1, JobsElsewhere DEF IInv
<1>8. ViewerInv'
  <2>1. \A w \in Viewers : \A x : Sent(w, x)' <=> Sent(w, x)
    BY <1>1 DEF Sent
  <2>2. \A w \in Viewers : w # v => (w \in clients' <=> w \in clients)
    BY <1>1
  <2> SUFFICES ASSUME NEW w \in Viewers
               PROVE  /\ w \in clients' => shake'[w].step = "joined"
                      /\ shake'[w].step \in {"none", "session"} =>
                           \A i \in 1 .. Len(wire[w]) : wire[w][i].type = "status"
                      /\ shake'[w].step \in {"listing", "channels", "status", "streaming", "joined"} =>
                           Sent(w, Session)
                      /\ shake'[w].step \notin {"joined", "left"} =>
                           \A i \in 1 .. Len(wire[w]) : wire[w][i].type # "data"
                      /\ w \in clients' =>
                           \A c \in 1 .. emitted : c \in missed'[w] \/ Sent(w, Channel(c))
    BY <1>1, <2>1 DEF ViewerInv
  <2>3. CASE w = v
    BY <1>2, <1>4, <1>5, <2>3
  <2>4. CASE w # v
    <3>1. shake'[w] = shake[w] /\ missed'[w] = missed[w]
      BY <1>2, <1>3, <2>4
    <3> QED
      BY <2>2, <2>4, <3>1 DEF IInv, ViewerInv
  <2> QED
    BY <2>3, <2>4
<1>9. Order'
  <2>1. SessionComesFirst'
    BY <1>1 DEF IInv, Order, SessionComesFirst, Session
  <2>2. DataFollowsChannel'
    <3>1. DOMAIN wire[v] = 1 .. Len(wire[v])
      BY DEF IInv, StreamType
    <3> QED
      BY <1>1, <1>3, <1>4, <3>1 DEF IInv, Order, DataFollowsChannel, Channel
  <2> QED
    BY <2>1, <2>2 DEF Order
<1> QED
  BY <1>6, <1>7, <1>8, <1>9 DEF IInv

LEMMA LeaveInv == ASSUME IInv, NEW v \in Viewers, Leave(v) PROVE IInv'
<1>1. /\ UNCHANGED <<graph, channels, scan, announced, data, jobs, emitting, emitted, wire, missed>>
      /\ clients' = clients \ {v}
  BY DEF Leave, bridgeVars, loopVars
<1>2. /\ shake' \in [Viewers -> [step : ShakeSteps, todo : Seq(Nat)]]
      /\ shake'[v].step = "left"
      /\ \A w \in Viewers : w # v => shake'[w] = shake[w]
  <2>1. StreamType /\ shake' = [shake EXCEPT ![v] = At("left", <<>>)]
    BY DEF IInv, Leave
  <2>2. "left" \in ShakeSteps /\ <<>> \in Seq(Nat)
    BY DEF ShakeSteps
  <2> QED
    BY <2>1, <2>2, ShakeStep
<1>3. StreamType'
  <2>1. TypeOK'
    BY <1>1 DEF IInv, StreamType, TypeOK
  <2> QED
    BY <1>1, <1>2, <2>1 DEF IInv, StreamType
<1>4. JobsInv' /\ Order'
  BY <1>1, JobsElsewhere DEF IInv, Order, SessionComesFirst, DataFollowsChannel, Channel, Session
<1>5. ViewerInv'
  <2>1. \A w \in Viewers : \A x : Sent(w, x)' <=> Sent(w, x)
    BY <1>1 DEF Sent
  <2> QED
    BY <1>1, <1>2, <2>1 DEF IInv, ViewerInv
<1> QED
  BY <1>3, <1>4, <1>5 DEF IInv

-----------------------------------------------------------------------------
\* Every step of either thread keeps the invariant.
LEMMA NextInvariance == IInv /\ [Next]_vars => IInv'
<1> SUFFICES ASSUME IInv, [Next]_vars PROVE IInv'
  OBVIOUS
<1>1. ASSUME NEW t \in Topics, Appear(t) \/ Subscribe(t) PROVE IInv'
  BY <1>1, AppearInv, SubscribeInv
<1>2. CASE ScanStarts \/ Announce \/ ScanEnds
  BY <1>2, ScanStartsInv, AnnounceInv, ScanEndsInv
<1>3. ASSUME NEW c \in Channels, Message(c) PROVE IInv'
  BY <1>3, MessageInv
<1>4. CASE Broadcast \/ EmitStatus
  BY <1>4, BroadcastInv, EmitStatusInv
<1>5. ASSUME NEW v \in Viewers,
             \/ Greet(v) \/ SendSession(v) \/ ListChannels(v) \/ SendChannel(v)
             \/ SendStatus(v) \/ SendStreaming(v) \/ Join(v) \/ Leave(v)
      PROVE  IInv'
  BY <1>5, GreetInv, SendSessionInv, ListChannelsInv, SendChannelInv,
     SendStatusInv, SendStreamingInv, JoinInv, LeaveInv
<1>6. CASE UNCHANGED vars
  <2>1. UNCHANGED <<graph, channels, scan, announced, data, jobs, emitting, emitted,
                    clients, shake, wire, missed>>
    BY <1>6 DEF vars, bridgeVars, loopVars, viewerVars
  <2>2. StreamType'
    BY <2>1 DEF IInv, StreamType, TypeOK
  <2> QED
    BY <2>1, <2>2, JobsElsewhere, ElsewhereKept DEF IInv
<1> QED
  BY <1>1, <1>2, <1>3, <1>4, <1>5, <1>6 DEF Next

\* The queue and the handshakes are as JobsInv and ViewerInv describe them in
\* every reachable state.
THEOREM Invariance == Spec => []IInv
BY InitInvariance, NextInvariance, PTL DEF Spec

\* The variables keep their types: the channels are different topics, at most
\* MaxTopics of them, and no more is broadcast than was announced.
THEOREM TypeCorrect == Spec => []TypeOK
<1>1. IInv => TypeOK
  BY DEF IInv, StreamType
<1> QED
  BY <1>1, Invariance, PTL

\* No viewer is sent a channel or data before its session.
THEOREM SessionFirst == Spec => []SessionComesFirst
<1>1. IInv => SessionComesFirst
  BY DEF IInv, Order
<1> QED
  BY <1>1, Invariance, PTL

\* No viewer is sent data before its channel, unless it missed the channel's
\* broadcast between its handshake's list and its end.
THEOREM ChannelsFirst == Spec => []DataFollowsChannel
<1>1. IInv => DataFollowsChannel
  BY DEF IInv, Order
<1> QED
  BY <1>1, Invariance, PTL

-----------------------------------------------------------------------------
(* The last status is right once the loop has caught up.  Four places make *)
(* statuses: the end of a scan, the end of a channel's broadcast and two   *)
(* steps of the handshake.  A count that is stale when it reaches a client *)
(* is always followed by a newer one, because a topic subscribed after the *)
(* count was taken still has its channel to be broadcast: Behind says      *)
(* where that channel is.  A viewer that joins with a stale count has      *)
(* missed a channel.                                                       *)

\* The last status v was sent counts n channels.
LastIs(v, n) ==
  \E i \in 1 .. Len(wire[v]) :
    /\ wire[v][i] = Status(n)
    /\ \A j \in i + 1 .. Len(wire[v]) : wire[v][j].type # "status"

Bounded(v, n) ==
  \A i \in 1 .. Len(wire[v]) : wire[v][i].type = "channel" => wire[v][i].n <= n

\* A stale count in the queue has a channel behind it.
StatusQueue ==
  \A k \in 1 .. Len(jobs) : jobs[k].type = "status" /\ jobs[k].n # announced =>
    \E i \in k + 1 .. Len(jobs) : jobs[i].type = "channel"

ChannelWaits == \E i \in 1 .. Len(jobs) : jobs[i].type = "channel"

\* A status is still to be sent that counts every channel announced.
Behind == ChannelWaits \/ emitting > 0 \/ scan.step \in {"announcing", "dead"}

\* The handshake's statuses count at least the channels it sent.
HandshakeInv ==
  \A v \in Viewers :
    /\ shake[v].step \in {"none", "session", "listing", "channels"} =>
         /\ Bounded(v, Len(channels))
         /\ \A i \in 1 .. Len(shake[v].todo) : shake[v].todo[i] <= Len(channels)
    /\ shake[v].step \in {"status", "streaming"} =>
         \E n \in 0 .. Len(channels) : LastIs(v, n) /\ Bounded(v, n)

ClientInv == \A v \in clients : missed[v] = {} => Behind \/ LastIs(v, announced)

StatusInv == StatusQueue /\ HandshakeInv /\ ClientInv

-----------------------------------------------------------------------------
\* The last status is what LastStatus reads.
LEMMA LastIsLast ==
  ASSUME NEW v \in Viewers, NEW n \in Nat, wire[v] \in Seq(Messages), LastIs(v, n)
  PROVE  LastStatus(v) = n
<1> DEFINE is == {i \in DOMAIN wire[v] : wire[v][i].type = "status"}
           last == CHOOSE i \in is : \A j \in is : j <= i
<1>1. DOMAIN wire[v] = 1 .. Len(wire[v]) /\ Len(wire[v]) \in Nat
  OBVIOUS
<1>2. PICK i \in 1 .. Len(wire[v]) :
        wire[v][i] = Status(n) /\ \A j \in i + 1 .. Len(wire[v]) : wire[v][j].type # "status"
  BY DEF LastIs
<1>3. i \in is /\ \A j \in is : j <= i
  <2>1. i \in is
    BY <1>1, <1>2, MessageTypes
  <2>2. ASSUME NEW j \in is PROVE j <= i
    BY <1>1, <1>2
  <2> QED
    BY <2>1, <2>2
<1>4. last \in is /\ \A j \in is : j <= last
  <2> HIDE DEF is
  <2> QED
    BY <1>3
<1>5. last = i
  <2>1. last \in Nat /\ i \in Nat /\ last <= i /\ i <= last
    <3>1. last <= i /\ i <= last
      BY <1>3, <1>4
    <3>2. last \in 1 .. Len(wire[v])
      BY <1>1, <1>4
    <3> QED
      BY <1>1, <3>1, <3>2
  <2> QED
    BY <2>1
<1>6. LastStatus(v) = wire[v][last].n
  BY DEF LastStatus
<1>7. wire[v][i].n = n
  BY <1>2, MessageTypes
<1> HIDE DEF last, is
<1> QED
  BY <1>5, <1>6, <1>7

\* A status sent is the last one of those it goes to; nothing else changes which
\* status is a viewer's last.
LEMMA SendKeepsLast ==
  ASSUME NEW vs, NEW m \in Messages, SentTo(vs, m), wire \in [Viewers -> Seq(Messages)],
         NEW v \in Viewers
  PROVE  /\ v \notin vs \/ m.type # "status" => \A x : LastIs(v, x) => LastIs(v, x)'
         /\ v \in vs => \A x : m = Status(x) => LastIs(v, x)'
<1>1. /\ Len(wire[v]) \in Nat
      /\ \A i \in 1 .. Len(wire[v]) : wire'[v][i] = wire[v][i]
      /\ v \in vs => Len(wire'[v]) = Len(wire[v]) + 1 /\ wire'[v][Len(wire[v]) + 1] = m
      /\ v \notin vs => wire'[v] = wire[v]
  BY SendElements
<1>2. ASSUME v \notin vs, NEW x, LastIs(v, x) PROVE LastIs(v, x)'
  BY <1>1, <1>2 DEF LastIs, Status
<1>3. ASSUME v \in vs, m.type # "status", NEW x, LastIs(v, x) PROVE LastIs(v, x)'
  <2>1. PICK i \in 1 .. Len(wire[v]) :
          wire[v][i] = Status(x) /\ \A j \in i + 1 .. Len(wire[v]) : wire[v][j].type # "status"
    BY <1>3 DEF LastIs
  <2>2. i \in 1 .. Len(wire'[v]) /\ wire'[v][i] = Status(x)
    BY <1>1, <1>3, <2>1
  <2>3. ASSUME NEW j \in i + 1 .. Len(wire'[v]) PROVE wire'[v][j].type # "status"
    <3>1. CASE j = Len(wire[v]) + 1
      BY <1>1, <1>3, <3>1
    <3>2. CASE j # Len(wire[v]) + 1
      <4>1. j \in i + 1 .. Len(wire[v]) /\ j \in 1 .. Len(wire[v])
        BY <1>1, <1>3, <2>1, <3>2
      <4> QED
        BY <1>1, <2>1, <4>1
    <3> QED
      BY <3>1, <3>2
  <2> QED
    BY <2>2, <2>3 DEF LastIs, Status
<1>4. ASSUME v \in vs, NEW x, m = Status(x) PROVE LastIs(v, x)'
  <2>1. Len(wire'[v]) = Len(wire[v]) + 1 /\ wire'[v][Len(wire'[v])] = Status(x)
    BY <1>1, <1>4
  <2>2. Len(wire'[v]) \in 1 .. Len(wire'[v])
    BY <1>1, <2>1
  <2>3. \A j \in Len(wire'[v]) + 1 .. Len(wire'[v]) : wire'[v][j].type # "status"
    BY <1>1, <2>1
  <2> QED
    BY <2>1, <2>2, <2>3 DEF LastIs, Status
<1> QED
  BY <1>2, <1>3, <1>4

\* A send keeps the bound on the channels a viewer was sent, if it keeps to it.
LEMMA SendKeepsBound ==
  ASSUME NEW vs, NEW m \in Messages, SentTo(vs, m), wire \in [Viewers -> Seq(Messages)],
         NEW v \in Viewers, NEW b, Bounded(v, b), m.type = "channel" => m.n <= b
  PROVE  Bounded(v, b)'
<1>1. /\ Len(wire[v]) \in Nat
      /\ \A i \in 1 .. Len(wire[v]) : wire'[v][i] = wire[v][i]
      /\ v \in vs => Len(wire'[v]) = Len(wire[v]) + 1 /\ wire'[v][Len(wire[v]) + 1] = m
      /\ v \notin vs => wire'[v] = wire[v]
  BY SendElements
<1>2. \A i \in 1 .. Len(wire'[v]) : i \in 1 .. Len(wire[v]) \/ wire'[v][i] = m
  BY <1>1
<1> QED
  BY <1>1, <1>2 DEF Bounded

\* The types that the steps below need.
LEMMA Counts ==
  ASSUME IInv
  PROVE  /\ Len(channels) \in Nat /\ announced \in 0 .. Len(channels)
         /\ emitted \in 0 .. announced /\ emitting \in 0 .. emitted
         /\ clients \subseteq Viewers /\ jobs \in Seq(Messages) /\ Len(jobs) \in Nat
         /\ wire \in [Viewers -> Seq(Messages)]
         /\ shake \in [Viewers -> [step : ShakeSteps, todo : Seq(Nat)]]
         /\ Status(Len(channels)) \in Messages /\ Status(Len(channels)).type = "status"
         /\ \A v \in clients : shake[v].step = "joined"
<1>1. clients \subseteq Viewers
  BY DEF IInv, StreamType, TypeOK
<1>2. \A v \in clients : shake[v].step = "joined"
  BY <1>1 DEF IInv, ViewerInv
<1>3. Len(channels) \in Nat /\ announced \in 0 .. Len(channels)
  BY DEF IInv, StreamType, TypeOK
<1>4. emitted \in 0 .. announced /\ emitting \in 0 .. emitted
  BY DEF IInv, StreamType, TypeOK
<1> QED
  BY <1>1, <1>2, <1>3, <1>4, MessageTypes DEF IInv, StreamType

\* A bound on the channels a viewer was sent may grow.
LEMMA BoundGrows ==
  ASSUME wire \in [Viewers -> Seq(Messages)], NEW v \in Viewers,
         NEW a \in Nat, NEW b \in Nat, Bounded(v, a), a <= b
  PROVE  Bounded(v, b)
<1>1. \A i \in 1 .. Len(wire[v]) : wire[v][i].n \in Nat
  <2>1. wire[v] \in Seq(Messages)
    OBVIOUS
  <2>2. \A i \in 1 .. Len(wire[v]) : wire[v][i] \in Messages
    BY <2>1
  <2> QED
    BY <2>2 DEF Messages
<1> QED
  BY <1>1 DEF Bounded

\* In its handshake a viewer was sent no channel that is not one.
LEMMA BoundedNow ==
  ASSUME IInv, HandshakeInv, NEW v \in Viewers, shake[v].step \notin {"joined", "left"}
  PROVE  Bounded(v, Len(channels))
<1>1. CASE shake[v].step \in {"none", "session", "listing", "channels"}
  BY <1>1 DEF HandshakeInv
<1>2. CASE shake[v].step \in {"status", "streaming"}
  <2>1. PICK n \in 0 .. Len(channels) : Bounded(v, n)
    BY <1>2 DEF HandshakeInv
  <2>2. n \in Nat /\ n <= Len(channels)
    BY <2>1, Counts
  <2> QED
    BY <2>1, <2>2, Counts, BoundGrows
<1> QED
  BY <1>1, <1>2, Counts DEF ShakeSteps

\* What is handed over goes behind the queue: no channel leaves it, and a status
\* that counts the announced channels is not stale.
LEMMA HandKeepsStatuses ==
  ASSUME StatusQueue, jobs \in Seq(Messages), NEW m \in Messages, Hand(m),
         m.type # "channel" => announced' = announced,
         m.type = "status" => m.n = announced
  PROVE  StatusQueue' /\ (m.type = "channel" \/ ChannelWaits => ChannelWaits')
<1>1. /\ Len(jobs) \in Nat /\ Len(jobs') = Len(jobs) + 1
      /\ \A i \in 1 .. Len(jobs) : jobs'[i] = jobs[i]
      /\ jobs'[Len(jobs) + 1] = m
  BY HandElements
<1>2. StatusQueue'
  <2> SUFFICES ASSUME NEW k \in 1 .. Len(jobs'), jobs'[k].type = "status", jobs'[k].n # announced'
               PROVE  \E i \in k + 1 .. Len(jobs') : jobs'[i].type = "channel"
    BY DEF StatusQueue
  <2>1. CASE m.type = "channel"
    <3>1. k # Len(jobs) + 1
      BY <1>1, <2>1
    <3>2. Len(jobs) + 1 \in k + 1 .. Len(jobs')
      BY <1>1, <3>1
    <3> QED
      BY <1>1, <2>1, <3>2
  <2>2. CASE m.type # "channel"
    <3>1. k \in 1 .. Len(jobs)
      BY <1>1, <2>2
    <3>2. PICK i \in k + 1 .. Len(jobs) : jobs[i].type = "channel"
      BY <1>1, <2>2, <3>1 DEF StatusQueue
    <3>3. i \in k + 1 .. Len(jobs') /\ i \in 1 .. Len(jobs)
      BY <1>1, <3>1, <3>2
    <3> QED
      BY <1>1, <3>2, <3>3
  <2> QED
    BY <2>1, <2>2
<1>3. ASSUME m.type = "channel" PROVE ChannelWaits'
  <2>1. Len(jobs) + 1 \in 1 .. Len(jobs')
    BY <1>1
  <2> QED
    BY <1>1, <1>3, <2>1 DEF ChannelWaits
<1>4. ASSUME ChannelWaits PROVE ChannelWaits'
  BY <1>1, <1>4 DEF ChannelWaits
<1> QED
  BY <1>2, <1>3, <1>4

-----------------------------------------------------------------------------
(* The steps.                                                              *)

LEMMA StatusInit == Init => StatusInv
<1> SUFFICES ASSUME Init PROVE StatusInv
  OBVIOUS
<1>1. /\ Len(channels) = 0 /\ Len(jobs) = 0 /\ clients = {}
      /\ \A v \in Viewers :
           /\ Len(wire[v]) = 0 /\ shake[v].step = "none" /\ Len(shake[v].todo) = 0
  BY DEF Init, At
<1> QED
  BY <1>1 DEF StatusInv, StatusQueue, HandshakeInv, ClientInv, Bounded

\* Channels may be added under a handshake.
LEMMA HandshakesKept ==
  ASSUME IInv, HandshakeInv, UNCHANGED <<shake, wire>>,
         Len(channels') \in Nat, Len(channels) <= Len(channels')
  PROVE  HandshakeInv'
<1>a. shake' = shake /\ \A v, n : LastIs(v, n)' = LastIs(v, n) /\ Bounded(v, n)' = Bounded(v, n)
  BY DEF LastIs, Bounded
<1> SUFFICES ASSUME NEW v \in Viewers
             PROVE  /\ shake[v].step \in {"none", "session", "listing", "channels"} =>
                         /\ Bounded(v, Len(channels'))
                         /\ \A i \in 1 .. Len(shake[v].todo) : shake[v].todo[i] <= Len(channels')
                    /\ shake[v].step \in {"status", "streaming"} =>
                         \E n \in 0 .. Len(channels') : LastIs(v, n) /\ Bounded(v, n)
  BY <1>a DEF HandshakeInv, LastIs, Bounded
<1>1. ASSUME shake[v].step \in {"none", "session", "listing", "channels"}
      PROVE  Bounded(v, Len(channels'))
  BY <1>1, Counts, BoundGrows DEF HandshakeInv
<1>2. ASSUME shake[v].step \in {"none", "session", "listing", "channels"},
             NEW i \in 1 .. Len(shake[v].todo)
      PROVE  shake[v].todo[i] <= Len(channels')
  <2>1. shake[v].todo[i] \in Nat /\ Len(channels) \in Nat
    BY Counts
  <2>2. shake[v].todo[i] <= Len(channels)
    BY <1>2 DEF HandshakeInv
  <2> QED
    BY <2>1, <2>2
<1>3. ASSUME shake[v].step \in {"status", "streaming"}
      PROVE  \E n \in 0 .. Len(channels') : LastIs(v, n) /\ Bounded(v, n)
  BY <1>3, Counts DEF HandshakeInv
<1> QED
  BY <1>1, <1>2, <1>3

\* A step of the executor's thread sends nothing: what is left to show of it is
\* that the queue is kept and that clients stay behind.
LEMMA ThreadStep ==
  ASSUME IInv, StatusInv, UNCHANGED <<clients, shake, wire, missed>>,
         Len(channels') \in Nat, Len(channels) <= Len(channels'),
         StatusQueue', Behind => Behind', announced' # announced => Behind'
  PROVE  StatusInv'
<1>1. HandshakeInv'
  BY HandshakesKept DEF StatusInv
<1>2. ClientInv'
  <2> SUFFICES ASSUME NEW v \in clients, missed[v] = {} PROVE Behind' \/ LastIs(v, announced)'
    BY DEF ClientInv
  <2>1. Behind \/ LastIs(v, announced)
    BY DEF StatusInv, ClientInv
  <2>2. CASE announced' = announced
    BY <2>1, <2>2 DEF LastIs, Status
  <2> QED
    BY <2>2
<1> QED
  BY <1>1, <1>2 DEF StatusInv

LEMMA ScanStatus ==
  ASSUME IInv, StatusInv,
         \/ \E t \in Topics : Appear(t) \/ Subscribe(t)
         \/ ScanStarts \/ Announce \/ ScanEnds \/ \E c \in Channels : Message(c)
  PROVE  StatusInv'
<1>a. Len(channels) \in Nat /\ jobs \in Seq(Messages) /\ StatusQueue
  BY Counts DEF StatusInv
<1>1. ASSUME NEW t \in Topics, Appear(t) PROVE StatusInv'
  <2>1. UNCHANGED <<channels, scan, announced, jobs, emitting, clients, shake, wire, missed>>
    BY <1>1 DEF Appear, loopVars, viewerVars
  <2>2. StatusQueue' /\ (Behind => Behind')
    BY <2>1, <1>a DEF StatusQueue, Behind, ChannelWaits
  <2> QED
    BY <2>1, <2>2, <1>a, ThreadStep
<1>2. ASSUME NEW t \in Topics, Subscribe(t) PROVE StatusInv'
  <2>1. /\ UNCHANGED <<announced, jobs, emitting, clients, shake, wire, missed>>
        /\ scan'.step \in {"announcing", "dead"}
    BY <1>2 DEF Subscribe, loopVars, viewerVars, IInv, StreamType
  <2>2. Len(channels') = Len(channels) + 1
    BY <1>2, AppendElements DEF Subscribe, IInv, StreamType, TypeOK
  <2>3. StatusQueue' /\ Behind'
    BY <2>1, <1>a DEF StatusQueue, Behind
  <2> QED
    BY <2>1, <2>2, <2>3, <1>a, ThreadStep
<1>3. CASE ScanStarts
  <2>1. /\ UNCHANGED <<channels, announced, jobs, emitting, clients, shake, wire, missed>>
        /\ scan.step = "idle"
    BY <1>3 DEF ScanStarts, Idle, loopVars, viewerVars
  <2>2. StatusQueue' /\ (Behind => Behind')
    BY <2>1, <1>a DEF StatusQueue, Behind, ChannelWaits
  <2> QED
    BY <2>1, <2>2, <1>a, ThreadStep
<1>4. CASE Announce
  <2>1. /\ UNCHANGED <<channels, emitting, clients, shake, wire, missed>>
        /\ Hand(Channel(Len(channels)))
    BY <1>4 DEF Announce, loopVars, viewerVars
  <2>2. StatusQueue' /\ ChannelWaits'
    BY <2>1, <1>a, MessageTypes, HandKeepsStatuses
  <2>3. Behind'
    BY <2>2 DEF Behind
  <2> QED
    BY <2>1, <2>2, <2>3, <1>a, ThreadStep
<1>5. CASE ScanEnds
  <2>1. /\ UNCHANGED <<channels, announced, emitting, clients, shake, wire, missed>>
        /\ scan.step = "scanning" /\ Len(channels) = announced
    BY <1>5 DEF ScanEnds, loopVars, viewerVars, IInv, JobsInv
  <2>2. StatusQueue' /\ (ChannelWaits => ChannelWaits')
    <3>1. CASE UNCHANGED jobs
      BY <2>1, <3>1, <1>a DEF StatusQueue, ChannelWaits
    <3>2. CASE Hand(Status(Subscribed))
      BY <2>1, <3>2, <1>a, MessageTypes, HandKeepsStatuses DEF Subscribed
    <3> QED
      BY <1>5, <3>1, <3>2 DEF ScanEnds
  <2>3. Behind => Behind'
    BY <2>1, <2>2 DEF Behind
  <2> QED
    BY <2>1, <2>2, <2>3, <1>a, ThreadStep
<1>6. ASSUME NEW c \in Channels, Message(c) PROVE StatusInv'
  <2>1. /\ UNCHANGED <<channels, scan, announced, emitting, clients, shake, wire, missed>>
        /\ Hand(Data(c)) /\ c \in Nat
    BY <1>6, <1>a DEF Message, loopVars, viewerVars
  <2>2. StatusQueue' /\ (ChannelWaits => ChannelWaits')
    BY <2>1, <1>a, MessageTypes, HandKeepsStatuses
  <2>3. Behind => Behind'
    BY <2>1, <2>2 DEF Behind
  <2> QED
    BY <2>1, <2>2, <2>3, <1>a, ThreadStep
<1> QED
  BY <1>1, <1>2, <1>3, <1>4, <1>5, <1>6

\* What is broadcast reaches no viewer that is in its handshake.
LEMMA BroadcastElsewhere ==
  ASSUME IInv, HandshakeInv, NEW m \in Messages, SentTo(clients, m), UNCHANGED <<channels, shake>>
  PROVE  HandshakeInv'
<1> SUFFICES ASSUME NEW v \in Viewers, shake[v].step \notin {"joined", "left"}
             PROVE  /\ shake[v].step \in {"none", "session", "listing", "channels"} =>
                         /\ Bounded(v, Len(channels))'
                         /\ \A i \in 1 .. Len(shake[v].todo) : shake[v].todo[i] <= Len(channels)
                    /\ shake[v].step \in {"status", "streaming"} =>
                         \E n \in 0 .. Len(channels) : LastIs(v, n)' /\ Bounded(v, n)'
  BY DEF HandshakeInv, Bounded
<1>1. wire'[v] = wire[v]
  BY Counts, SendElements
<1>2. \A x : LastIs(v, x) => LastIs(v, x)'
  BY <1>1 DEF LastIs, Status
<1>3. \A x : Bounded(v, x) => Bounded(v, x)'
  BY <1>1 DEF Bounded
<1>4. Bounded(v, Len(channels)) => Bounded(v, Len(channels))'
  BY <1>1 DEF Bounded
<1> QED
  BY <1>2, <1>3, <1>4 DEF HandshakeInv

LEMMA BroadcastStatus == ASSUME IInv, StatusInv, Broadcast PROVE StatusInv'
<1>1. PICK m \in Messages : m = Head(jobs) /\ m = jobs[1]
  BY TailElements DEF IInv, StreamType, Broadcast
<1>2. /\ SentTo(clients, m) /\ jobs # <<>> /\ jobs' = Tail(jobs)
      /\ UNCHANGED <<channels, scan, announced, clients, shake, missed>>
      /\ m.type = "channel" => emitting' = emitting + 1
      /\ m.type # "channel" => emitting' = emitting
  BY <1>1 DEF Broadcast, bridgeVars, loopVars
<1>3. /\ Len(jobs) \in Nat /\ Len(jobs') = Len(jobs) - 1
      /\ \A i \in 1 .. Len(jobs') : jobs'[i] = jobs[i + 1]
  BY <1>2, TailElements, Counts
<1>4. ASSUME NEW i \in 2 .. Len(jobs) PROVE i - 1 \in 1 .. Len(jobs') /\ jobs'[i - 1] = jobs[i]
  BY <1>3
<1>5. StatusQueue'
  <2> SUFFICES ASSUME NEW k \in 1 .. Len(jobs'), jobs'[k].type = "status", jobs'[k].n # announced
               PROVE  \E i \in k + 1 .. Len(jobs') : jobs'[i].type = "channel"
    BY <1>2 DEF StatusQueue
  <2>1. k + 1 \in 1 .. Len(jobs) /\ jobs'[k] = jobs[k + 1]
    BY <1>3
  <2>2. PICK i \in (k + 1) + 1 .. Len(jobs) : jobs[i].type = "channel"
    BY <2>1 DEF StatusInv, StatusQueue
  <2>3. i - 1 \in k + 1 .. Len(jobs') /\ i \in 2 .. Len(jobs)
    BY <1>3, <2>2
  <2> QED
    BY <1>4, <2>2, <2>3
<1>6. HandshakeInv'
  BY <1>2, BroadcastElsewhere DEF StatusInv
<1>7. ASSUME NEW i \in 2 .. Len(jobs), jobs[i].type = "channel" PROVE Behind'
  <2>1. i - 1 \in 1 .. Len(jobs') /\ jobs'[i - 1].type = "channel"
    BY <1>4, <1>7
  <2> QED
    BY <2>1 DEF Behind, ChannelWaits
<1>8. ClientInv'
  <2> SUFFICES ASSUME NEW v \in clients, missed[v] = {} PROVE Behind' \/ LastIs(v, announced)'
    BY <1>2 DEF ClientInv
  <2>0. v \in Viewers /\ wire \in [Viewers -> Seq(Messages)] /\ emitting \in Nat
    BY Counts
  <2>1. CASE m.type = "channel"
    <3>1. emitting' > 0
      BY <1>2, <2>0, <2>1
    <3> QED
      BY <3>1 DEF Behind
  <2>2. CASE m.type = "status" /\ m.n # announced
    <3>1. 1 \in 1 .. Len(jobs)
      BY <1>2, Counts, TailElements
    <3>2. PICK i \in 1 + 1 .. Len(jobs) : jobs[i].type = "channel"
      BY <1>1, <2>2, <3>1 DEF StatusInv, StatusQueue
    <3>3. i \in 2 .. Len(jobs)
      BY <3>2
    <3> QED
      BY <1>7, <3>2, <3>3
  <2>3. CASE m.type = "status" /\ m.n = announced
    <3>1. m = Status(announced)
      BY <2>3 DEF Messages, Status
    <3>2. \A x : m = Status(x) => LastIs(v, x)'
      BY <1>2, <2>0, SendKeepsLast
    <3> QED
      BY <1>2, <3>1, <3>2 DEF LastIs, Status
  <2>4. CASE m.type \notin {"channel", "status"}
    <3>1. ASSUME ChannelWaits PROVE Behind'
      <4>1. PICK i \in 1 .. Len(jobs) : jobs[i].type = "channel"
        BY <3>1 DEF ChannelWaits
      <4>2. i \in 2 .. Len(jobs)
        BY <1>1, <1>3, <2>4, <4>1
      <4> QED
        BY <1>7, <4>1, <4>2
    <3>2. ASSUME LastIs(v, announced) PROVE LastIs(v, announced)'
      <4>1. \A x : LastIs(v, x) => LastIs(v, x)'
        BY <1>2, <2>0, <2>4, SendKeepsLast
      <4> QED
        BY <1>2, <3>2, <4>1 DEF LastIs, Status
    <3>3. ASSUME emitting > 0 \/ scan.step \in {"announcing", "dead"} PROVE Behind'
      BY <1>2, <2>4, <3>3 DEF Behind
    <3> QED
      BY <3>1, <3>2, <3>3 DEF StatusInv, ClientInv, Behind
  <2> QED
    BY <2>1, <2>2, <2>3, <2>4
<1> QED
  BY <1>5, <1>6, <1>8 DEF StatusInv

LEMMA EmittedStatus == ASSUME IInv, StatusInv, EmitStatus PROVE StatusInv'
<1>1. PICK m \in Messages : m = Status(Len(channels))
  BY Counts
<1>2. SentTo(clients, m) /\ UNCHANGED <<channels, scan, announced, jobs, clients, shake, missed>>
  BY <1>1 DEF EmitStatus, bridgeVars
<1>3. StatusQueue' /\ HandshakeInv'
  BY <1>2, BroadcastElsewhere DEF StatusInv, StatusQueue
<1>4. ClientInv'
  <2> SUFFICES ASSUME NEW v \in clients PROVE Behind' \/ LastIs(v, announced)'
    BY <1>2 DEF ClientInv
  <2>1. CASE scan.step \in {"announcing", "dead"}
    BY <1>2, <2>1 DEF Behind
  <2>2. CASE scan.step \in {"idle", "scanning"}
    <3>1. m = Status(announced)
      BY <1>1, <2>2 DEF IInv, JobsInv
    <3>2. v \in Viewers /\ wire \in [Viewers -> Seq(Messages)]
      BY Counts
    <3>3. \A x : m = Status(x) => LastIs(v, x)'
      BY <1>2, <3>2, SendKeepsLast
    <3> QED
      BY <1>2, <3>1, <3>3 DEF LastIs, Status
  <2> QED
    BY <2>1, <2>2 DEF IInv, StreamType
<1> QED
  BY <1>3, <1>4 DEF StatusInv

\* A handshake's send keeps the invariant if the handshake's own part of it holds
\* afterwards.
LEMMA HandshakeStatus ==
  ASSUME IInv, StatusInv, NEW v \in Viewers, NEW m \in Messages, SentTo({v}, m),
         UNCHANGED <<bridgeVars, jobs, loopVars, clients, missed>>,
         shake[v].step \notin {"joined", "left"},
         \A w \in Viewers : w # v => shake'[w] = shake[w],
         m.type = "channel" => m.n <= Len(channels),
         \/ /\ shake'[v].step \in {"none", "session", "listing", "channels"}
            /\ \A i \in 1 .. Len(shake'[v].todo) : shake'[v].todo[i] <= Len(channels)
         \/ shake'[v].step \in {"status", "streaming"} /\ m = Status(Len(channels))
  PROVE  StatusInv'
<1>1. UNCHANGED <<channels, scan, announced, jobs, emitting, clients, missed>>
  BY DEF bridgeVars, loopVars
<1>2. wire \in [Viewers -> Seq(Messages)] /\ Len(channels) \in Nat /\ v \notin clients /\ clients \subseteq Viewers
  BY Counts
<1>3. \A w \in Viewers : w # v => wire'[w] = wire[w]
  BY <1>2, SendElements
<1>4. StatusQueue' /\ (Behind <=> Behind')
  BY <1>1 DEF StatusInv, StatusQueue, Behind, ChannelWaits
<1>5. ClientInv'
  <2> SUFFICES ASSUME NEW w \in clients, missed[w] = {} PROVE Behind' \/ LastIs(w, announced)'
    BY <1>1 DEF ClientInv
  <2>1. wire'[w] = wire[w]
    BY <1>2, <1>3
  <2> QED
    BY <1>1, <1>4, <2>1 DEF StatusInv, ClientInv, LastIs, Status
<1>6. HandshakeInv'
  <2> SUFFICES ASSUME NEW w \in Viewers
               PROVE  /\ shake'[w].step \in {"none", "session", "listing", "channels"} =>
                           /\ Bounded(w, Len(channels))'
                           /\ \A i \in 1 .. Len(shake'[w].todo) : shake'[w].todo[i] <= Len(channels)
                      /\ shake'[w].step \in {"status", "streaming"} =>
                           \E n \in 0 .. Len(channels) : LastIs(w, n)' /\ Bounded(w, n)'
    BY <1>1 DEF HandshakeInv, Bounded
  <2>1. CASE w # v
    <3>1. shake'[w] = shake[w] /\ wire'[w] = wire[w]
      BY <1>3, <2>1
    <3>2. \A x : (LastIs(w, x) => LastIs(w, x)') /\ (Bounded(w, x) => Bounded(w, x)')
      BY <3>1 DEF LastIs, Bounded, Status
    <3>3. Bounded(w, Len(channels)) => Bounded(w, Len(channels))'
      BY <1>1, <3>1 DEF Bounded
    <3> QED
      BY <3>1, <3>2, <3>3 DEF StatusInv, HandshakeInv
  <2>2. CASE w = v
    <3>1. Bounded(v, Len(channels))
      BY BoundedNow DEF StatusInv
    <3>2. PICK n \in Nat : n = Len(channels)
      BY <1>2
    <3>3. Bounded(v, n)'
      BY <1>2, <3>1, <3>2, SendKeepsBound
    <3>4. Bounded(v, Len(channels))'
      BY <1>1, <3>2, <3>3 DEF Bounded
    <3>5. ASSUME m = Status(n) PROVE LastIs(v, n)'
      BY <1>2, <3>5, SendKeepsLast
    <3> QED
      BY <2>2, <3>2, <3>3, <3>4, <3>5
  <2> QED
    BY <2>1, <2>2
<1> QED
  BY <1>4, <1>5, <1>6 DEF StatusInv

LEMMA HandshakeStatuses ==
  ASSUME IInv, StatusInv, NEW v \in Viewers,
         \/ Greet(v) \/ SendSession(v) \/ SendChannel(v) \/ SendStatus(v) \/ SendStreaming(v)
  PROVE  StatusInv'
<1>a. /\ shake \in [Viewers -> [step : ShakeSteps, todo : Seq(Nat)]]
      /\ Status(Len(channels)) \in Messages /\ Status(Len(channels)).type = "status"
      /\ Session \in Messages /\ Session.type = "session"
  BY Counts, MessageTypes
<1>1. CASE Greet(v)
  <2>1. /\ shake[v].step = "none" /\ shake'[v] = At("session", <<>>)
        /\ \A w \in Viewers : w # v => shake'[w] = shake[w]
        /\ SentTo({v}, Status(Len(channels)))
        /\ UNCHANGED <<bridgeVars, jobs, loopVars, clients, missed>>
    BY <1>1, <1>a DEF Greet, JoinsLater
  <2>2. shake'[v].step = "session" /\ Len(shake'[v].todo) = 0
    BY <2>1 DEF At
  <2>3. \A i \in 1 .. Len(shake'[v].todo) : shake'[v].todo[i] <= Len(channels)
    BY <2>2
  <2>4. shake[v].step \notin {"joined", "left"}
    BY <2>1
  <2> QED
    BY <1>a, <2>1, <2>2, <2>3, <2>4, HandshakeStatus
<1>2. CASE SendSession(v)
  <2>1. /\ shake[v].step = "session" /\ shake'[v] = At("listing", <<>>)
        /\ \A w \in Viewers : w # v => shake'[w] = shake[w]
        /\ SentTo({v}, Session)
        /\ UNCHANGED <<bridgeVars, jobs, loopVars, clients, missed>>
    BY <1>2, <1>a DEF SendSession
  <2>2. shake'[v].step = "listing" /\ Len(shake'[v].todo) = 0
    BY <2>1 DEF At
  <2>3. \A i \in 1 .. Len(shake'[v].todo) : shake'[v].todo[i] <= Len(channels)
    BY <2>2
  <2>4. shake[v].step \notin {"joined", "left"}
    BY <2>1
  <2> QED
    BY <1>a, <2>1, <2>2, <2>3, <2>4, HandshakeStatus
<1>3. CASE SendChannel(v)
  <2>1. shake[v].step = "channels" /\ shake[v].todo # <<>> /\ shake[v].todo \in Seq(Nat)
    BY <1>3, <1>a DEF SendChannel
  <2>2. /\ shake' = [shake EXCEPT ![v] = [shake[v] EXCEPT !.todo = Tail(shake[v].todo)]]
        /\ SentTo({v}, Channel(Head(shake[v].todo)))
        /\ UNCHANGED <<bridgeVars, jobs, loopVars, clients, missed>>
    BY <1>3 DEF SendChannel
  <2>3. /\ Head(shake[v].todo) = shake[v].todo[1] /\ Head(shake[v].todo) \in Nat
        /\ Len(shake[v].todo) \in Nat /\ Len(shake[v].todo) > 0
        /\ \A i \in 1 .. Len(Tail(shake[v].todo)) :
             i + 1 \in 1 .. Len(shake[v].todo) /\ Tail(shake[v].todo)[i] = shake[v].todo[i + 1]
    BY <2>1, TailElements
  <2>4. \A i \in 1 .. Len(shake[v].todo) : shake[v].todo[i] <= Len(channels)
    BY <2>1 DEF StatusInv, HandshakeInv
  <2>5. shake'[v].step = "channels" /\ shake'[v].todo = Tail(shake[v].todo)
    BY <1>a, <2>1, <2>2
  <2>6. /\ Channel(Head(shake[v].todo)) \in Messages
        /\ Channel(Head(shake[v].todo)).type = "channel"
        /\ Channel(Head(shake[v].todo)).n <= Len(channels)
    BY <2>3, <2>4, MessageTypes
  <2>7. \A w \in Viewers : w # v => shake'[w] = shake[w]
    BY <1>a, <2>2
  <2>8. \A i \in 1 .. Len(shake'[v].todo) : shake'[v].todo[i] <= Len(channels)
    BY <2>3, <2>4, <2>5
  <2> QED
    BY <2>1, <2>2, <2>5, <2>6, <2>7, <2>8, HandshakeStatus
<1>4. CASE SendStatus(v)
  <2>1. /\ shake[v].step = "channels" /\ shake'[v] = At("status", <<>>)
        /\ \A w \in Viewers : w # v => shake'[w] = shake[w]
        /\ SentTo({v}, Status(Len(channels)))
        /\ UNCHANGED <<bridgeVars, jobs, loopVars, clients, missed>>
    BY <1>4, <1>a DEF SendStatus
  <2>2. shake'[v].step = "status"
    BY <2>1 DEF At
  <2> QED
    BY <1>a, <2>1, <2>2, HandshakeStatus
<1>5. CASE SendStreaming(v)
  <2>1. /\ shake[v].step = "status" /\ shake'[v] = At("streaming", <<>>)
        /\ \A w \in Viewers : w # v => shake'[w] = shake[w]
        /\ SentTo({v}, Status(Len(channels)))
        /\ UNCHANGED <<bridgeVars, jobs, loopVars, clients, missed>>
    BY <1>5, <1>a DEF SendStreaming
  <2>2. shake'[v].step = "streaming"
    BY <2>1 DEF At
  <2> QED
    BY <1>a, <2>1, <2>2, HandshakeStatus
<1> QED
  BY <1>1, <1>2, <1>3, <1>4, <1>5

\* A viewer that missed nothing joins with a count that is right or behind.
LEMMA JoinsRight ==
  ASSUME IInv, StatusInv, NEW v \in Viewers, shake[v].step \in {"status", "streaming"},
         (1 .. emitted) \ Known(v) = {}
  PROVE  Behind \/ LastIs(v, announced)
<1> SUFFICES ASSUME ~ Behind PROVE LastIs(v, announced)
  OBVIOUS
<1>1. PICK n \in 0 .. Len(channels) : LastIs(v, n) /\ Bounded(v, n)
  BY DEF StatusInv, HandshakeInv
<1>2. emitted = announced /\ announced \in Nat
  <2>1. \A c \in emitted + 1 .. announced : \E i \in 1 .. Len(jobs) : jobs[i] = Channel(c)
    BY DEF IInv, JobsInv, QueueInv
  <2>2. emitted + 1 .. announced = {}
    BY <2>1, MessageTypes DEF Behind, ChannelWaits
  <2>3. Len(channels) \in Nat /\ announced \in 0 .. Len(channels) /\ emitted \in 0 .. announced
    BY Counts
  <2> QED
    BY <2>2, <2>3
<1>3. Len(channels) = announced
  BY DEF IInv, JobsInv, StreamType, Behind
<1>4. announced = 0 \/ announced <= n
  <2> SUFFICES ASSUME announced # 0 PROVE announced <= n
    OBVIOUS
  <2>1. announced \in Known(v)
    BY <1>2
  <2>2. DOMAIN wire[v] = 1 .. Len(wire[v])
    BY Counts
  <2>3. PICK i \in 1 .. Len(wire[v]) : wire[v][i].type = "channel" /\ wire[v][i].n = announced
    BY <2>1, <2>2 DEF Known
  <2> QED
    BY <1>1, <2>3 DEF Bounded
<1>5. n = announced
  BY <1>1, <1>2, <1>3, <1>4
<1> QED
  BY <1>1, <1>5

LEMMA JoinStatus ==
  ASSUME IInv, StatusInv, NEW v \in Viewers, ListChannels(v) \/ Join(v) \/ Leave(v)
  PROVE  StatusInv'
<1>a. /\ shake \in [Viewers -> [step : ShakeSteps, todo : Seq(Nat)]]
      /\ Len(channels) \in Nat /\ clients \subseteq Viewers
  BY Counts
<1>1. /\ UNCHANGED <<channels, scan, announced, jobs, emitting, emitted, wire>>
      /\ \A w \in Viewers : w # v => shake'[w] = shake[w]
  BY <1>a DEF ListChannels, Join, Leave, bridgeVars, loopVars
<1>2. /\ StatusQueue' /\ (Behind <=> Behind')
      /\ \A w \in Viewers : LastIs(w, announced) <=> LastIs(w, announced)'
  BY <1>1 DEF StatusInv, StatusQueue, Behind, ChannelWaits, LastIs, Status
<1>3. HandshakeInv'
  <2>1. \/ shake'[v].step \in {"joined", "left"}
        \/ /\ shake'[v].step = "channels" /\ shake[v].step = "listing"
           /\ \A i \in 1 .. Len(shake'[v].todo) : shake'[v].todo[i] <= Len(channels)
    <3>1. CASE ListChannels(v)
      <4>1. shake[v].step = "listing" /\ shake'[v] = At("channels", [c \in 1 .. Len(channels) |-> c])
        BY <1>a, <3>1 DEF ListChannels
      <4>2. /\ shake'[v].step = "channels"
            /\ shake'[v].todo = [c \in 1 .. Len(channels) |-> c]
        BY <4>1 DEF At
      <4>3. PICK l \in Nat : l = Len(channels)
        BY <1>a
      <4>4. \A i \in 1 .. Len([c \in 1 .. l |-> c]) : [c \in 1 .. l |-> c][i] <= l
        OBVIOUS
      <4> QED
        BY <4>1, <4>2, <4>3, <4>4
    <3>2. CASE Join(v) \/ Leave(v)
      BY <1>a, <3>2 DEF Join, Leave, At
    <3> QED
      BY <3>1, <3>2
  <2>2. \A w \in Viewers : \A x : (LastIs(w, x) <=> LastIs(w, x)') /\ (Bounded(w, x) <=> Bounded(w, x)')
    BY <1>1 DEF LastIs, Bounded, Status
  <2>3. \A w \in Viewers : Bounded(w, Len(channels)) => Bounded(w, Len(channels))'
    BY <1>1 DEF Bounded
  <2> SUFFICES ASSUME NEW w \in Viewers
               PROVE  /\ shake'[w].step \in {"none", "session", "listing", "channels"} =>
                           /\ Bounded(w, Len(channels))'
                           /\ \A i \in 1 .. Len(shake'[w].todo) : shake'[w].todo[i] <= Len(channels)
                      /\ shake'[w].step \in {"status", "streaming"} =>
                           \E n \in 0 .. Len(channels) : LastIs(w, n)' /\ Bounded(w, n)'
    BY <1>1 DEF HandshakeInv, Bounded
  <2>4. CASE w # v
    BY <1>1, <2>2, <2>3, <2>4 DEF StatusInv, HandshakeInv
  <2>5. CASE w = v
    BY <2>1, <2>3, <2>5 DEF StatusInv, HandshakeInv
  <2> QED
    BY <2>4, <2>5
<1>4. ClientInv'
  <2> SUFFICES ASSUME NEW w \in clients', missed'[w] = {} PROVE Behind \/ LastIs(w, announced)
    <3>1. clients' \subseteq Viewers
      BY <1>a DEF ListChannels, Join, Leave
    <3> QED
      BY <1>2, <3>1 DEF ClientInv
  <2>1. CASE w \in clients /\ missed'[w] = missed[w]
    BY <2>1 DEF StatusInv, ClientInv
  <2>2. CASE Join(v) /\ w = v
    <3>1. shake[v].step \in {"status", "streaming"} /\ missed'[v] = (1 .. emitted) \ Known(v)
      BY <2>2 DEF Join, IInv, StreamType
    <3> QED
      BY <2>2, <3>1, JoinsRight
  <2>3. (w \in clients /\ missed'[w] = missed[w]) \/ (Join(v) /\ w = v)
    <3>1. CASE ListChannels(v) \/ Leave(v)
      BY <3>1 DEF ListChannels, Leave
    <3>2. CASE Join(v)
      BY <1>a, <3>2 DEF Join, IInv, StreamType
    <3> QED
      BY <3>1, <3>2
  <2> QED
    BY <2>1, <2>2, <2>3
<1> QED
  BY <1>2, <1>3, <1>4 DEF StatusInv

-----------------------------------------------------------------------------
LEMMA StatusNext == IInv /\ StatusInv /\ [Next]_vars => StatusInv'
<1> SUFFICES ASSUME IInv, StatusInv, [Next]_vars PROVE StatusInv'
  OBVIOUS
<1>1. CASE \/ \E t \in Topics : Appear(t) \/ Subscribe(t)
           \/ ScanStarts \/ Announce \/ ScanEnds \/ \E c \in Channels : Message(c)
  BY <1>1, ScanStatus
<1>2. CASE Broadcast \/ EmitStatus
  BY <1>2, BroadcastStatus, EmittedStatus
<1>3. ASSUME NEW v \in Viewers,
             \/ Greet(v) \/ SendSession(v) \/ ListChannels(v) \/ SendChannel(v)
             \/ SendStatus(v) \/ SendStreaming(v) \/ Join(v) \/ Leave(v)
      PROVE  StatusInv'
  BY <1>3, HandshakeStatuses, JoinStatus
<1>4. CASE UNCHANGED vars
  <2>1. UNCHANGED <<channels, scan, announced, jobs, emitting, clients, shake, wire, missed>>
    BY <1>4 DEF vars, bridgeVars, loopVars, viewerVars
  <2>2. StatusQueue' /\ (Behind => Behind')
    BY <2>1 DEF StatusInv, StatusQueue, Behind, ChannelWaits
  <2>3. Len(channels) \in Nat
    BY Counts
  <2> QED
    BY <2>1, <2>2, <2>3, ThreadStep
<1> QED
  BY <1>1, <1>2, <1>3, <1>4 DEF Next

\* Once the loop has caught up and no scan runs, the last status that a client
\* was sent counts every subscribed topic, unless it missed a channel's broadcast.
THEOREM StatusSettles == Spec => []StatusIsRight
<1>1. IInv /\ StatusInv => StatusIsRight
  <2> SUFFICES ASSUME IInv, StatusInv, jobs = <<>>, emitting = 0, scan = Idle,
                      NEW v \in clients, missed[v] = {}
               PROVE  LastStatus(v) = Len(channels)
    BY DEF StatusIsRight
  <2>1. ~ Behind
    BY DEF Behind, ChannelWaits, Idle
  <2>2. LastIs(v, announced) /\ Len(channels) = announced
    BY <2>1 DEF StatusInv, ClientInv, IInv, JobsInv, Idle
  <2>3. v \in Viewers /\ wire[v] \in Seq(Messages) /\ announced \in Nat
    BY Counts, <2>2
  <2> QED
    BY <2>2, <2>3, LastIsLast
<1>2. Spec => []StatusInv
  BY StatusInit, StatusNext, Invariance, PTL DEF Spec
<1> QED
  BY <1>1, <1>2, Invariance, PTL
==============================================================================
