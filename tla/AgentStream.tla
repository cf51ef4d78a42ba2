----------------------------- MODULE AgentStream -----------------------------
(***************************************************************************)
(* What a viewer is sent of the agent's topics: the topic scan of          *)
(* LiveBridge (agent/robotscope_agent/bridge.py), the broadcasts and the   *)
(* handshake of LiveGateway (gateway.py).                                  *)
(*                                                                         *)
(* Two threads meet.  The executor's thread finds topics, subscribes to    *)
(* them and hands channels, statuses and data to the asyncio loop, which   *)
(* runs what it is handed in order.  On the loop, the handshake of each    *)
(* viewer suspends at every send; only when it is over does the viewer     *)
(* join the set of clients that broadcasts go to.  Channel n is the n-th   *)
(* topic that was subscribed.                                              *)
(***************************************************************************)
EXTENDS Naturals, Sequences, FiniteSets, SequencesExt

CONSTANTS
  Topics,     \* the topics of the profile, or all that discovery lists
  MaxTopics,  \* max_topics: channels that discovery opens at most
  Viewers,    \* connections made to the gateway
  MaxData     \* bound: ROS messages received

ASSUME StreamAssumption ==
  IsFiniteSet(Topics) /\ MaxTopics \in Nat /\ MaxData \in Nat

VARIABLES
  graph,      \* the topics on the ROS graph
  channels,   \* _channels: the topic of each channel
  scan,       \* the retry timer's callback: what it is doing and what it found before
  announced,  \* channels handed to the loop so far
  data,       \* ROS messages received so far
  jobs,       \* broadcasts handed to the loop, oldest first
  emitting,   \* channel broadcasts whose status has still to follow
  emitted,    \* channels broadcast so far
  clients,    \* _clients
  shake,      \* where each viewer's handshake is, and the channels it has yet to send
  wire,       \* what each viewer has been sent
  missed      \* the channels broadcast while the viewer's handshake was past its list

bridgeVars == <<graph, channels, scan, announced, data>>
loopVars   == <<emitting, emitted>>
viewerVars == <<clients, shake, wire, missed>>
vars == <<bridgeVars, jobs, loopVars, viewerVars>>

Channels == 1 .. Cardinality(Topics)

Session    == [type |-> "session", n |-> 0]
Channel(c) == [type |-> "channel", n |-> c]
Data(c)    == [type |-> "data", n |-> c]
Status(n)  == [type |-> "status", n |-> n]

Idle == [step |-> "idle", before |-> 0]
At(step, todo) == [step |-> step, todo |-> todo]

Init ==
  /\ graph = {} /\ channels = <<>> /\ scan = Idle
  /\ announced = 0 /\ data = 0
  /\ jobs = <<>> /\ emitting = 0 /\ emitted = 0
  /\ clients = {}
  /\ shake = [v \in Viewers |-> At("none", <<>>)]
  /\ wire = [v \in Viewers |-> <<>>]
  /\ missed = [v \in Viewers |-> {}]

-----------------------------------------------------------------------------
(* The executor's thread.                                                  *)

\* Faulty variant: what comes while the loop is busy is dropped.
HandIfIdle(m) == jobs' = IF jobs = <<>> THEN <<m>> ELSE jobs

\* run_coroutine_threadsafe
Hand(m) == jobs' = Append(jobs, m)

\* Other nodes start.
Appear(t) ==
  /\ graph' = graph \cup {t}
  /\ graph' # graph
  /\ UNCHANGED <<channels, scan, announced, data, jobs, loopVars, viewerVars>>

\* The retry timer fires.
ScanStarts ==
  /\ scan = Idle
  /\ scan' = [step |-> "scanning", before |-> Len(channels)]
  /\ UNCHANGED <<graph, channels, announced, data, jobs, loopVars, viewerVars>>

\* Faulty variant: a topic that has a channel is subscribed again.
AnyOnGraph(t) == t \in graph

Missing(t) == t \in graph \ ToSet(channels)

\* The channel is stored first; subscribing may still raise, which ends the
\* thread.  Only discovery has a limit: a profile's MaxTopics is its length.
Subscribe(t) ==
  /\ scan.step = "scanning"
  /\ Missing(t) /\ Len(channels) < MaxTopics
  /\ channels' = Append(channels, t)
  /\ \E next \in {"announcing", "dead"} : scan' = [scan EXCEPT !.step = next]
  /\ UNCHANGED <<graph, announced, data, jobs, loopVars, viewerVars>>

\* notify_channel_added
Announce ==
  /\ scan.step = "announcing"
  /\ announced' = Len(channels)
  /\ Hand(Channel(Len(channels)))
  /\ scan' = [scan EXCEPT !.step = "scanning"]
  /\ UNCHANGED <<graph, channels, data, loopVars, viewerVars>>

\* Faulty variant: the status tells the count the scan started from.
CountedBefore == scan.before

Subscribed == Len(channels)

\* notify_subscription_status, with the counts of this moment.
ScanEnds ==
  /\ scan.step = "scanning"
  /\ scan' = Idle
  /\ IF Len(channels) # scan.before THEN Hand(Status(Subscribed)) ELSE UNCHANGED jobs
  /\ UNCHANGED <<graph, channels, announced, data, loopVars, viewerVars>>

\* Faulty variant: subscription callbacks overlap the timer's.
OverlapsTimer == scan.step # "dead"

\* The node's callbacks share one callback group, which runs them one by one.
TimerIdle == scan = Idle

\* _handle_message and LiveGateway.publish
Message(c) ==
  /\ TimerIdle
  /\ c \in 1 .. Len(channels)
  /\ data < MaxData
  /\ data' = data + 1
  /\ Hand(Data(c))
  /\ UNCHANGED <<graph, channels, scan, announced, loopVars, viewerVars>>

-----------------------------------------------------------------------------
(* The loop: broadcasts.                                                   *)

SentTo(vs, m) == wire' = [v \in Viewers |-> IF v \in vs THEN Append(wire[v], m) ELSE wire[v]]

\* The oldest job runs: publish, notify_subscription_status, or the first half
\* of _emit_channel.
Broadcast ==
  /\ jobs # <<>>
  /\ jobs' = Tail(jobs)
  /\ SentTo(clients, Head(jobs))
  /\ IF Head(jobs).type = "channel"
       THEN emitting' = emitting + 1 /\ emitted' = Head(jobs).n
       ELSE UNCHANGED loopVars
  /\ UNCHANGED <<bridgeVars, clients, shake, missed>>

\* The second half of _emit_channel: the counts are read when it runs.
EmitStatus ==
  /\ emitting > 0
  /\ emitting' = emitting - 1
  /\ SentTo(clients, Status(Len(channels)))
  /\ UNCHANGED <<bridgeVars, jobs, emitted, clients, shake, missed>>

-----------------------------------------------------------------------------
(* The loop: _handle_client.                                               *)

\* Faulty variant: the viewer is a client from the start.
JoinsAtOnce(v) == clients' = clients \cup {v}

JoinsLater(v) == UNCHANGED clients

\* The connection is accepted and greeted.
Greet(v) ==
  /\ shake[v].step = "none"
  /\ SentTo({v}, Status(Len(channels)))
  /\ shake' = [shake EXCEPT ![v] = At("session", <<>>)]
  /\ JoinsLater(v)
  /\ UNCHANGED <<bridgeVars, jobs, loopVars, missed>>

SendSession(v) ==
  /\ shake[v].step = "session"
  /\ SentTo({v}, Session)
  /\ shake' = [shake EXCEPT ![v] = At("listing", <<>>)]
  /\ UNCHANGED <<bridgeVars, jobs, loopVars, clients, missed>>

\* The loop over bridge.channels runs over a copy of them.
ListChannels(v) ==
  /\ shake[v].step = "listing"
  /\ shake' = [shake EXCEPT ![v] = At("channels", [c \in 1 .. Len(channels) |-> c])]
  /\ UNCHANGED <<bridgeVars, jobs, loopVars, clients, wire, missed>>

SendChannel(v) ==
  /\ shake[v].step = "channels" /\ shake[v].todo # <<>>
  /\ SentTo({v}, Channel(Head(shake[v].todo)))
  /\ shake' = [shake EXCEPT ![v].todo = Tail(@)]
  /\ UNCHANGED <<bridgeVars, jobs, loopVars, clients, missed>>

SendStatus(v) ==
  /\ shake[v].step = "channels" /\ shake[v].todo = <<>>
  /\ SentTo({v}, Status(Len(channels)))
  /\ shake' = [shake EXCEPT ![v] = At("status", <<>>)]
  /\ UNCHANGED <<bridgeVars, jobs, loopVars, clients, missed>>

\* The "streaming" status, sent if there are channels by now.
SendStreaming(v) ==
  /\ shake[v].step = "status" /\ channels # <<>>
  /\ SentTo({v}, Status(Len(channels)))
  /\ shake' = [shake EXCEPT ![v] = At("streaming", <<>>)]
  /\ UNCHANGED <<bridgeVars, jobs, loopVars, clients, missed>>

Known(v) == {wire[v][i].n : i \in {j \in DOMAIN wire[v] : wire[v][j].type = "channel"}}

Join(v) ==
  /\ \/ shake[v].step = "streaming"
     \/ shake[v].step = "status" /\ channels = <<>>
  /\ clients' = clients \cup {v}
  /\ shake' = [shake EXCEPT ![v] = At("joined", <<>>)]
  /\ missed' = [missed EXCEPT ![v] = (1 .. emitted) \ Known(v)]
  /\ UNCHANGED <<bridgeVars, jobs, loopVars, wire>>

\* The viewer goes, or a send to it fails.
Leave(v) ==
  /\ shake[v].step \notin {"none", "left"}
  /\ clients' = clients \ {v}
  /\ shake' = [shake EXCEPT ![v] = At("left", <<>>)]
  /\ UNCHANGED <<bridgeVars, jobs, loopVars, wire, missed>>

-----------------------------------------------------------------------------
Next ==
  \/ \E t \in Topics : Appear(t) \/ Subscribe(t)
  \/ ScanStarts \/ Announce \/ ScanEnds
  \/ \E c \in Channels : Message(c)
  \/ Broadcast \/ EmitStatus
  \/ \E v \in Viewers : Greet(v) \/ SendSession(v) \/ ListChannels(v) \/ SendChannel(v)
                        \/ SendStatus(v) \/ SendStreaming(v) \/ Join(v) \/ Leave(v)

Spec == Init /\ [][Next]_vars

\* The loop runs what it is handed; a viewer may stall its own handshake.
FairSpec == Spec /\ WF_vars(Broadcast) /\ WF_vars(EmitStatus)

-----------------------------------------------------------------------------
(* Properties.                                                             *)

\* The types of the variables.
TypeOK ==
  /\ graph \subseteq Topics
  /\ channels \in Seq(Topics) /\ IsInjective(channels)
  /\ Len(channels) <= MaxTopics
  /\ scan.step \in {"idle", "scanning", "announcing", "dead"}
  /\ scan.before \in 0 .. Len(channels)
  /\ announced \in 0 .. Len(channels) /\ emitted \in 0 .. announced
  /\ data \in 0 .. MaxData /\ emitting \in 0 .. emitted
  /\ clients \subseteq Viewers
  /\ \A v \in Viewers : missed[v] \subseteq 1 .. emitted

\* A viewer's buffer forgets every channel when the session message comes, so
\* no channel and no data may come before it.
SessionComesFirst ==
  \A v \in Viewers : \A i \in DOMAIN wire[v] :
    wire[v][i].type \in {"channel", "data"} =>
      \E j \in 1 .. i - 1 : wire[v][j] = Session

\* Data comes after its channel, but for the channels broadcast between the
\* handshake's list of channels and its end.
DataFollowsChannel ==
  \A v \in Viewers : \A i \in DOMAIN wire[v] :
    wire[v][i].type = "data" /\ wire[v][i].n \notin missed[v] =>
      \E j \in 1 .. i - 1 : wire[v][j] = Channel(wire[v][i].n)

LastStatus(v) ==
  LET is == {i \in DOMAIN wire[v] : wire[v][i].type = "status"}
  IN wire[v][CHOOSE i \in is : \A j \in is : j <= i].n

\* Statuses are counted at different moments and cross each other, yet once the
\* loop has caught up the last one tells how many topics are subscribed.
StatusIsRight ==
  jobs = <<>> /\ emitting = 0 /\ scan = Idle =>
    \A v \in clients : missed[v] = {} => LastStatus(v) = Len(channels)

\* A channel handed to the loop while the viewer is a client reaches it.
ChannelsArrive ==
  \A v \in Viewers, c \in Channels :
    v \in clients /\ c <= announced /\ c \notin missed[v]
      ~> c \in Known(v) \/ v \notin clients

\* agent/README.md: the agent "pushes new channels to already-connected
\* clients".  Once the loop has caught up, a client knows every channel.
ClientsKnowChannels ==
  jobs = <<>> => \A v \in clients : 1 .. announced \subseteq Known(v)
=============================================================================
