----------------------------- MODULE LatestWindow -----------------------------
(***************************************************************************)
(* What the live buffer promises: of each topic it holds the newest        *)
(* messages of the session, in whatever order they came.                   *)
(* "Newest" is by log time; of two messages with one log time, the one     *)
(* that came later is the newer.                                           *)
(***************************************************************************)
EXTENDS Naturals, FiniteSets

CONSTANTS
  Topics,      \* topic names
  Messages,    \* records with a time and, in order of arrival, an id
  MaxPerTopic  \* DEFAULT_MAX_MESSAGES_PER_TOPIC

VARIABLE window  \* the messages held of each topic

Newer(m, n) == m.time > n.time \/ (m.time = n.time /\ m.id > n.id)

\* The newest MaxPerTopic of the messages in S.
Newest(S) == {m \in S : Cardinality({n \in S : Newer(n, m)}) < MaxPerTopic}

Init == window = [t \in Topics |-> {}]

Receive(t, m) ==
  /\ \A s \in Topics : m \notin window[s]
  /\ window' = [window EXCEPT ![t] = Newest(@ \cup {m})]

StartSession == window' = [t \in Topics |-> {}]

Next ==
  \/ \E t \in Topics, m \in Messages : Receive(t, m)
  \/ StartSession

Spec == Init /\ [][Next]_window
=============================================================================
