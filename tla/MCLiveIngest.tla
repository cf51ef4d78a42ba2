---------------------------- MODULE MCLiveIngest ----------------------------
(* A small instance of LiveIngest for TLC. *)
EXTENDS LiveIngest, TLC

MCTimes == {0, 1, 3}
MCRanges == {<<0, 1>>}

\* Topics are interchangeable; every property here is of safety.
MCSymmetry == Permutations(Topics)

\* The run's windows are short.  On every window of up to five entries the
\* bisections of add and findNearest do what a linear search would.
ASSUME BisectionsAgree ==
  \A n \in 0 .. 5, at \in 0 .. 5 :
    \A s \in [1 .. n -> 0 .. 5] :
      (\A i \in 1 .. n - 1 : s[i] <= s[i + 1]) =>
        LET w == [i \in 1 .. n |-> [time |-> s[i], id |-> i]]
            f == FindNearest(w, at)
        IN /\ Position(w, at) = Cardinality({i \in 1 .. n : s[i] <= at})
           /\ Len(f) = IF n = 0 THEN 0 ELSE 1
           /\ \A i \in 1 .. n : Distance(f[1].time, at) <= Distance(s[i], at)
=============================================================================
