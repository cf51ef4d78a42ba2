------------------------------ MODULE TimeIndex ------------------------------
(***************************************************************************)
(* The bisections shared by TopicTimeIndex (packages/robotscope-core/src/  *)
(* storage/topic-time-index.ts) and LiveMessageStore (live/                *)
(* message-store.ts).  An entry is any record with a field time; the       *)
(* entries of a topic are in order of time.                                *)
(***************************************************************************)
EXTENDS Integers, Sequences, Sifting

\* The bisection of add and addBounded: how many entries stay before the new one.
Position(entries, time) ==
  LET Bisect[r \in (0 .. Len(entries)) \X (0 .. Len(entries))] ==
        LET lo  == r[1]
            hi  == r[2]
            mid == (lo + hi) \div 2
        IN IF lo >= hi THEN lo
           ELSE IF entries[mid + 1].time <= time
                  THEN Bisect[<<mid + 1, hi>>]
                  ELSE Bisect[<<lo, mid>>]
  IN Bisect[<<0, Len(entries)>>]

Distance(a, b) == IF a >= b THEN a - b ELSE b - a

Closer(entries, lo, hi, at) ==
  IF Distance(entries[hi].time, at) <= Distance(entries[lo].time, at)
    THEN entries[hi] ELSE entries[lo]

\* findNearest, of the store and of the index.  A found message is a sequence
\* of length one.
FindNearest(entries, at) ==
  LET n == Len(entries)
      Bisect[r \in (1 .. n + 1) \X (0 .. n)] ==
        LET lo  == r[1]
            hi  == r[2]
            mid == (lo - 1 + hi - 1) \div 2 + 1
        IN IF lo > hi THEN Closer(entries, lo, hi, at)
           ELSE IF entries[mid].time = at THEN entries[mid]
           ELSE IF entries[mid].time < at THEN Bisect[<<mid + 1, hi>>]
           ELSE Bisect[<<lo, mid - 1>>]
  IN CASE n = 0 -> <<>>
       [] n > 0 /\ at <= entries[1].time -> <<entries[1]>>
       [] n > 0 /\ at > entries[1].time /\ at >= entries[n].time -> <<entries[n]>>
       [] OTHER -> <<Bisect[<<1, n>>]>>
=============================================================================
