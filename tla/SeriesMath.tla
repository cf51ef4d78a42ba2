------------------------------ MODULE SeriesMath ------------------------------
(***************************************************************************)
(* The numbers behind the time series plots, as functions of their inputs: *)
(* decimation (packages/robotscope-core/src/numeric-series.ts), derived    *)
(* channels (plugins/timeseries/src/derived-series.ts), the alignment of   *)
(* columns for plot and export (series-align.ts, csv-export.ts) and the    *)
(* value under the cursor (TimeSeriesDock.tsx).                            *)
(*                                                                         *)
(* A series is a sequence of points in the order of the recording; a series*)
(* that is null and one without points are not told apart, as no caller    *)
(* does.  Values are integers in a unit fine enough for the divisions that *)
(* a small instance makes, and NaN stands for every value that is not      *)
(* finite; rounding and overflow of doubles are left out.                  *)
(***************************************************************************)
EXTENDS Integers, Sequences, FiniteSets, SequencesExt, Sifting

CONSTANT NaN  \* a value that is not a finite number

Points(T, V) == [t : T, v : V \cup {NaN}]
Stamps(s) == {s[i].t : i \in DOMAIN s}
Pt(t, v) == [t |-> t, v |-> v]

Finite(s) == Keeping(s, {p \in ToSet(s) : p.v # NaN})

\* Faulty variant: the value that leaves the window is taken off one late.
LateAverage(s, size) ==
  LET f == Finite(s)
      sum[i \in 0 .. Len(f)] ==
        IF i = 0 THEN 0
        ELSE sum[i - 1] + f[i].v - (IF i > size + 1 THEN f[i - size - 1].v ELSE 0)
  IN [i \in DOMAIN f |-> Pt(f[i].t, sum[i] \div (IF i < size THEN i ELSE size))]

\* The running sum adds the new value and takes off the one that leaves.
MovingAverage(s, size) ==
  LET f == Finite(s)
      sum[i \in 0 .. Len(f)] ==
        IF i = 0 THEN 0
        ELSE sum[i - 1] + f[i].v - (IF i > size THEN f[i - size].v ELSE 0)
  IN [i \in DOMAIN f |-> Pt(f[i].t, sum[i] \div (IF i < size THEN i ELSE size))]

\* [...set].sort((a, b) => a - b): the numbers of a finite set, the least first.
Ascending(S) ==
  LET up[k \in 0 .. Cardinality(S)] ==
        IF k = 0 THEN <<>> ELSE Append(up[k - 1], Min(S \ ToSet(up[k - 1])))
  IN up[Cardinality(S)]

\* The numbers of the items of a sequence, in order.
Indices(s) == [i \in DOMAIN s |-> i]

Derivative(s) ==
  LET f == Finite(s)
      at == Keeping(Indices(f), {i \in 2 .. Len(f) : f[i].t # f[i - 1].t})
  IN [k \in DOMAIN at |-> Pt(f[at[k]].t,
        (f[at[k]].v - f[at[k] - 1].v) \div (f[at[k]].t - f[at[k] - 1].t))]

\* Trapezoids; a step back in time or none at all is passed over.
Integral(s) ==
  LET f == Finite(s)
      at == Keeping(Indices(f), {i \in 2 .. Len(f) : f[i].t > f[i - 1].t})
      area(i) == ((f[i].v + f[i - 1].v) * (f[i].t - f[i - 1].t)) \div 2
      acc[k \in 0 .. Len(at)] == IF k = 0 THEN 0 ELSE acc[k - 1] + area(at[k])
  IN IF Len(f) < 2 THEN <<>>
     ELSE <<Pt(f[1].t, 0)>> \o [k \in DOMAIN at |-> Pt(f[at[k]].t, acc[k])]

AbsValue(s) ==
  [i \in DOMAIN Finite(s) |->
     LET p == Finite(s)[i] IN Pt(p.t, IF p.v < 0 THEN -p.v ELSE p.v)]

ScaleOffset(s, scale, offset) ==
  [i \in DOMAIN Finite(s) |-> Pt(Finite(s)[i].t, scale * Finite(s)[i].v + offset)]

\* The quotient of integers of any sign, rounded down.
Quotient(l, r) == IF r > 0 THEN l \div r ELSE (-l) \div (-r)

ApplyBinaryOp(l, r, op) ==
  CASE op = "add" -> l + r
    [] op = "subtract" -> l - r
    [] op = "multiply" -> l * r
    [] op = "divide" -> IF r = 0 THEN NaN ELSE Quotient(l, r)

\* How far the sweep's cursor stands when it passed every time up to t.
Passed(s, from, t) ==
  LET later == {i \in from + 1 .. Len(s) : s[i].t > t}
  IN IF later = {} THEN Len(s) ELSE Min(later) - 1

Cursor(s, times) ==
  LET at[k \in 0 .. Len(times)] == IF k = 0 THEN 0 ELSE Passed(s, at[k - 1], times[k])
  IN at

\* One sweep over the times of both sides: each holds the last value it passed.
BinaryOp(left, right, op) ==
  LET l == Finite(left)
      r == Finite(right)
      times == Ascending(Stamps(l) \cup Stamps(r))
      lc == Cursor(l, times)
      rc == Cursor(r, times)
      both == Keeping(Indices(times), {k \in DOMAIN times : lc[k] > 0 /\ rc[k] > 0})
  IN Finite([i \in DOMAIN both |->
       Pt(times[both[i]], ApplyBinaryOp(l[lc[both[i]]].v, r[rc[both[i]]].v, op))])

SourceCount(kind) == IF kind = "binary-op" THEN 2 ELSE 1

\* One derived channel from the series known by key; none if a source is absent.
ComputeDerived(def, known) ==
  LET left == known[def.src[1]]
      right == known[def.src[2]]
  IN IF \E n \in 1 .. SourceCount(def.kind) : def.src[n] \notin DOMAIN known THEN <<>>
     ELSE CASE def.kind = "moving-average" -> MovingAverage(left, IF def.window >= 1 THEN def.window ELSE 1)
            [] def.kind = "derivative" -> Derivative(left)
            [] def.kind = "integral" -> Integral(left)
            [] def.kind = "abs" -> AbsValue(left)
            [] def.kind = "scale-offset" -> ScaleOffset(left, def.scale, def.offset)
            [] def.kind = "binary-op" -> BinaryOp(left, right, def.op)

DerivedKey(id) == [derived |-> TRUE, name |-> id]

\* The channel of a definition joins the series known, or takes the place of another.
WithDerived(known, def) ==
  [k \in DOMAIN known \cup {DerivedKey(def.id)} |->
     IF k = DerivedKey(def.id) THEN ComputeDerived(def, known) ELSE known[k]]

\* In the order of the definitions, each of which may use the ones before it.
BuildDerived(known, defs) ==
  LET built[i \in 0 .. Len(defs)] ==
        IF i = 0 THEN known ELSE WithDerived(built[i - 1], defs[i])
  IN built[Len(defs)]

\* The columns over the union of the times; a series has its last value of a time.
Aligned(columns) ==
  LET used == Keeping(columns, ToSet(columns) \ {<<>>})
      times == Ascending(UNION {Stamps(used[i]) : i \in DOMAIN used})
      cell(s, t) == LET at == {i \in DOMAIN s : s[i].t = t}
                    IN IF at = {} THEN NaN ELSE s[Max(at)].v
  IN [times |-> times,
      values |-> [i \in DOMAIN used |-> [k \in DOMAIN times |-> cell(used[i], times[k])]]]

\* A row a time: the seconds since the start and a cell a series, blank for NaN.
CsvRows(columns, start) ==
  LET a == Aligned(columns)
  IN [k \in DOMAIN a.times |->
        [time |-> a.times[k] - start, cells |-> [i \in DOMAIN a.values |-> a.values[i][k]]]]

\* Math.round(i * (n - 1) / (target - 1)) picks the points.
EvenlySample(s, target) ==
  LET gaps == IF target > 1 THEN target - 1 ELSE 1
      at(i) == (2 * i * (Len(s) - 1) + gaps) \div (2 * gaps)
  IN IF Len(s) <= target THEN s ELSE [i \in 1 .. target |-> s[at(i - 1) + 1]]

\* The lowest and the highest point of each bucket, in the order of their times.
Downsample(s, target) ==
  LET first == s[1].t
      span == s[Len(s)].t - first
      count == target \div 2
      bucket(p) == LET b == ((p.t - first) * count) \div span
                   IN IF b < 0 THEN 0 ELSE IF b >= count THEN count - 1 ELSE b
      lowest(q)  == q[Min({i \in DOMAIN q : \A j \in DOMAIN q : q[i].v <= q[j].v})]
      highest(q) == q[Min({i \in DOMAIN q : \A j \in DOMAIN q : q[i].v >= q[j].v})]
      kept(q) ==
        CASE q = <<>> -> <<>>
          [] q # <<>> /\ lowest(q).t = highest(q).t -> <<lowest(q)>>
          [] q # <<>> /\ lowest(q).t < highest(q).t -> <<lowest(q), highest(q)>>
          [] q # <<>> /\ lowest(q).t > highest(q).t -> <<highest(q), lowest(q)>>
      all == FlattenSeq([b \in 1 .. count |-> kept(Keeping(s, {p \in ToSet(s) : bucket(p) = b - 1}))])
  IN CASE s = <<>> \/ target = 0 -> <<>>
       [] s # <<>> /\ target > 0 /\ Len(s) <= target -> s
       [] target > 0 /\ Len(s) > target /\ (target < 3 \/ span <= 0) -> EvenlySample(s, target)
       [] target >= 3 /\ Len(s) > target /\ span > 0 -> SubSeq(all, 1, IF Len(all) < target THEN Len(all) ELSE target)

\* The bisection for the first point that is not before now.
LowerBound(s, now) ==
  LET find[lo \in DOMAIN s, hi \in DOMAIN s] ==
        LET mid == (lo + hi) \div 2
        IN IF lo >= hi THEN lo
           ELSE IF s[mid].t < now THEN find[mid + 1, hi] ELSE find[lo, mid]
  IN find[1, Len(s)]

Apart(a, b) == IF a < b THEN b - a ELSE a - b

\* The value shown as "now": of that point or the one before it, the nearer.
NearestValue(s, now) ==
  LET right == LowerBound(s, now)
      left == IF right > 1 THEN right - 1 ELSE right
  IN IF s = <<>> THEN NaN
     ELSE IF Apart(s[left].t, now) <= Apart(s[right].t, now) THEN s[left].v ELSE s[right].v
===============================================================================
