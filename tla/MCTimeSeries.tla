----------------------------- MODULE MCTimeSeries -----------------------------
(* A small instance of TimeSeries for TLC: three recordings, one of two fields; two *)
(* have their origin and bounds in common.                                          *)
EXTENDS TimeSeries

MCRecordings == {"run", "again", "other"}
MCFieldsOf == [run |-> {1, 2}, again |-> {1}, other |-> {1}]
MCPreferred == <<2>>
MCSpanOf == [run |-> 8, again |-> 8, other |-> 4]
Mcap(start) == [source |-> "mcap", start |-> start]
MCOriginOf == [run |-> Mcap(0), again |-> Mcap(0), other |-> Mcap(6)]
MCPointsOf ==
  [run |-> <<<<Pt(0, 12), Pt(1, -24), Pt(2, 36), Pt(4, 0), Pt(5, 12), Pt(6, 24), Pt(8, -12)>>,
             <<Pt(1, 12), Pt(3, 24), Pt(4, 48)>>>>,
   again |-> <<<<Pt(1, 24), Pt(3, 36), Pt(8, 0)>>>>,
   other |-> <<<<Pt(0, 24), Pt(3, 12)>>>>]
MCColors == <<1, 2, 3>>

Def(kind, src) == [kind |-> kind, src |-> src, window |-> 2, op |-> "subtract", scale |-> -2, offset |-> 1]
MCNewDerived ==
  {Def("moving-average", <<SeriesKey(1)>>), Def("abs", <<DerivedKey(<<1>>)>>),
   Def("binary-op", <<SeriesKey(2), DerivedKey(<<1>>)>>), Def("scale-offset", <<SeriesKey(2)>>),
   Def("derivative", <<SeriesKey(1)>>), Def("integral", <<SeriesKey(1)>>)}

MCDrags == {<<2, 4>>}
MCTurns == {<<0, 4>>, <<4, 16>>}

MCInitialUrls ==
  {NoParam, BadParam,
   [s |-> <<<<SeriesKey(1), 0, 2>>>>,
    d |-> <<[i |-> <<2>>, k |-> "abs", s |-> <<DerivedKey(<<1>>)>>, w |-> 1, o |-> "add",
             sc |-> 1, of |-> 0, c |-> 3, v |-> 1]>>]}

\* All series of up to three points at times 0 .. 2 that the engines can answer.
Small == UNION {{s \in [1 .. n -> Points(0 .. 2, {-12, 0, 24})] :
                   \A i \in 1 .. n - 1 : s[i].t <= s[i + 1].t} : n \in 0 .. 3}

\* The bisection finds what a search of all points finds: a nearest point.
ASSUME NearestAgrees ==
  \A s \in Small, now \in 0 .. 3 :
    IF s = <<>> THEN NearestValue(s, now) = NaN
    ELSE \E i \in DOMAIN s : /\ NearestValue(s, now) = s[i].v
                             /\ \A j \in DOMAIN s : Apart(s[i].t, now) <= Apart(s[j].t, now)

\* An integral's last value is the area under the finite points; a derivative
\* times its step gives the change of the value back.
ASSUME CalculusAgrees ==
  \A s \in Small :
    LET f == Finite(s)
        area(i) == ((f[i].v + f[i + 1].v) * (f[i + 1].t - f[i].t)) \div 2
    IN /\ Len(f) >= 2 => Last(Integral(s)).v = MapThenSumSet(area, 1 .. Len(f) - 1)
       /\ \A d \in ToSet(Derivative(s)) : \E i \in 2 .. Len(f) :
            d = Pt(f[i].t, d.v) /\ d.v * (f[i].t - f[i - 1].t) = f[i].v - f[i - 1].v

\* Within the wheel's and the drags' reach a range stays a part of the session,
\* as wide as asked for where there is room, and normalising it again changes
\* nothing.
ASSUME RangesAgree ==
  \A a \in -4 .. 12, w \in {0, 2, 4, 8, 10}, span \in {0, 2, 8} :
    LET n == NormalizeXRange(XRange(a, a + w), span)
    IN /\ 0 <= n.min /\ n.min <= n.max /\ n.max <= span
       /\ n.max - n.min = Lesser(span, Greater(w, MinSpan))
       /\ NormalizeXRange(n, span) = n
===============================================================================
