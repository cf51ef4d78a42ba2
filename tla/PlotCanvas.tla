------------------------------ MODULE PlotCanvas ------------------------------
(***************************************************************************)
(* The time axis of a plot (plugins/timeseries/src/panels/PlotCanvas.tsx): *)
(* how a drag, the wheel and a double click become the range the panel     *)
(* keeps, and the range the panel keeps becomes the scale of the plot.     *)
(*                                                                         *)
(* Times are ticks since the start of the session, and spans are even, so  *)
(* that centring is exact.  Null is the range of the whole session, which  *)
(* the panel keeps as null.  uPlot's drawing, cursor and tooltip are left  *)
(* out.                                                                    *)
(***************************************************************************)
EXTENDS Integers, Sequences

CONSTANTS
  Null,     \* no range: the whole session
  MinSpan,  \* MIN_X_SPAN_SECONDS, in ticks
  MaxAxes   \* MAX_VISIBLE_Y_AXES

ASSUME CanvasAssumption == MinSpan \in Nat \ {0} /\ MinSpan % 2 = 0 /\ MaxAxes \in Nat

Lesser(a, b)  == IF a < b THEN a ELSE b
Greater(a, b) == IF a > b THEN a ELSE b
Clamp(v, lo, hi) == Lesser(hi, Greater(lo, v))
XRange(a, b) == [min |-> a, max |-> b]

FullXRange(span) == XRange(0, Greater(span, 0))

\* Too narrow a range is widened about its centre, and a range that sticks out
\* is pushed back in before it is cut off.  Pushing keeps the width, so that a
\* range at least as wide as the session comes out as all of it.
Widened(lo, hi, least) ==
  IF hi - lo < least THEN XRange((lo + hi - least) \div 2, (lo + hi + least) \div 2)
  ELSE XRange(lo, hi)
PushedRight(r) == IF r.min < 0 THEN XRange(0, r.max - r.min) ELSE r
PushedLeft(r, span) == IF r.max > span THEN XRange(r.min - (r.max - span), span) ELSE r
CutOff(r, span) == XRange(Greater(0, r.min), Lesser(span, r.max))
FullIfWide(r, span) == IF span <= 0 \/ r.max - r.min >= span THEN FullXRange(span) ELSE r

NormalizeXRange(r, span) ==
  FullIfWide(
    CutOff(PushedLeft(PushedRight(
      Widened(Lesser(r.min, r.max), Greater(r.min, r.max), Lesser(span, MinSpan))), span), span),
    span)

NullIfFull(r, span) == IF r = FullXRange(span) THEN Null ELSE r
FullIfNull(r, span) == IF r = Null THEN FullXRange(span) ELSE r

NormalizeControlledXRange(r, span) ==
  IF r = Null THEN Null ELSE NullIfFull(NormalizeXRange(r, span), span)

\* The scale the plot is given for a range of the panel.
PlotScale(r, span) == FullIfNull(NormalizeControlledXRange(r, span), span)

\* The wheel keeps the tick under the pointer in its place and turns the span
\* of the scale into next; with shift it moves the scale by some ticks.
Zoomed(scale, anchor, next) ==
  LET span == scale.max - scale.min
      share == Clamp(anchor - scale.min, 0, span)
  IN XRange(anchor - (next * share) \div span, anchor + (next * (span - share)) \div span)

Panned(scale, by) == XRange(scale.min + by, scale.max + by)

\* Visible series take axes to the left and right in turn; the first few are drawn.
AxisOf(index) ==
  [scale |-> index, side |-> IF index % 2 = 0 THEN "left" ELSE "right", drawn |-> index < MaxAxes]
===============================================================================
