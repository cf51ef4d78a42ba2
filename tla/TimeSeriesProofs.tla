--------------------------- MODULE TimeSeriesProofs ---------------------------
(***************************************************************************)
(* Proofs about the range of the plots, what they show, the numbers of the *)
(* series and what the page's url keeps, for any session, gesture, minimal *)
(* span, palette and form.                                                 *)
(*                                                                         *)
(* Three copies of the range are kept apart: the column's, the plot's      *)
(* scale and the one the queries are asked for.  They agree because to     *)
(* normalise a range that was normalised changes nothing, so that no       *)
(* effect hands on another range than it was given.                        *)
(*                                                                         *)
(* The queries lag behind the range: FetchInv says what each of them is    *)
(* for while the debounce timer runs, a query is in flight, or neither.    *)
(*                                                                         *)
(* The page and its url: PageInv says that the url is written from what    *)
(* the page holds and that definitions are numbered in their order, below  *)
(* the number given next; so reading the url gives the page back.          *)
(*                                                                         *)
(* The numbers: each kind of channel is a sweep, of which a loop invariant *)
(* says what it holds after so many points; decimation keeps the ends of   *)
(* each bucket and so those of the window.  A channel is built from those  *)
(* before it, which later ones do not change: it means what its kind says  *)
(* of the series it is shown with.                                         *)
(***************************************************************************)
EXTENDS TimeSeries, TimeIndexProofs, FiniteSetTheorems

Ranges   == [min : Int, max : Int]
Sessions == [rec : Recordings, span : Nat]

\* A part of the session that is not too narrow, or all of it.
Proper(r, span) ==
  /\ r \in Ranges
  /\ 0 <= r.min /\ r.min <= r.max /\ r.max <= span
  /\ r.max - r.min >= Lesser(span, MinSpan)

IInv ==
  /\ session \in Sessions \cup {Null}
  /\ xRange \in Ranges \cup {Null} /\ scale \in Ranges \cup {Null}
  /\ PlotShowsRange

-----------------------------------------------------------------------------
(* The arithmetic of ranges.                                               *)

\* Widening makes a range exactly as wide as it must be, whatever the rounding.
LEMMA WidenedIsWide ==
  ASSUME NEW lo \in Int, NEW hi \in Int, NEW least \in Nat, lo <= hi
  PROVE  /\ Widened(lo, hi, least) \in Ranges
         /\ Widened(lo, hi, least).min <= Widened(lo, hi, least).max
         /\ Widened(lo, hi, least).max - Widened(lo, hi, least).min >= least
         /\ hi - lo >= least => Widened(lo, hi, least) = XRange(lo, hi)
<1> DEFINE d == lo + hi - least
<1>1. d \in Int /\ lo + hi + least = d + 2 * least
  OBVIOUS
<1> HIDE DEF d
<1>2. (d + 2 * least) \div 2 = (d \div 2) + least /\ d \div 2 \in Int
  BY <1>1
<1>3. CASE hi - lo < least
  <2>1. Widened(lo, hi, least) = [min |-> d \div 2, max |-> (d \div 2) + least]
    BY <1>1, <1>2, <1>3 DEF Widened, XRange, d
  <2> QED
    BY <1>2, <1>3, <2>1 DEF Ranges
<1>4. CASE ~ hi - lo < least
  BY <1>4 DEF Widened, XRange, Ranges
<1> QED
  BY <1>3, <1>4

\* What lies on the line is pushed into the session without losing width, but for
\* what does not fit into it.
LEMMA NormalizedIsProper ==
  ASSUME NEW r \in Ranges, NEW span \in Nat
  PROVE  Proper(NormalizeXRange(r, span), span)
<1> DEFINE lo == Lesser(r.min, r.max)
           hi == Greater(r.min, r.max)
           least == Lesser(span, MinSpan)
           a == Widened(lo, hi, least)
           b == PushedRight(a)
           c == PushedLeft(b, span)
           d == CutOff(c, span)
<1>1. MinSpan \in Nat /\ least \in Nat /\ least <= span
  BY CanvasAssumption DEF Lesser
<1>2. lo \in Int /\ hi \in Int /\ lo <= hi
  BY DEF Lesser, Greater, Ranges
<1>3. a \in Ranges /\ a.min <= a.max /\ a.max - a.min >= least
  BY <1>1, <1>2, WidenedIsWide
<1> HIDE DEF a
<1>4. b \in Ranges /\ b.min <= b.max /\ b.max - b.min >= least /\ 0 <= b.min
  BY <1>3 DEF PushedRight, XRange, Ranges
<1> HIDE DEF b
<1>5. /\ c \in Ranges /\ c.min <= c.max /\ c.max - c.min >= least
      /\ c.max <= span /\ (0 <= c.min \/ c.max = span)
      /\ 0 <= c.max
  BY <1>4 DEF PushedLeft, XRange, Ranges
<1> HIDE DEF c
<1>6. /\ d \in Ranges /\ 0 <= d.min /\ d.min <= d.max /\ d.max <= span
      /\ d.max - d.min >= least
  <2>1. d = [min |-> IF 0 > c.min THEN 0 ELSE c.min, max |-> IF span < c.max THEN span ELSE c.max]
    BY DEF CutOff, XRange, Greater, Lesser
  <2> QED
    BY <1>1, <1>5, <2>1 DEF Ranges
<1> HIDE DEF d
<1>7. NormalizeXRange(r, span) = FullIfWide(d, span)
  BY DEF NormalizeXRange, d, c, b, a
<1>8. FullXRange(span) = [min |-> 0, max |-> span]
  BY DEF FullXRange, XRange, Greater
<1>9. FullIfWide(d, span) = FullXRange(span) \/ FullIfWide(d, span) = d
  BY DEF FullIfWide
<1>10. Proper(d, span) /\ Proper(FullXRange(span), span)
  BY <1>1, <1>6, <1>8 DEF Proper, Ranges
<1> QED
  BY <1>7, <1>9, <1>10

\* A range that fits is left as it is.
LEMMA ProperIsKept ==
  ASSUME NEW span \in Nat, NEW r, Proper(r, span)
  PROVE  NormalizeXRange(r, span) = r
<1> DEFINE least == Lesser(span, MinSpan)
<1>1. /\ r \in Ranges /\ r = XRange(r.min, r.max) /\ r.min \in Int /\ r.max \in Int
      /\ 0 <= r.min /\ r.min <= r.max /\ r.max <= span /\ r.max - r.min >= least
  BY DEF Proper, Ranges, XRange
<1>2. Lesser(r.min, r.max) = r.min /\ Greater(r.min, r.max) = r.max
  BY <1>1 DEF Lesser, Greater
<1>3. least \in Nat
  BY CanvasAssumption DEF Lesser
<1> HIDE DEF least
<1>4. Widened(r.min, r.max, least) = r
  BY <1>1, <1>3 DEF Widened
<1>5. PushedRight(r) = r /\ PushedLeft(r, span) = r
  BY <1>1 DEF PushedRight, PushedLeft
<1>6. CutOff(r, span) = r
  <2>1. Greater(0, r.min) = r.min /\ Lesser(span, r.max) = r.max
    BY <1>1 DEF Greater, Lesser
  <2> QED
    BY <1>1, <2>1 DEF CutOff
<1>7. FullIfWide(r, span) = r
  <2>1. CASE span <= 0 \/ r.max - r.min >= span
    <3>1. r.min = 0 /\ r.max = span
      BY <1>1, <2>1
    <3> QED
      BY <1>1, <3>1 DEF FullIfWide, FullXRange, Greater
  <2>2. CASE ~ (span <= 0 \/ r.max - r.min >= span)
    BY <2>2 DEF FullIfWide
  <2> QED
    BY <2>1, <2>2
<1> QED
  BY <1>2, <1>4, <1>5, <1>6, <1>7 DEF NormalizeXRange, least

\* Whatever a gesture asks for, its range is a part of the session that is not
\* too narrow, and normalising it again changes nothing: the effects that pass
\* the range between the column and the plot come to rest.
THEOREM NormalizingSettles ==
  ASSUME NEW r \in Ranges, NEW span \in Nat
  PROVE  /\ Proper(NormalizeXRange(r, span), span)
         /\ NormalizeXRange(NormalizeXRange(r, span), span) = NormalizeXRange(r, span)
BY NormalizedIsProper, ProperIsKept

\* The same with Null for the whole session.
LEMMA ControlledSettles ==
  ASSUME NEW x \in Ranges \cup {Null}, NEW span \in Nat
  PROVE  LET n == NormalizeControlledXRange(x, span)
         IN /\ n \in Ranges \cup {Null}
            /\ NormalizeControlledXRange(n, span) = n
            /\ PlotScale(n, span) = IF n = Null THEN FullXRange(span) ELSE n
            /\ PlotScale(n, span) \in Ranges
<1> DEFINE n == NormalizeControlledXRange(x, span)
<1>1. Null \notin Ranges
  BY SeriesAssumption DEF Ranges
<1>2. FullXRange(span) \in Ranges
  BY DEF FullXRange, XRange, Ranges, Greater
<1>3. CASE n = Null
  <2>1. NormalizeControlledXRange(Null, span) = Null
    BY DEF NormalizeControlledXRange
  <2>2. PlotScale(Null, span) = FullXRange(span)
    BY <2>1 DEF PlotScale, FullIfNull
  <2> QED
    BY <1>2, <1>3, <2>1, <2>2
<1>4. CASE n # Null
  <2>1. x \in Ranges
    BY <1>4 DEF NormalizeControlledXRange
  <2>2. x # Null
    BY <1>1, <2>1
  <2>3. n = NormalizeXRange(x, span) /\ n # FullXRange(span)
    BY <1>4, <2>2 DEF NormalizeControlledXRange, NullIfFull
  <2>4. n \in Ranges /\ NormalizeXRange(n, span) = n
    BY <2>1, <2>3, NormalizingSettles DEF Proper
  <2> HIDE DEF n
  <2>5. NormalizeControlledXRange(n, span) = n
    BY <1>4, <2>3, <2>4 DEF NormalizeControlledXRange, NullIfFull
  <2>6. PlotScale(n, span) = n
    BY <1>4, <2>5 DEF PlotScale, FullIfNull
  <2> QED
    BY <1>4, <2>4, <2>5, <2>6 DEF n
<1> QED
  BY <1>3, <1>4

-----------------------------------------------------------------------------
(* The steps.                                                              *)

\* A session and a range that fits it, with the plot at it.
LEMMA FittedInv ==
  ASSUME session' \in Sessions, NEW x \in Ranges \cup {Null},
         xRange' = NormalizeControlledXRange(x, session'.span),
         scale' = ScaleFor(session', xRange')
  PROVE  IInv'
<1>1. session' # Null /\ session'.span \in Nat
  BY SeriesAssumption DEF Sessions
<1>2. PICK s \in Sessions : s = session'
  OBVIOUS
<1>3. PICK n : n = NormalizeControlledXRange(x, s.span)
  OBVIOUS
<1>4. s.span \in Nat /\ s # Null
  BY <1>1, <1>2
<1>5. /\ n \in Ranges \cup {Null} /\ NormalizeControlledXRange(n, s.span) = n
      /\ PlotScale(n, s.span) = (IF n = Null THEN FullXRange(s.span) ELSE n)
      /\ PlotScale(n, s.span) \in Ranges
  BY <1>3, <1>4, ControlledSettles
<1>6. xRange' = n /\ scale' = PlotScale(n, s.span)
  BY <1>2, <1>3, <1>4 DEF ScaleFor
<1> QED
  BY <1>2, <1>4, <1>5, <1>6 DEF IInv, PlotShowsRange

\* Without a session there is no range.
LEMMA EmptyInv == ASSUME session' = Null, xRange' = Null, scale' = Null PROVE IInv'
BY DEF IInv, PlotShowsRange, Sessions

LEMMA SessionInv ==
  ASSUME IInv, NEW s \in Sessions \cup {Null}, SessionBecomes(s)
  PROVE  IInv'
<1>1. session' = s /\ xRange' = RangeAfter(s) /\ scale' = ScaleFor(s, RangeAfter(s))
  BY DEF SessionBecomes, SessionAndPageBecome
<1>2. CASE s = Null
  BY <1>1, <1>2, EmptyInv DEF RangeAfter, ScaleFor
<1>3. CASE s # Null
  <2>1. PICK x \in Ranges \cup {Null} : RangeAfter(s) = NormalizeControlledXRange(x, s.span)
    <3>1. NormalizeControlledXRange(Null, s.span) = Null
      BY DEF NormalizeControlledXRange
    <3> QED
      BY <3>1 DEF RangeAfter, IInv
  <2> QED
    BY <1>1, <1>3, <2>1, FittedInv
<1> QED
  BY <1>2, <1>3

LEMMA RangeInv ==
  ASSUME IInv, session # Null, NEW r \in Ranges \cup {Null}, CommitXRange(r)
  PROVE  IInv'
<1>1. /\ session' = session /\ session \in Sessions
      /\ xRange' = NormalizeControlledXRange(r, session.span)
      /\ scale' = ScaleFor(session, xRange')
  BY DEF CommitXRange, RangeBecomes, IInv
<1> QED
  BY <1>1, FittedInv

LEMMA ElsewhereInv == ASSUME IInv, UNCHANGED <<session, xRange, scale>> PROVE IInv'
BY DEF IInv, PlotShowsRange

LEMMA WheelInv ==
  ASSUME IInv, session # Null, NEW anchor \in Int, NEW next \in Int, Wheel(anchor, next)
  PROVE  IInv'
<1>1. scale \in Ranges
  <2>1. session \in Sessions
    BY DEF IInv
  <2>2. session.span \in Nat
    BY <2>1 DEF Sessions
  <2>3. FullXRange(session.span) \in Ranges
    BY <2>2 DEF FullXRange, XRange, Ranges, Greater
  <2> QED
    BY <2>3 DEF IInv, PlotShowsRange
<1> DEFINE span == scale.max - scale.min
           share == Clamp(anchor - scale.min, 0, span)
<1>2. span \in Nat /\ span > 0
  BY <1>1 DEF Wheel, Ranges
<1> HIDE DEF span
<1>3. share \in Int /\ next * share \in Int /\ next * (span - share) \in Int
  <2>1. scale.min \in Int
    BY <1>1 DEF Ranges
  <2>2. share \in Int
    BY <1>2, <2>1 DEF Clamp, Lesser, Greater
  <2> HIDE DEF share
  <2> QED
    BY <1>2, <2>2
<1> HIDE DEF share
<1>4. (next * share) \div span \in Int /\ (next * (span - share)) \div span \in Int
  BY <1>2, <1>3
<1>5. Zoomed(scale, anchor, next) \in Ranges
  BY <1>4 DEF Zoomed, XRange, Ranges, span, share
<1> QED
  BY <1>5, RangeInv DEF Wheel

LEMMA InitInvariance == Init => IInv
BY DEF Init, IInv, PlotShowsRange

LEMMA NextInvariance == IInv /\ [Next]_vars => IInv'
<1> SUFFICES ASSUME IInv, [Next]_vars PROVE IInv'
  OBVIOUS
<1>1. CASE Reload
  BY <1>1, EmptyInv DEF Reload
<1>2. CASE CloseSession
  BY <1>2, SessionInv DEF CloseSession
<1>3. CASE Grow
  <2>1. [session EXCEPT !.span = @ + 2] \in Sessions
    BY <1>3 DEF IInv, Grow, Sessions
  <2> QED
    BY <1>3, <2>1, SessionInv DEF Grow
<1>4. ASSUME NEW rec \in Recordings, Open(rec) PROVE IInv'
  <2>1. [rec |-> rec, span |-> SpanOf[rec]] \in Sessions
    BY SeriesAssumption DEF Sessions
  <2> QED
    BY <1>4, <2>1, SessionInv DEF Open
<1>5. CASE /\ HasPlot
           /\ \/ DoubleClick
              \/ \E r \in Drags : Drag(r[1], r[2])
              \/ \E w \in Turns : Wheel(w[1], w[2])
              \/ ShiftWheel(MinSpan)
  <2>1. session # Null
    BY <1>5 DEF HasPlot
  <2>2. CASE DoubleClick
    BY <2>1, <2>2, RangeInv DEF DoubleClick
  <2>3. ASSUME NEW r \in Drags, Drag(r[1], r[2]) PROVE IInv'
    <3>1. r[1] \in Int /\ r[2] \in Int
      BY SeriesAssumption
    <3>2. XRange(r[1], r[2]) \in Ranges
      BY <3>1 DEF XRange, Ranges
    <3> QED
      BY <2>1, <2>3, <3>2, RangeInv DEF Drag
  <2>4. ASSUME NEW w \in Turns, Wheel(w[1], w[2]) PROVE IInv'
    <3>1. w[1] \in Int /\ w[2] \in Int
      BY SeriesAssumption
    <3> QED
      BY <2>1, <2>4, <3>1, WheelInv
  <2>5. CASE ShiftWheel(MinSpan)
    <3>1. scale \in Ranges
      <4>1. session \in Sessions /\ session.span \in Nat
        BY <2>1 DEF IInv, Sessions
      <4>2. FullXRange(session.span) \in Ranges
        BY <4>1 DEF FullXRange, XRange, Ranges, Greater
      <4> QED
        BY <2>1, <4>2 DEF IInv, PlotShowsRange
    <3>2. Panned(scale, MinSpan) \in Ranges
      BY <3>1, CanvasAssumption DEF Panned, XRange, Ranges
    <3> QED
      BY <2>1, <2>5, <3>2, RangeInv DEF ShiftWheel
  <2> QED
    BY <1>5, <2>2, <2>3, <2>4, <2>5
<1>6. ASSUME UNCHANGED <<session, xRange, scale>> PROVE IInv'
  BY <1>6, ElsewhereInv
<1>7. CASE TimerFires \/ UNCHANGED vars
  BY <1>6, <1>7 DEF TimerFires, vars
<1>8. ASSUME NEW failed, Answer(failed) PROVE IInv'
  BY <1>6, <1>8 DEF Answer
<1>9. ASSUME NEW r, StaleAnswer(r) PROVE IInv'
  BY <1>6, <1>9 DEF StaleAnswer
<1>10. ASSUME NEW sel, SelectionsBecome(sel) PROVE IInv'
  BY <1>6, <1>10 DEF SelectionsBecome
<1>11. ASSUME NEW defs, DerivedBecomes(defs) PROVE IInv'
  BY <1>6, <1>11 DEF DerivedBecomes
<1>12. ASSUME NEW f, AddSeries(f) PROVE IInv'
  BY <1>10, <1>12 DEF AddSeries
<1>13. ASSUME NEW input, AddDerived(input) PROVE IInv'
  BY <1>11, <1>13 DEF AddDerived
<1>14. ASSUME NEW key, NEW color, NEW flip,
              RemoveSeries(key) \/ Restyle(key, color, flip)
       PROVE  IInv'
  BY <1>10, <1>11, <1>14 DEF RemoveSeries, Restyle
<1>15. ASSUME NEW j, NEW k, Reorder(j, k) PROVE IInv'
  BY <1>10, <1>15 DEF Reorder
<1> QED
  BY <1>1, <1>2, <1>3, <1>4, <1>5, <1>7, <1>8, <1>9, <1>12, <1>13, <1>14, <1>15 DEF Next

\* The column's range is always a proper part of the open session, already
\* normalised, and the plot is at it: neither drags, turns of the wheel, growth
\* nor another recording ever part them.
THEOREM PlotStaysAtRange == Spec => []PlotShowsRange
<1>1. IInv => PlotShowsRange
  BY DEF IInv
<1> QED
  BY <1>1, InitInvariance, NextInvariance, PTL DEF Spec

-----------------------------------------------------------------------------
(* What is fetched and what is on display.                                 *)

Keys(sel, s) == Offered(Signature(sel), s)

\* The hook's state is a record of its six fields.
IsFetch(h) ==
  h = [window |-> h.window, timer |-> h.timer, asked |-> h.asked, loading |-> h.loading,
       shown |-> h.shown, overview |-> h.overview]

\* What is wished for is fetched, or will be once the timer fires.
WishInv(h, s, x) ==
  /\ (s = Null) => h.window = Null /\ h.timer = Null
  /\ (s # Null) => h.window \in Windows /\ h.timer \in Windows \cup {Null}
  /\ (IF h.timer = Null THEN h.window ELSE h.timer) = BuildFetchWindow(s, x)

\* The query in flight is for the window fetched last and the present selection.
AskedInv(h, s, sel) ==
  /\ h.loading = (h.asked # <<>>)
  /\ h.asked # <<>> =>
       /\ s # Null /\ Keys(sel, s) # <<>>
       /\ h.asked = <<[rec |-> s.rec, window |-> h.window, keys |-> Keys(sel, s),
                       signature |-> Signature(sel)]>>

\* A cached overview is kept under its own window.
OverviewInv(h) == h.overview.key.window # Null => h.overview.data.window = h.overview.key.window

\* What is shown when nothing is awaited; an overview just fetched is the cached one.
ShownInv(h, s, sel) ==
  /\ s # Null /\ Keys(sel, s) = <<>> => h.shown = Nothing /\ h.overview = Nothing
  /\ s # Null /\ Keys(sel, s) # <<>> /\ h.asked = <<>> =>
       /\ h.shown.key.window # Null
       /\ h.shown.key.keys = Signature(sel)
       /\ h.shown.data.window \in {h.window, BuildFetchWindow(s, Null)}
       /\ h.shown.data.window = h.window =>
            h.shown.data.rec = s.rec /\ h.shown.data.keys = Keys(sel, s)
       /\ h.window.overview =>
            h.overview.data.rec = s.rec /\ h.overview.data.keys = Keys(sel, s)

FetchInv(h, s, x, sel) ==
  IsFetch(h) /\ WishInv(h, s, x) /\ AskedInv(h, s, sel) /\ OverviewInv(h) /\ ShownInv(h, s, sel)

XRanges == Ranges \cup {Null}

LEMMA WindowType ==
  ASSUME NEW s \in Sessions, NEW x \in XRanges
  PROVE  /\ BuildFetchWindow(s, x) \in Windows /\ BuildFetchWindow(s, x) # Null /\ s # Null
         /\ BuildFetchWindow(s, Null).overview
<1>1. s # Null /\ s.rec \in Recordings /\ s.span \in Nat
  BY SeriesAssumption DEF Sessions
<1>2. OriginOf[s.rec] \in Origins
  BY <1>1 DEF Origins
<1>3. BuildFetchWindow(s, x) \in Windows
  <2>1. CASE x = Null
    BY <1>1, <1>2, <2>1 DEF BuildFetchWindow, Windows
  <2>2. CASE x # Null
    <3>1. x.min \in Int /\ x.max \in Int
      BY <2>2 DEF XRanges, Ranges
    <3>2. /\ Clamp(Lesser(x.min, x.max), 0, s.span) \in Int
          /\ Clamp(Greater(x.min, x.max), 0, s.span) \in Int
      BY <1>1, <3>1 DEF Clamp, Lesser, Greater
    <3> QED
      BY <1>1, <1>2, <2>2, <3>2 DEF BuildFetchWindow, Windows
  <2> QED
    BY <2>1, <2>2
<1> QED
  BY <1>1, <1>3, SeriesAssumption DEF BuildFetchWindow

\* A new wish is fetched at once or armed; what was fetched stays.
LEMMA DebounceWishes ==
  ASSUME NEW h, IsFetch(h), h.window \in Windows \cup {Null}, OverviewInv(h),
         NEW s \in Sessions \cup {Null}, NEW x \in XRanges
  PROVE  /\ IsFetch(Debounce(h, s, x)) /\ WishInv(Debounce(h, s, x), s, x)
         /\ OverviewInv(Debounce(h, s, x))
         /\ Debounce(h, s, x).window \in Windows \cup {Null}
         /\ s # Null /\ h.window # Null =>
              Debounce(h, s, x) = [h EXCEPT !.timer = BuildFetchWindow(s, x)]
<1> DEFINE wish == BuildFetchWindow(s, x)
           d == Debounce(h, s, x)
<1>1. s # Null => wish \in Windows /\ wish # Null
  BY WindowType
<1>2. s = Null => wish = Null
  BY DEF BuildFetchWindow
<1>3. Null \notin Windows
  BY SeriesAssumption
<1>4. CASE wish = Null \/ h.window = Null
  <2>1. d = [h EXCEPT !.window = wish, !.timer = Null]
    BY <1>4 DEF Debounce
  <2>2. d = [window |-> wish, timer |-> Null, asked |-> h.asked, loading |-> h.loading,
             shown |-> h.shown, overview |-> h.overview]
    BY <2>1 DEF IsFetch
  <2> HIDE DEF d, wish
  <2>3. IsFetch(d) /\ OverviewInv(d)
    BY <2>2 DEF IsFetch, OverviewInv
  <2>4. d.window = wish /\ d.timer = Null
    BY <2>2
  <2> QED
    BY <1>1, <1>2, <1>3, <1>4, <2>3, <2>4 DEF WishInv, d, wish
<1>5. CASE wish # Null /\ h.window # Null
  <2>1. d = [h EXCEPT !.timer = wish]
    BY <1>5 DEF Debounce
  <2>2. d = [window |-> h.window, timer |-> wish, asked |-> h.asked, loading |-> h.loading,
             shown |-> h.shown, overview |-> h.overview]
    BY <2>1 DEF IsFetch
  <2> HIDE DEF d, wish
  <2>3. IsFetch(d) /\ OverviewInv(d)
    BY <2>2 DEF IsFetch, OverviewInv
  <2>4. d.window = h.window /\ d.timer = wish
    BY <2>2
  <2> QED
    BY <1>1, <1>2, <1>3, <1>5, <2>1, <2>3, <2>4 DEF WishInv, d, wish
<1> QED
  BY <1>4, <1>5

\* Showing the overview changes nothing else.
LEMMA OverviewKeeps ==
  ASSUME NEW h, IsFetch(h), NEW s, NEW x, NEW sel
  PROVE  LET o == ShowOverview(h, s, x, sel) IN
         /\ IsFetch(o)
         /\ o.window = h.window /\ o.timer = h.timer /\ o.asked = h.asked
         /\ o.loading = h.loading /\ o.overview = h.overview
         /\ \/ o.shown = h.shown
            \/ /\ BuildFetchWindow(s, Null) # Null /\ x = Null
               /\ h.overview.key = RequestKey(BuildFetchWindow(s, Null), sel)
               /\ h.shown.key # h.overview.key
               /\ o.shown = h.overview
<1> DEFINE o == ShowOverview(h, s, x, sel)
<1>1. CASE o = h
  BY <1>1
<1>2. CASE o # h
  <2>1. /\ BuildFetchWindow(s, Null) # Null /\ x = Null
        /\ h.overview.key = RequestKey(BuildFetchWindow(s, Null), sel)
        /\ h.shown.key # h.overview.key
        /\ o = [h EXCEPT !.shown = h.overview]
    BY <1>2 DEF ShowOverview
  <2>2. o = [window |-> h.window, timer |-> h.timer, asked |-> h.asked, loading |-> h.loading,
             shown |-> h.overview, overview |-> h.overview]
    BY <2>1 DEF IsFetch
  <2> HIDE DEF o
  <2> QED
    BY <2>1, <2>2 DEF IsFetch, o
<1> QED
  BY <1>1, <1>2

\* An overview that comes back on display is of the whole session, under its own key.
LEMMA OverviewInvKept ==
  ASSUME NEW h, NEW s \in Sessions \cup {Null}, NEW x \in XRanges, NEW sel,
         FetchInv(h, s, x, sel)
  PROVE  FetchInv(ShowOverview(h, s, x, sel), s, x, sel)
<1> DEFINE o == ShowOverview(h, s, x, sel)
           full == BuildFetchWindow(s, Null)
<1>1. /\ IsFetch(o)
      /\ o.window = h.window /\ o.timer = h.timer /\ o.asked = h.asked
      /\ o.loading = h.loading /\ o.overview = h.overview
      /\ \/ o.shown = h.shown
         \/ /\ full # Null /\ x = Null
            /\ h.overview.key = RequestKey(full, sel)
            /\ h.shown.key # h.overview.key
            /\ o.shown = h.overview
  BY OverviewKeeps DEF FetchInv
<1> HIDE DEF o
<1>2. WishInv(o, s, x) /\ AskedInv(o, s, sel) /\ OverviewInv(o)
  BY <1>1 DEF FetchInv, WishInv, AskedInv, OverviewInv
<1>3. ShownInv(o, s, sel)
  <2>1. CASE o.shown = h.shown
    BY <1>1, <2>1 DEF FetchInv, ShownInv
  <2>2. CASE /\ full # Null /\ x = Null
             /\ h.overview.key = RequestKey(full, sel)
             /\ o.shown = h.overview
    <3> HIDE DEF full
    <3>1. h.overview.key.window = full /\ h.overview.key.keys = Signature(sel)
      BY <2>2 DEF RequestKey
    <3>2. h.overview.data.window = full
      BY <2>2, <3>1 DEF FetchInv, OverviewInv
    <3>3. s # Null => full.overview
      BY WindowType DEF full
    <3>4. ASSUME s # Null, Keys(sel, s) = <<>> PROVE FALSE
      <4>1. h.overview = Nothing
        BY <3>4 DEF FetchInv, ShownInv
      <4> QED
        BY <2>2, <3>1, <4>1 DEF Nothing, RequestKey
    <3>5. ASSUME s # Null, Keys(sel, s) # <<>>, o.asked = <<>>
          PROVE  /\ o.shown.key.window # Null
                 /\ o.shown.key.keys = Signature(sel)
                 /\ o.shown.data.window \in {o.window, full}
                 /\ o.shown.data.window = o.window =>
                      o.shown.data.rec = s.rec /\ o.shown.data.keys = Keys(sel, s)
                 /\ o.window.overview =>
                      o.overview.data.rec = s.rec /\ o.overview.data.keys = Keys(sel, s)
      <4>1. h.window.overview =>
              h.overview.data.rec = s.rec /\ h.overview.data.keys = Keys(sel, s)
        BY <1>1, <3>5 DEF FetchInv, ShownInv
      <4> QED
        BY <1>1, <2>2, <3>1, <3>2, <3>3, <3>5, <4>1
    <3> QED
      BY <3>4, <3>5 DEF ShownInv, full
  <2> QED
    BY <1>1, <2>1, <2>2
<1> QED
  BY <1>1, <1>2, <1>3 DEF FetchInv, o

\* Whatever was shown, asking makes everything fit the selection and the session.
LEMMA AskInv ==
  ASSUME NEW h, NEW s \in Sessions \cup {Null}, NEW x, NEW sel,
         IsFetch(h), WishInv(h, s, x), OverviewInv(h)
  PROVE  FetchInv(Ask(h, s, sel), s, x, sel)
<1> DEFINE a == Ask(h, s, sel)
           keys == Keys(sel, s)
           request == [rec |-> s.rec, window |-> h.window, keys |-> keys, signature |-> Signature(sel)]
<1>1. CASE s = Null \/ keys = <<>>
  <2>1. a = [window |-> h.window, timer |-> h.timer, asked |-> <<>>, loading |-> FALSE,
             shown |-> Nothing, overview |-> Nothing]
    BY <1>1 DEF Ask, IsFetch, Keys
  <2> HIDE DEF a
  <2>2. IsFetch(a) /\ WishInv(a, s, x) /\ AskedInv(a, s, sel)
    BY <2>1 DEF IsFetch, WishInv, AskedInv
  <2>3. OverviewInv(a)
    BY <2>1 DEF OverviewInv, Nothing, RequestKey
  <2>4. ShownInv(a, s, sel)
    BY <1>1, <2>1 DEF ShownInv
  <2> QED
    BY <2>2, <2>3, <2>4 DEF FetchInv, a
<1>2. CASE s # Null /\ keys # <<>>
  <2>1. h.window # Null
    BY <1>2, SeriesAssumption DEF WishInv
  <2>2. a = [window |-> h.window, timer |-> h.timer, asked |-> <<request>>, loading |-> TRUE,
             shown |-> h.shown, overview |-> h.overview]
    BY <1>2, <2>1 DEF Ask, IsFetch, Keys
  <2> HIDE DEF a, request
  <2>3. a.asked = <<request>> /\ <<request>> # <<>> /\ a.window = h.window /\ a.timer = h.timer
    BY <2>2
  <2>4. IsFetch(a) /\ WishInv(a, s, x) /\ OverviewInv(a)
    BY <2>2 DEF IsFetch, WishInv, OverviewInv
  <2>5. AskedInv(a, s, sel)
    BY <1>2, <2>2, <2>3 DEF AskedInv, request
  <2>6. ShownInv(a, s, sel)
    BY <1>2, <2>3 DEF ShownInv
  <2> QED
    BY <2>4, <2>5, <2>6 DEF FetchInv, a
<1> QED
  BY <1>1, <1>2

\* Another range: what was asked for and what is shown stays.
LEMMA DebounceInv ==
  ASSUME NEW h, NEW s \in Sessions \cup {Null}, NEW w \in XRanges, NEW x \in XRanges, NEW sel,
         FetchInv(h, s, w, sel)
  PROVE  FetchInv(Debounce(h, s, x), s, x, sel)
<1> DEFINE d == Debounce(h, s, x)
<1>1. h.window \in Windows \cup {Null} /\ (s # Null => h.window # Null)
  BY SeriesAssumption DEF FetchInv, WishInv
<1>2. IsFetch(d) /\ WishInv(d, s, x) /\ OverviewInv(d)
  BY <1>1, DebounceWishes DEF FetchInv
<1>3. CASE s # Null
  <2>1. d = [h EXCEPT !.timer = BuildFetchWindow(s, x)]
    BY <1>1, <1>3, DebounceWishes DEF FetchInv
  <2>2. d = [window |-> h.window, timer |-> BuildFetchWindow(s, x), asked |-> h.asked,
             loading |-> h.loading, shown |-> h.shown, overview |-> h.overview]
    BY <2>1 DEF FetchInv, IsFetch
  <2> HIDE DEF d
  <2>3. AskedInv(d, s, sel) /\ ShownInv(d, s, sel)
    BY <2>2 DEF FetchInv, AskedInv, ShownInv
  <2> QED
    BY <1>2, <2>3 DEF FetchInv, d
<1>4. CASE s = Null
  <2>1. BuildFetchWindow(s, x) = Null
    BY <1>4 DEF BuildFetchWindow
  <2>2. d = [window |-> Null, timer |-> Null, asked |-> h.asked,
             loading |-> h.loading, shown |-> h.shown, overview |-> h.overview]
    BY <2>1 DEF FetchInv, IsFetch, Debounce
  <2> HIDE DEF d
  <2>3. AskedInv(d, s, sel) /\ ShownInv(d, s, sel)
    BY <1>4, <2>2 DEF FetchInv, AskedInv, ShownInv
  <2> QED
    BY <1>2, <2>3 DEF FetchInv, d
<1> QED
  BY <1>3, <1>4

\* A selection with the same keys is the same to the queries.
LEMMA SameKeys ==
  ASSUME NEW h, NEW s, NEW x, NEW sel, NEW other, Signature(sel) = Signature(other),
         FetchInv(h, s, x, sel)
  PROVE  FetchInv(h, s, x, other)
BY DEF FetchInv, AskedInv, ShownInv, Keys

CurrentInv == FetchInv(fetch, session, xRange, selections)

\* The effects of a session: once with the old range and selection, then with those
\* that fit it.
LEMMA SessionFetches ==
  ASSUME IInv, IInv', CurrentInv, NEW s, SessionBecomes(s)
  PROVE  CurrentInv'
<1> DEFINE x == RangeAfter(s)
           sel == Validate(selections, s)
           d == Debounce(fetch, s, xRange)
           o == ShowOverview(d, s, xRange, selections)
           f == FetchFirst(s)
           e == IF x = xRange THEN f ELSE Debounce(f, s, x)
           g == FetchAgain(f, s, x, sel)
<1>1. /\ session' = s /\ xRange' = x /\ selections' = sel
      /\ fetch' = AskIfOthers(g, s, sel)
  BY DEF SessionBecomes, SessionAndPageBecome, FetchBecomes
<1>2. s \in Sessions \cup {Null} /\ x \in XRanges /\ xRange \in XRanges
  BY <1>1 DEF IInv, XRanges
<1>3. f = Ask(o, s, selections)
  BY DEF FetchFirst
<1>4. g = ShowOverview(e, s, x, sel)
  BY DEF FetchAgain
<1> HIDE DEF x, sel
<1>5. IsFetch(d) /\ WishInv(d, s, xRange) /\ OverviewInv(d)
  <2>1. IsFetch(fetch) /\ OverviewInv(fetch) /\ fetch.window \in Windows \cup {Null}
    BY DEF CurrentInv, FetchInv, WishInv
  <2> QED
    BY <1>2, <2>1, DebounceWishes
<1> HIDE DEF d
<1>6. IsFetch(o) /\ WishInv(o, s, xRange) /\ OverviewInv(o)
  BY <1>5, OverviewKeeps DEF WishInv, OverviewInv
<1> HIDE DEF o
<1>7. FetchInv(f, s, xRange, selections)
  BY <1>2, <1>3, <1>6, AskInv
<1> HIDE DEF f
<1>8. FetchInv(e, s, x, selections)
  BY <1>2, <1>7, DebounceInv
<1> HIDE DEF e, g
<1>9. CASE Signature(sel) = Signature(selections)
  <2>1. FetchInv(e, s, x, sel)
    BY <1>8, <1>9, SameKeys
  <2>2. FetchInv(g, s, x, sel)
    BY <1>2, <1>4, <2>1, OverviewInvKept
  <2> QED
    BY <1>1, <1>9, <2>2 DEF CurrentInv, AskIfOthers
<1>10. CASE Signature(sel) # Signature(selections)
  <2>1. IsFetch(e) /\ WishInv(e, s, x) /\ OverviewInv(e)
    BY <1>8 DEF FetchInv
  <2>2. IsFetch(g) /\ WishInv(g, s, x) /\ OverviewInv(g)
    BY <1>4, <2>1, OverviewKeeps DEF WishInv, OverviewInv
  <2>3. FetchInv(Ask(g, s, sel), s, x, sel)
    BY <1>2, <2>2, AskInv
  <2> QED
    BY <1>1, <1>10, <2>3 DEF CurrentInv, AskIfOthers
<1> QED
  BY <1>9, <1>10

LEMMA RangeFetches ==
  ASSUME IInv, IInv', CurrentInv, NEW x, RangeBecomes(x)
  PROVE  CurrentInv'
<1>1. session' = session /\ selections' = selections /\ xRange' = x
  BY DEF RangeBecomes, pageVars
<1>2. session \in Sessions \cup {Null} /\ x \in XRanges /\ xRange \in XRanges
  BY <1>1 DEF IInv, XRanges
<1>3. CASE x = xRange
  BY <1>1, <1>3 DEF RangeBecomes, CurrentInv
<1>4. CASE x # xRange
  <2>1. fetch' = ShowOverview(Debounce(fetch, session, x), session, x, selections)
    BY <1>4 DEF RangeBecomes, FetchBecomes
  <2>2. FetchInv(Debounce(fetch, session, x), session, x, selections)
    BY <1>2, DebounceInv DEF CurrentInv
  <2>3. FetchInv(fetch', session, x, selections)
    BY <1>2, <2>1, <2>2, OverviewInvKept
  <2> QED
    BY <1>1, <2>3 DEF CurrentInv
<1> QED
  BY <1>3, <1>4

LEMMA SelectionFetches ==
  ASSUME IInv, CurrentInv, NEW sel, SelectionsBecome(sel)
  PROVE  CurrentInv'
<1>1. session' = session /\ selections' = sel /\ xRange' = xRange
  BY DEF SelectionsBecome
<1>2. session \in Sessions \cup {Null} /\ xRange \in XRanges
  BY DEF IInv, XRanges
<1>3. CASE Signature(sel) = Signature(selections)
  <2>1. fetch' = fetch
    BY <1>3 DEF SelectionsBecome
  <2> QED
    BY <1>1, <1>3, <2>1, SameKeys DEF CurrentInv
<1>4. CASE Signature(sel) # Signature(selections)
  <2> DEFINE o == ShowOverview(fetch, session, xRange, sel)
  <2>1. fetch' = Ask(o, session, sel)
    BY <1>4 DEF SelectionsBecome, FetchBecomes
  <2>2. IsFetch(o) /\ WishInv(o, session, xRange) /\ OverviewInv(o)
    BY OverviewKeeps DEF CurrentInv, FetchInv, WishInv, OverviewInv
  <2> HIDE DEF o
  <2>3. FetchInv(fetch', session, xRange, sel)
    BY <1>2, <2>1, <2>2, AskInv
  <2> QED
    BY <1>1, <2>3 DEF CurrentInv
<1> QED
  BY <1>3, <1>4

LEMMA FiredFields ==
  ASSUME NEW f, IsFetch(f)
  PROVE  [f EXCEPT !.timer = Null, !.window = f.timer] =
           [window |-> f.timer, timer |-> Null, asked |-> f.asked,
            loading |-> f.loading, shown |-> f.shown, overview |-> f.overview]
<1> DEFINE g == [f EXCEPT !.timer = Null]
<1>1. g = [window |-> f.window, timer |-> Null, asked |-> f.asked,
           loading |-> f.loading, shown |-> f.shown, overview |-> f.overview]
  BY DEF IsFetch
<1>2. [f EXCEPT !.timer = Null, !.window = f.timer] = [g EXCEPT !.window = f.timer]
  OBVIOUS
<1> HIDE DEF g
<1> QED
  BY <1>1, <1>2

LEMMA TimerFetches ==
  ASSUME IInv, CurrentInv, TimerFires
  PROVE  CurrentInv'
<1> DEFINE h == [fetch EXCEPT !.timer = Null, !.window = fetch.timer]
<1>1. session' = session /\ selections' = selections /\ xRange' = xRange
  BY DEF TimerFires, pageVars
<1>2. session \in Sessions \cup {Null}
  BY DEF IInv
<1>3. /\ session # Null /\ fetch.timer \in Windows
      /\ fetch.timer = BuildFetchWindow(session, xRange)
  BY DEF TimerFires, CurrentInv, FetchInv, WishInv
<1>4. h = [window |-> fetch.timer, timer |-> Null, asked |-> fetch.asked,
           loading |-> fetch.loading, shown |-> fetch.shown, overview |-> fetch.overview]
  <2>1. IsFetch(fetch)
    BY DEF CurrentInv, FetchInv
  <2> QED
    BY <2>1, FiredFields
<1>5. \/ fetch.timer = fetch.window /\ fetch' = h
      \/ fetch' = Ask(h, session, selections)
  BY DEF TimerFires, FetchBecomes
<1> HIDE DEF h
<1>6. IsFetch(h) /\ WishInv(h, session, xRange) /\ OverviewInv(h)
  BY <1>3, <1>4 DEF CurrentInv, FetchInv, IsFetch, WishInv, OverviewInv
<1>7. CASE fetch.timer = fetch.window /\ fetch' = h
  <2>1. AskedInv(h, session, selections) /\ ShownInv(h, session, selections)
    BY <1>4, <1>7 DEF CurrentInv, FetchInv, AskedInv, ShownInv
  <2> QED
    BY <1>1, <1>6, <1>7, <2>1 DEF CurrentInv, FetchInv
<1>8. CASE fetch' = Ask(h, session, selections)
  <2>1. FetchInv(Ask(h, session, selections), session, xRange, selections)
    BY <1>2, <1>6, AskInv
  <2> QED
    BY <1>1, <1>8, <2>1 DEF CurrentInv
<1> QED
  BY <1>5, <1>7, <1>8

LEMMA AnswerFits ==
  ASSUME IInv, CurrentInv, NEW failed, Answer(failed)
  PROVE  CurrentInv'
<1> DEFINE w == fetch.window
           data == [rec |-> session.rec, window |-> w, keys |-> Keys(selections, session),
                    failed |-> failed]
           got == [data |-> data, key |-> [window |-> w, keys |-> Signature(selections)]]
           kept == IF w.overview THEN got ELSE fetch.overview
<1>1. session' = session /\ selections' = selections /\ xRange' = xRange
  BY DEF Answer, pageVars
<1>2. /\ session # Null /\ Keys(selections, session) # <<>>
      /\ fetch.asked = <<[rec |-> session.rec, window |-> w, keys |-> Keys(selections, session),
                          signature |-> Signature(selections)]>>
  BY DEF Answer, CurrentInv, FetchInv, AskedInv
<1>3. w \in Windows /\ w # Null
  BY <1>2, SeriesAssumption DEF CurrentInv, FetchInv, WishInv
<1>4. fetch' = [fetch EXCEPT !.asked = <<>>, !.loading = FALSE, !.shown = got, !.overview = kept]
  <2> DEFINE asked == fetch.asked[1]
  <2>1. /\ asked.rec = session.rec /\ asked.window = w /\ asked.keys = Keys(selections, session)
        /\ asked.signature = Signature(selections)
    BY <1>2
  <2> DEFINE gotten == [data |-> [rec |-> asked.rec, window |-> asked.window, keys |-> asked.keys,
                                  failed |-> failed],
                        key |-> [window |-> asked.window, keys |-> asked.signature]]
  <2>2. fetch' = [fetch EXCEPT !.asked = <<>>, !.loading = FALSE, !.shown = gotten,
                    !.overview = IF asked.window.overview THEN gotten ELSE @]
    BY DEF Answer
  <2> HIDE DEF asked
  <2> QED
    BY <2>1, <2>2
<1>5. fetch' = [window |-> w, timer |-> fetch.timer, asked |-> <<>>, loading |-> FALSE,
                shown |-> got, overview |-> kept]
  BY <1>4 DEF CurrentInv, FetchInv, IsFetch
<1>6. got.key.window = w /\ got.key.keys = Signature(selections) /\ got.data = data
  OBVIOUS
<1>7. data.window = w /\ data.rec = session.rec /\ data.keys = Keys(selections, session)
  OBVIOUS
<1>8. kept = got \/ (kept = fetch.overview /\ ~w.overview)
  OBVIOUS
<1> HIDE DEF w, data, got, kept
<1>9. IsFetch(fetch') /\ WishInv(fetch', session, xRange) /\ AskedInv(fetch', session, selections)
  BY <1>5 DEF CurrentInv, FetchInv, IsFetch, WishInv, AskedInv, w
<1>10. OverviewInv(fetch')
  BY <1>5, <1>6, <1>7, <1>8 DEF CurrentInv, FetchInv, OverviewInv
<1>11. ShownInv(fetch', session, selections)
  BY <1>2, <1>3, <1>5, <1>6, <1>7, <1>8 DEF ShownInv
<1> QED
  BY <1>1, <1>9, <1>10, <1>11 DEF CurrentInv, FetchInv

LEMMA EmptyFetches == ASSUME session' = Null, xRange' = Null, fetch' = NoFetch PROVE CurrentInv'
<1>1. IsFetch(NoFetch) /\ OverviewInv(NoFetch)
  BY DEF NoFetch, IsFetch, OverviewInv, Nothing, RequestKey
<1>2. \A sel : AskedInv(NoFetch, Null, sel) /\ ShownInv(NoFetch, Null, sel)
  BY DEF NoFetch, AskedInv, ShownInv
<1>3. WishInv(NoFetch, Null, Null)
  BY DEF NoFetch, WishInv, BuildFetchWindow
<1> QED
  BY <1>1, <1>2, <1>3 DEF CurrentInv, FetchInv

LEMMA InitCurrent == Init => CurrentInv
<1>1. IsFetch(NoFetch) /\ OverviewInv(NoFetch)
  BY DEF NoFetch, IsFetch, OverviewInv, Nothing, RequestKey
<1>2. \A sel : AskedInv(NoFetch, Null, sel) /\ ShownInv(NoFetch, Null, sel)
  BY DEF NoFetch, AskedInv, ShownInv
<1>3. WishInv(NoFetch, Null, Null)
  BY DEF NoFetch, WishInv, BuildFetchWindow
<1> QED
  BY <1>1, <1>2, <1>3 DEF Init, CurrentInv, FetchInv

LEMMA NextCurrent == IInv /\ IInv' /\ CurrentInv /\ [Next]_vars => CurrentInv'
<1> SUFFICES ASSUME IInv, IInv', CurrentInv, [Next]_vars PROVE CurrentInv'
  OBVIOUS
<1>1. ASSUME UNCHANGED <<session, xRange, selections, fetch>> PROVE CurrentInv'
  BY <1>1 DEF CurrentInv
<1>2. CASE Reload
  BY <1>2, EmptyFetches DEF Reload
<1>3. CASE CloseSession \/ Grow
  BY <1>3, SessionFetches DEF CloseSession, Grow
<1>4. ASSUME NEW rec \in Recordings, Open(rec) PROVE CurrentInv'
  BY <1>4, SessionFetches DEF Open
<1>5. ASSUME NEW r, CommitXRange(r) PROVE CurrentInv'
  BY <1>5, RangeFetches DEF CommitXRange
<1>6. CASE DoubleClick \/ ShiftWheel(MinSpan)
  BY <1>5, <1>6 DEF DoubleClick, ShiftWheel
<1>7. ASSUME NEW a, NEW b, Drag(a, b) \/ Wheel(a, b) PROVE CurrentInv'
  BY <1>5, <1>7 DEF Drag, Wheel
<1>8. ASSUME NEW sel, SelectionsBecome(sel) PROVE CurrentInv'
  BY <1>8, SelectionFetches
<1>9. ASSUME NEW defs, DerivedBecomes(defs) PROVE CurrentInv'
  BY <1>1, <1>9 DEF DerivedBecomes
<1>10. ASSUME NEW field, AddSeries(field) PROVE CurrentInv'
  BY <1>8, <1>10 DEF AddSeries
<1>11. ASSUME NEW input, AddDerived(input) PROVE CurrentInv'
  BY <1>9, <1>11 DEF AddDerived
<1>12. ASSUME NEW key, NEW color, NEW flip, RemoveSeries(key) \/ Restyle(key, color, flip)
       PROVE  CurrentInv'
  BY <1>8, <1>9, <1>12 DEF RemoveSeries, Restyle
<1>13. ASSUME NEW j, NEW k, Reorder(j, k) PROVE CurrentInv'
  BY <1>8, <1>13 DEF Reorder
<1>14. CASE TimerFires
  BY <1>14, TimerFetches
<1>15. ASSUME NEW failed, Answer(failed) PROVE CurrentInv'
  BY <1>15, AnswerFits
<1>16. ASSUME NEW r, StaleAnswer(r) PROVE CurrentInv'
  BY <1>1, <1>16 DEF StaleAnswer, pageVars
<1>17. CASE UNCHANGED vars
  BY <1>1, <1>17 DEF vars, pageVars
<1> QED
  BY <1>2, <1>3, <1>4, <1>6, <1>7, <1>10, <1>11, <1>12, <1>13, <1>14, <1>15, <1>16, <1>17
  DEF Next

\* Once the debounce and the queries are over the panel shows what was asked for
\* last: data of the open recording and the selected fields for the range the plot
\* is at, or else, zoomed, an overview; in whatever order recordings, ranges and
\* selections changed and answers came.
THEOREM PanelSettles == Spec => []SettledShowsCurrent
<1>1. IInv /\ CurrentInv => SettledShowsCurrent
  <2> SUFFICES ASSUME IInv, CurrentInv, Settled
               PROVE  /\ ~fetch.loading
                      /\ fetch.window = BuildFetchWindow(session, xRange)
                      /\ IF Fetchable = <<>> THEN fetch.shown = Nothing
                         ELSE /\ fetch.shown # Nothing
                              /\ fetch.shown.key.keys = Signature(selections)
                              /\ IF fetch.shown.data.window = fetch.window
                                   THEN /\ fetch.shown.data.rec = session.rec
                                        /\ fetch.shown.data.keys = Fetchable
                                   ELSE /\ xRange # Null
                                        /\ fetch.shown.data.window = BuildFetchWindow(session, Null)
    BY DEF SettledShowsCurrent
  <2>1. session # Null /\ fetch.timer = Null /\ fetch.asked = <<>>
    BY DEF Settled
  <2>2. ~fetch.loading /\ fetch.window = BuildFetchWindow(session, xRange)
    BY <2>1 DEF CurrentInv, FetchInv, AskedInv, WishInv
  <2>3. Fetchable = Keys(selections, session)
    BY DEF Fetchable, Keys
  <2>4. CASE Fetchable = <<>>
    BY <2>1, <2>2, <2>3, <2>4 DEF CurrentInv, FetchInv, ShownInv
  <2>5. CASE Fetchable # <<>>
    <3>1. /\ fetch.shown.key.window # Null
          /\ fetch.shown.key.keys = Signature(selections)
          /\ fetch.shown.data.window \in {fetch.window, BuildFetchWindow(session, Null)}
          /\ fetch.shown.data.window = fetch.window =>
               fetch.shown.data.rec = session.rec /\ fetch.shown.data.keys = Fetchable
      BY <2>1, <2>3, <2>5 DEF CurrentInv, FetchInv, ShownInv
    <3>2. fetch.shown # Nothing
      BY <3>1 DEF Nothing, RequestKey
    <3> QED
      BY <2>2, <2>5, <3>1, <3>2
  <2> QED
    BY <2>2, <2>4, <2>5
<1>2. Init => IInv /\ CurrentInv
  BY InitInvariance, InitCurrent
<1>3. IInv /\ CurrentInv /\ [Next]_vars => (IInv /\ CurrentInv)'
  BY NextInvariance, NextCurrent
<1> QED
  BY <1>1, <1>2, <1>3, PTL DEF Spec

-----------------------------------------------------------------------------
(* The page holds what has the form of its url, and definitions are numbered in *)
(* their order: ids below the one given next, sources before their channels.    *)

PageInv ==
  /\ selections \in Seq(Selections) /\ derived \in Seq(Definitions)
  /\ nextId \in Nat /\ restored \in BOOLEAN
  /\ Numbered(derived)
  /\ \A i \in DOMAIN derived : Last(derived[i].id) < nextId
  /\ url = Encode(selections, derived)

\* A colour is taken from the list, free or not.
LEMMA NextColorListed ==
  ASSUME NEW T, NEW used \in Seq(T)
  PROVE  NextColor(used) \in ToSet(Colors)
<1> DEFINE wanted == ToSet(Colors) \ ToSet(used)
           n == Len(Colors)
<1>1. PICK free : free = Keeping(Colors, wanted)
  OBVIOUS
<1>2. Colors \in Seq(ToSet(Colors)) /\ n \in Nat /\ n > 1 /\ DOMAIN Colors = 1 .. n
  BY PageAssumption
<1>3. free \in Seq(ToSet(Colors))
  BY <1>1, <1>2, KeepingSifts
<1>4. free # <<>> => free[1] \in ToSet(Colors)
  BY <1>3
<1>5. Colors[(Len(used) % n) + 1] \in ToSet(Colors)
  <2>1. Len(used) \in Nat
    OBVIOUS
  <2>2. (Len(used) % n) + 1 \in 1 .. n
    BY <1>2, <2>1
  <2> QED
    BY <1>2, <2>2 DEF ToSet
<1>6. NextColor(used) = IF free # <<>> THEN free[1] ELSE Colors[(Len(used) % n) + 1]
  BY <1>1 DEF NextColor
<1> QED
  BY <1>4, <1>5, <1>6

LEMMA LeastOf ==
  ASSUME NEW S, S \subseteq Nat, S # {}
  PROVE  Min(S) \in S
BY LeastNatural DEF Min

\* The field taken without being asked for is one that the session offers.
LEMMA DefaultOffered ==
  ASSUME NEW s \in Sessions \cup {Null}, Fields(s) # {}
  PROVE  DefaultField(s) \in Fields(s)
<1> DEFINE liked == {i \in DOMAIN Preferred : Preferred[i] \in Fields(s)}
<1>1. liked \subseteq Nat /\ Fields(s) \subseteq Nat
  BY PageAssumption DEF Fields, Sessions
<1>2. CASE liked # {}
  <2>1. Min(liked) \in liked
    BY <1>1, <1>2, LeastOf
  <2> QED
    BY <1>2, <2>1 DEF DefaultField
<1>3. CASE liked = {}
  <2>1. Min(Fields(s)) \in Fields(s)
    BY <1>1, LeastOf
  <2> QED
    BY <1>3, <2>1 DEF DefaultField
<1> QED
  BY <1>2, <1>3

LEMMA KeysTyped ==
  ASSUME NEW s \in Sessions \cup {Null}
  PROVE  CandidateKeys(s) \subseteq SeriesKeys
<1>1. Fields(s) \subseteq Nat
  BY PageAssumption DEF Fields, Sessions
<1>2. ASSUME NEW f \in Nat PROVE SeriesKey(f) \in SeriesKeys
  BY DEF SeriesKey, SeriesKeys
<1> QED
  BY <1>1, <1>2 DEF CandidateKeys

LEMMA ValidTyped ==
  ASSUME NEW s \in Sessions \cup {Null}, NEW sel \in Seq(Selections)
  PROVE  Validate(sel, s) \in Seq(Selections)
<1> DEFINE wanted == {x \in ToSet(sel) : x.key \in CandidateKeys(s)}
           default == [key |-> SeriesKey(DefaultField(s)), color |-> Colors[1], visible |-> TRUE]
<1>1. PICK valid : valid = Keeping(sel, wanted)
  OBVIOUS
<1>2. valid \in Seq(Selections)
  <2> HIDE DEF wanted
  <2> QED
    BY <1>1, KeepingSifts
<1>3. Fields(s) # {} => default \in Selections
  <2>1. Colors[1] \in ToSet(Colors)
    BY PageAssumption DEF ToSet
  <2>2. Fields(s) # {} => SeriesKey(DefaultField(s)) \in SeriesKeys
    BY DefaultOffered, KeysTyped DEF CandidateKeys
  <2> QED
    BY <2>1, <2>2 DEF Selections
<1>4. Validate(sel, s) \in {sel, valid} \/ (Fields(s) # {} /\ Validate(sel, s) = <<default>>)
  BY <1>1 DEF Validate
<1> HIDE DEF default
<1>5. CASE Validate(sel, s) \in {sel, valid}
  BY <1>2, <1>5
<1>6. CASE Fields(s) # {} /\ Validate(sel, s) = <<default>>
  <2>1. default \in Selections
    BY <1>3, <1>6
  <2>2. <<default>> \in Seq(Selections)
    BY <2>1
  <2> QED
    BY <1>6, <2>2
<1> QED
  BY <1>4, <1>5, <1>6

-----------------------------------------------------------------------------
(* The url. *)

\* Items that are made of those of a sequence make one.
LEMMA MadeSeq ==
  ASSUME NEW S, NEW s \in Seq(S), NEW T, NEW f,
         f = [i \in DOMAIN s |-> f[i]], \A i \in DOMAIN s : f[i] \in T
  PROVE  f \in Seq(T) /\ DOMAIN f = DOMAIN s /\ Len(f) = Len(s)
<1>1. Len(s) \in Nat /\ DOMAIN s = 1 .. Len(s)
  OBVIOUS
<1>2. f \in [1 .. Len(s) -> T]
  BY <1>1
<1> QED
  BY <1>1, <1>2

\* What a definition is when it was read.
LEMMA ReadDefinition ==
  ASSUME NEW c, c \in CompactDefs
  PROVE  DecodeDerived(c) \in Definitions
<1>1. (c.v = 1) \in BOOLEAN
  OBVIOUS
<1> QED
  BY <1>1 DEF DecodeDerived, Definitions, CompactDefs

\* What is written can be read, and says what it was written for.
LEMMA LinkReadsBack ==
  ASSUME NEW sel \in Seq(Selections), NEW defs \in Seq(Definitions), Numbered(defs)
  PROVE  LET u == Encode(sel, defs)
         IN /\ DecodeSelections(u) = sel /\ DecodeDefs(u) = defs
            /\ u \in Links \cup {NoParam}
<1>1. CASE sel = <<>> /\ defs = <<>>
  <2>1. Encode(sel, defs) = NoParam
    BY <1>1 DEF Encode
  <2>2. ~ Readable(NoParam)
    BY DEF Readable
  <2> QED
    BY <1>1, <2>1, <2>2 DEF DecodeSelections, DecodeDefs
<1>2. CASE ~ (sel = <<>> /\ defs = <<>>)
  <2> DEFINE us == [i \in DOMAIN sel |-> CompactSelection(sel[i])]
             ud == [i \in DOMAIN defs |-> CompactDerived(defs[i])]
             u  == [s |-> us, d |-> ud]
  <2>1. Encode(sel, defs) = u
    BY <1>2 DEF Encode
  <2>2. ASSUME NEW i \in DOMAIN sel
        PROVE  /\ us[i] \in CompactSelections
               /\ Len(us[i]) = 3
               /\ sel[i] = [key |-> us[i][1], visible |-> us[i][2] = 1, color |-> us[i][3]]
    <3>1. PICK x \in Selections : x = sel[i]
      OBVIOUS
    <3>2. x.visible \in BOOLEAN /\ x.key \in SeriesKeys /\ x.color \in ToSet(Colors)
          /\ x = [key |-> x.key, visible |-> x.visible, color |-> x.color]
      BY DEF Selections
    <3>3. us[i] = <<x.key, IF x.visible THEN 1 ELSE 0, x.color>>
      BY <3>1 DEF CompactSelection
    <3>4. ((IF x.visible THEN 1 ELSE 0) = 1) = x.visible
      BY <3>2
    <3> QED
      BY <3>1, <3>2, <3>3, <3>4 DEF CompactSelections
  <2>3. ASSUME NEW i \in DOMAIN defs
        PROVE  /\ ud[i] \in CompactDefs
               /\ Len(ud[i].s) = SourceCount(ud[i].k) /\ ud[i].v \in {0, 1}
               /\ DecodeDerived(ud[i]) = defs[i]
    <3>1. PICK x \in Definitions : x = defs[i]
      OBVIOUS
    <3>2. /\ x.src \in Sources /\ Len(x.src) = SourceCount(x.kind)
          /\ x.visible \in BOOLEAN
          /\ x = [id |-> x.id, kind |-> x.kind, src |-> x.src, window |-> x.window, op |-> x.op,
                  scale |-> x.scale, offset |-> x.offset, color |-> x.color, visible |-> x.visible]
      BY <3>1 DEF Definitions, Numbered
    <3>3. SubSeq(x.src, 1, SourceCount(x.kind)) = x.src
      BY <3>2, SubSeqFull DEF Sources
    <3>4. ud[i] = [i |-> x.id, k |-> x.kind, s |-> x.src, w |-> x.window, o |-> x.op,
                   sc |-> x.scale, of |-> x.offset, c |-> x.color, v |-> IF x.visible THEN 1 ELSE 0]
      BY <3>1, <3>3 DEF CompactDerived
    <3>5. ((IF x.visible THEN 1 ELSE 0) = 1) = x.visible
      BY <3>2
    <3>6. DecodeDerived(ud[i]) = x
      BY <3>2, <3>4, <3>5 DEF DecodeDerived
    <3> QED
      BY <3>1, <3>2, <3>4, <3>6 DEF Definitions, CompactDefs
  <2>4. us = [i \in DOMAIN sel |-> us[i]] /\ ud = [i \in DOMAIN defs |-> ud[i]]
    OBVIOUS
  <2> HIDE DEF us, ud
  <2>5. us \in Seq(CompactSelections) /\ DOMAIN us = DOMAIN sel
    BY <2>2, <2>4, MadeSeq
  <2>6. /\ ud \in Seq(CompactDefs)
        /\ DOMAIN ud = DOMAIN defs
    BY <2>3, <2>4, MadeSeq
  <2>7. u \in Links /\ u.s = us /\ u.d = ud
    BY <2>5, <2>6 DEF Links
  <2> HIDE DEF u
  <2>8. u \notin {NoParam, BadParam}
    BY <2>7, PageAssumption
  <2>9. ASSUME NEW i \in DOMAIN us PROVE Len(us[i]) = 3 /\ us[i][2] \in {0, 1}
    BY <2>2, <2>5 DEF CompactSelections
  <2>10. ASSUME NEW i \in DOMAIN ud PROVE Len(ud[i].s) = SourceCount(ud[i].k) /\ ud[i].v \in {0, 1}
    BY <2>3, <2>6
  <2>11. Readable(u)
    BY <2>7, <2>8, <2>9, <2>10 DEF Readable
  <2>12. DecodeSelections(u) = sel
    <3>1. DecodeSelections(u) =
            [i \in DOMAIN us |-> [key |-> us[i][1], visible |-> us[i][2] = 1, color |-> us[i][3]]]
      BY <2>7, <2>11 DEF DecodeSelections
    <3>2. DecodeSelections(u) = [i \in DOMAIN sel |-> sel[i]]
      BY <2>2, <2>5, <3>1
    <3> QED
      BY <3>2
  <2>13. DecodeDefs(u) = defs
    <3>1. DecodeDefs(u) = [i \in DOMAIN ud |-> DecodeDerived(ud[i])]
      BY <2>7, <2>11 DEF DecodeDefs
    <3>2. DecodeDefs(u) = [i \in DOMAIN defs |-> defs[i]]
      BY <2>3, <2>6, <3>1
    <3> QED
      BY <3>2
  <2> QED
    BY <2>1, <2>7, <2>12, <2>13
<1> QED
  BY <1>1, <1>2

\* What the page takes from a link it may find in its url.
LEMMA LinkRead ==
  ASSUME NEW u \in InitialUrls
  PROVE  /\ Page(u).sel \in Seq(Selections) /\ Page(u).defs \in Seq(Definitions)
         /\ Numbered(Page(u).defs) /\ Page(u).restored \in BOOLEAN
<1>1. Page(u).sel = DecodeSelections(u) /\ Page(u).defs = DecodeDefs(u) /\ Page(u).restored = Readable(u)
  BY DEF Page
<1>2. Readable(u) \in BOOLEAN
  BY DEF Readable
<1>3. CASE ~ Readable(u)
  BY <1>1, <1>2, <1>3 DEF DecodeSelections, DecodeDefs, Numbered
<1>4. CASE Readable(u)
  <2>1. u \in Links /\ Numbered(DecodeDefs(u))
    BY <1>4, PageAssumption DEF Readable
  <2>2. PICK us \in Seq(CompactSelections), ud \in Seq(CompactDefs) : us = u.s /\ ud = u.d
    BY <2>1 DEF Links
  <2>3. DecodeSelections(u) \in Seq(Selections)
    <3> DEFINE f == [i \in DOMAIN us |-> [key |-> us[i][1], visible |-> us[i][2] = 1, color |-> us[i][3]]]
    <3>1. ASSUME NEW i \in DOMAIN us PROVE f[i] \in Selections
      <4>1. PICK x \in CompactSelections : x = us[i]
        OBVIOUS
      <4>2. [key |-> x[1], visible |-> x[2] = 1, color |-> x[3]] \in Selections
        <5>1. (x[2] = 1) \in BOOLEAN
          OBVIOUS
        <5> QED
          BY <5>1 DEF Selections, CompactSelections
      <4> QED
        BY <4>1, <4>2
    <3>2. f = [i \in DOMAIN us |-> f[i]]
      OBVIOUS
    <3>3. DecodeSelections(u) = f
      BY <1>4, <2>2 DEF DecodeSelections
    <3> HIDE DEF f
    <3>4. f \in Seq(Selections)
      BY <3>1, <3>2, MadeSeq
    <3> QED
      BY <3>3, <3>4
  <2>4. DecodeDefs(u) \in Seq(Definitions)
    <3> DEFINE f == [i \in DOMAIN ud |-> DecodeDerived(ud[i])]
    <3>1. ASSUME NEW i \in DOMAIN ud PROVE f[i] \in Definitions
      <4>1. ud[i] \in CompactDefs
        OBVIOUS
      <4>2. DecodeDerived(ud[i]) \in Definitions
        BY <4>1, ReadDefinition
      <4> QED
        BY <4>2
    <3>2. f = [i \in DOMAIN ud |-> f[i]]
      OBVIOUS
    <3>3. DecodeDefs(u) = f
      BY <1>4, <2>2 DEF DecodeDefs
    <3> HIDE DEF f
    <3>4. f \in Seq(Definitions)
      BY <3>1, <3>2, MadeSeq
    <3> QED
      BY <3>3, <3>4
  <2> QED
    BY <1>1, <1>2, <2>1, <2>3, <2>4
<1> QED
  BY <1>3, <1>4

\* The next number is larger than those of all definitions.
LEMMA NextIdIsNew ==
  ASSUME NEW defs \in Seq(Definitions), Numbered(defs)
  PROVE  /\ NextDerivedId(defs) \in Nat
         /\ \A i \in DOMAIN defs : Last(defs[i].id) < NextDerivedId(defs)
<1> DEFINE suffixes == {Last(defs[i].id) : i \in DOMAIN defs}
           n == Len(defs)
<1>1. n \in Nat /\ DOMAIN defs = 1 .. n
  OBVIOUS
<1>2. ASSUME NEW i \in DOMAIN defs PROVE Last(defs[i].id) \in Nat
  <2>1. PICK d \in Definitions : d = defs[i]
    OBVIOUS
  <2>2. d.id \in Seq(Nat) /\ d.id = <<Last(d.id)>>
    BY <2>1 DEF Definitions, Numbered
  <2>3. PICK k : k = Last(d.id)
    OBVIOUS
  <2>4. <<k>> \in Seq(Nat)
    BY <2>2, <2>3
  <2> QED
    BY <2>1, <2>3, <2>4
<1>3. CASE defs = <<>>
  <2>1. suffixes = {} /\ \A i \in DOMAIN defs : FALSE
    BY <1>3
  <2> QED
    BY <2>1 DEF NextDerivedId
<1>4. CASE defs # <<>>
  <2>1. n \in DOMAIN defs /\ \A i \in DOMAIN defs : i = n \/ i < n
    BY <1>1, <1>4
  <2>2. \A i \in DOMAIN defs : Last(defs[i].id) <= Last(defs[n].id)
    BY <1>2, <2>1 DEF Numbered
  <2>3. \E m \in suffixes : \A k \in suffixes : m >= k
    BY <1>2, <2>1, <2>2
  <2>4. Max(suffixes) \in suffixes /\ \A k \in suffixes : Max(suffixes) >= k
    BY <2>3 DEF Max
  <2>5. NextDerivedId(defs) = Max(suffixes) + 1
    BY <2>1 DEF NextDerivedId
  <2>6. PICK m : m = Max(suffixes)
    OBVIOUS
  <2>7. m \in Nat /\ \A i \in DOMAIN defs : m >= Last(defs[i].id)
    BY <1>2, <2>4, <2>6
  <2> HIDE DEF suffixes
  <2> QED
    BY <1>2, <2>5, <2>6, <2>7
<1> QED
  BY <1>3, <1>4

-----------------------------------------------------------------------------
(* What the user makes of the page. *)

LEMMA SelectionsKept ==
  ASSUME PageInv, NEW sel \in Seq(Selections), SelectionsBecome(sel)
  PROVE  PageInv'
BY DEF PageInv, SelectionsBecome

LEMMA DerivedKept ==
  ASSUME PageInv, NEW defs \in Seq(Definitions), Numbered(defs), DerivedBecomes(defs),
         nextId' \in Nat, \A i \in DOMAIN defs : Last(defs[i].id) < nextId'
  PROVE  PageInv'
BY DEF PageInv, DerivedBecomes

LEMMA UsedColors ==
  ASSUME PageInv
  PROVE  NextColor(ColorsOf(selections) \o ColorsOf(derived)) \in ToSet(Colors)
<1> DEFINE T == ToSet(Colors)
           a == ColorsOf(selections)
           b == ColorsOf(derived)
<1>1. selections \in Seq(Selections) /\ derived \in Seq(Definitions)
  BY DEF PageInv
<1>2. a = [i \in DOMAIN selections |-> a[i]] /\ \A i \in DOMAIN selections : a[i] \in T
  <2>1. a = [i \in DOMAIN selections |-> selections[i].color]
    BY DEF ColorsOf
  <2>2. ASSUME NEW i \in DOMAIN selections PROVE selections[i].color \in T
    <3>1. selections[i] \in Selections
      BY <1>1
    <3> QED
      BY <3>1 DEF Selections
  <2> HIDE DEF a, T
  <2> QED
    BY <2>1, <2>2
<1>3. b = [i \in DOMAIN derived |-> b[i]] /\ \A i \in DOMAIN derived : b[i] \in T
  <2>1. b = [i \in DOMAIN derived |-> derived[i].color]
    BY DEF ColorsOf
  <2>2. ASSUME NEW i \in DOMAIN derived PROVE derived[i].color \in T
    <3>1. derived[i] \in Definitions
      BY <1>1
    <3> QED
      BY <3>1 DEF Definitions
  <2> HIDE DEF b, T
  <2> QED
    BY <2>1, <2>2
<1> HIDE DEF a, b, T
<1>4. a \in Seq(T) /\ b \in Seq(T)
  BY <1>1, <1>2, <1>3, MadeSeq
<1>5. a \o b \in Seq(T)
  BY <1>4
<1> QED
  BY <1>5, NextColorListed DEF a, b, T

LEMMA AddedSeries ==
  ASSUME IInv, PageInv, NEW field, AddSeries(field)
  PROVE  PageInv'
<1> DEFINE color == NextColor(ColorsOf(selections) \o ColorsOf(derived))
           x == [key |-> SeriesKey(field), visible |-> TRUE, color |-> color]
<1>1. color \in ToSet(Colors)
  BY UsedColors
<1>2. SeriesKey(field) \in SeriesKeys
  BY KeysTyped DEF AddSeries, IInv
<1> HIDE DEF color
<1>3. x \in Selections
  BY <1>1, <1>2 DEF Selections
<1>4. SelectionsBecome(Append(selections, x))
  BY DEF AddSeries, color
<1> HIDE DEF x
<1>5. Append(selections, x) \in Seq(Selections)
  BY <1>3 DEF PageInv
<1> QED
  BY <1>4, <1>5, SelectionsKept

\* A number is never given twice, so that no suffix is ever needed.
LEMMA NewNumber ==
  ASSUME PageInv
  PROVE  UniqueDerivedId(<<nextId>>, derived) = <<nextId>>
<1>1. ASSUME NEW i \in DOMAIN derived PROVE derived[i].id # <<nextId>>
  <2>1. PICK k : k = Last(derived[i].id)
    OBVIOUS
  <2>2. derived[i].id = <<k>> /\ k < nextId
    BY <2>1 DEF PageInv, Numbered
  <2>3. k # nextId
    <3>1. derived[i].id \in Seq(Nat)
      <4>1. PICK d \in Definitions : d = derived[i]
        BY DEF PageInv
      <4> QED
        BY <4>1 DEF Definitions
    <3>2. k \in Nat
      BY <2>2, <3>1
    <3> QED
      BY <2>2, <3>2 DEF PageInv
  <2>4. <<k>>[1] = k /\ <<nextId>>[1] = nextId
    OBVIOUS
  <2> QED
    BY <2>2, <2>3, <2>4
<1> QED
  BY <1>1 DEF UniqueDerivedId

LEMMA AddedDerived ==
  ASSUME PageInv, NEW input \in NewDerived, AddDerived(input)
  PROVE  PageInv'
<1> DEFINE color == NextColor(ColorsOf(selections) \o ColorsOf(derived))
           n == SourceCount(input.kind)
           src == SubSeq(input.src, 1, n)
           def == [id |-> UniqueDerivedId(<<nextId>>, derived), kind |-> input.kind, src |-> src,
                   window |-> input.window, op |-> input.op, scale |-> input.scale,
                   offset |-> input.offset, color |-> color, visible |-> TRUE]
           new == Append(derived, def)
<1>1. color \in ToSet(Colors)
  BY UsedColors
<1>2. /\ input.kind \in Kinds /\ input.src \in Sources /\ input.window \in Int /\ input.op \in Ops
      /\ input.scale \in Int /\ input.offset \in Int
  BY PageAssumption DEF Forms
<1>3. /\ ToSet(src) \subseteq KeySet(selections) \cup {DerivedKey(derived[i].id) : i \in DOMAIN derived}
      /\ Len(input.src) >= n /\ DerivedBecomes(new) /\ nextId' = nextId + 1
  BY DEF AddDerived
<1>4. n \in {1, 2}
  BY DEF SourceCount
<1>5. src \in Sources /\ Len(src) = n
  <2>1. \A i \in 1 .. n : input.src[i] \in SeriesKeys \cup DerivedKeys
    BY <1>2, <1>3, <1>4 DEF Sources
  <2> HIDE DEF n
  <2> QED
    BY <1>4, <2>1, SubSeqProperties DEF Sources
<1>6. PICK me : me = <<nextId>>
  OBVIOUS
<1>7. def.id = me /\ me \in Seq(Nat) /\ Last(me) = nextId /\ me = <<Last(me)>>
  <2>1. nextId \in Nat
    BY DEF PageInv
  <2>2. me \in Seq(Nat) /\ Len(me) = 1 /\ me[1] = nextId
    BY <1>6, <2>1
  <2>3. Last(me) = nextId
    BY <2>2 DEF Last
  <2> QED
    BY <1>6, <2>2, <2>3, NewNumber
<1>8. def.kind = input.kind /\ def.src = src
  OBVIOUS
<1>9. ASSUME NEW k \in ToSet(src), k.derived PROVE Last(k.name) < nextId
  <2>1. k \notin KeySet(selections)
    <3>1. ASSUME NEW i \in DOMAIN selections, k = selections[i].key PROVE FALSE
      <4>1. selections[i] \in Selections
        BY DEF PageInv
      <4>2. k \in SeriesKeys
        BY <3>1, <4>1 DEF Selections
      <4> QED
        BY <1>9, <4>2 DEF SeriesKeys
    <3> QED
      BY <3>1 DEF KeySet
  <2>2. PICK i \in DOMAIN derived : k = DerivedKey(derived[i].id)
    <3> HIDE DEF src
    <3> QED
      BY <1>3, <1>9, <2>1
  <2>3. k.name = derived[i].id
    BY <2>2 DEF DerivedKey
  <2> QED
    BY <2>3 DEF PageInv
<1>10. def \in Definitions
  <2> HIDE DEF src, color, n
  <2>1. UniqueDerivedId(<<nextId>>, derived) \in Seq(Nat)
    BY <1>7
  <2> QED
    BY <1>1, <1>2, <1>5, <2>1 DEF Definitions
<1> HIDE DEF def
<1>11. derived \in Seq(Definitions) /\ Len(derived) \in Nat /\ DOMAIN derived = 1 .. Len(derived)
  BY DEF PageInv
<1>12. /\ new \in Seq(Definitions) /\ DOMAIN new = 1 .. Len(derived) + 1
       /\ \A i \in 1 .. Len(derived) : new[i] = derived[i]
       /\ new[Len(derived) + 1] = def
  BY <1>10, <1>11, AppendProperties
<1> HIDE DEF new
<1>13. \A i \in DOMAIN new : (i \in DOMAIN derived /\ new[i] = derived[i]) \/ new[i] = def
  BY <1>11, <1>12
<1>14. ASSUME NEW i \in DOMAIN new
       PROVE  /\ new[i].id = <<Last(new[i].id)>> /\ Len(new[i].src) = SourceCount(new[i].kind)
              /\ \A key \in ToSet(new[i].src) : key.derived => Last(key.name) < Last(new[i].id)
  <2>1. CASE i \in DOMAIN derived /\ new[i] = derived[i]
    BY <2>1 DEF PageInv, Numbered
  <2>2. CASE new[i] = def
    <3>1. def.id = me /\ def.src = src /\ Last(me) = nextId /\ me = <<Last(me)>>
      BY <1>7, <1>8
    <3>2. Len(def.src) = SourceCount(def.kind)
      BY <1>5, <1>8
    <3> HIDE DEF src
    <3> QED
      BY <1>9, <2>2, <3>1, <3>2
  <2> QED
    BY <1>13, <2>1, <2>2
<1>15. ASSUME NEW i \in DOMAIN new, NEW j \in DOMAIN new, i < j
       PROVE  Last(new[i].id) < Last(new[j].id)
  <2>1. i \in DOMAIN derived /\ new[i] = derived[i]
    BY <1>11, <1>12, <1>15
  <2>2. CASE j \in DOMAIN derived /\ new[j] = derived[j]
    BY <1>15, <2>1, <2>2 DEF PageInv, Numbered
  <2>3. CASE new[j] = def
    BY <1>7, <2>1, <2>3 DEF PageInv
  <2> QED
    BY <1>13, <2>2, <2>3
<1>16. Numbered(new)
  BY <1>14, <1>15 DEF Numbered
<1>17. nextId' \in Nat /\ \A i \in DOMAIN new : Last(new[i].id) < nextId'
  <2>1. nextId \in Nat /\ nextId' = nextId + 1
    BY <1>3 DEF PageInv
  <2>2. ASSUME NEW i \in DOMAIN derived PROVE Last(derived[i].id) < nextId /\ Last(derived[i].id) \in Nat
    <3>1. derived[i] \in Definitions
      BY DEF PageInv
    <3>2. PICK k : k = Last(derived[i].id)
      OBVIOUS
    <3>3. derived[i].id \in Seq(Nat) /\ derived[i].id = <<k>> /\ k < nextId
      BY <3>1, <3>2 DEF PageInv, Numbered, Definitions
    <3> QED
      BY <3>2, <3>3
  <2>3. Last(def.id) = nextId
    BY <1>7
  <2>4. \A i \in DOMAIN new : Last(new[i].id) < nextId + 1
    BY <1>13, <2>1, <2>2, <2>3
  <2> QED
    BY <2>1, <2>4
<1> QED
  BY <1>3, <1>12, <1>16, <1>17, DerivedKept

LEMMA RemovedSeries ==
  ASSUME PageInv, NEW key, RemoveSeries(key)
  PROVE  PageInv'
<1>1. CASE SelectionsBecome(Keeping(selections, ToSet(selections) \ Keyed(key)))
  <2>1. Keeping(selections, ToSet(selections) \ Keyed(key)) \in Seq(Selections)
    BY KeepingSifts DEF PageInv
  <2> QED
    BY <1>1, <2>1, SelectionsKept
<1>2. CASE /\ DerivedBecomes(Keeping(derived, {d \in ToSet(derived) : DerivedKey(d.id) # key}))
           /\ UNCHANGED nextId
  <2>1. PICK r, wanted : r = Keeping(derived, wanted) /\ DerivedBecomes(r)
    BY <1>2
  <2>2. /\ r \in Seq(Definitions)
        /\ \A k \in DOMAIN r : \E i \in DOMAIN derived : r[k] = derived[i]
        /\ \A j, k \in DOMAIN r : j < k =>
             \E a, b \in DOMAIN derived : a < b /\ r[j] = derived[a] /\ r[k] = derived[b]
    BY <2>1, KeepingSifts DEF PageInv
  <2>3. \A k \in DOMAIN r : Last(r[k].id) < nextId
    BY <2>2 DEF PageInv
  <2>4. Numbered(r)
    BY <2>2 DEF PageInv, Numbered
  <2> QED
    BY <1>2, <2>1, <2>2, <2>3, <2>4, DerivedKept DEF PageInv
<1> QED
  BY <1>1, <1>2 DEF RemoveSeries

LEMMA ReorderedSeries ==
  ASSUME PageInv, NEW dragged, NEW target, Reorder(dragged, target)
  PROVE  PageInv'
<1>1. PICK rest : rest = Keeping(selections, ToSet(selections) \ Keyed(dragged))
  OBVIOUS
<1>2. PICK items : items = Keeping(selections, Keyed(dragged))
  OBVIOUS
<1>3. PICK at : at = SelectInSeq(rest, LAMBDA x : x.key = target)
  OBVIOUS
<1>4. /\ dragged # target /\ {dragged, target} \subseteq KeySet(selections)
      /\ SelectionsBecome(InsertAt(rest, at, items[1]))
  BY <1>1, <1>2, <1>3 DEF Reorder
<1>5. selections \in Seq(Selections)
  BY DEF PageInv
<1>6. items \in Seq(Selections) /\ items # <<>>
  <2>1. PICK i \in DOMAIN selections : selections[i].key = dragged
    BY <1>4 DEF KeySet
  <2>2. selections[i] \in Keyed(dragged)
    BY <1>5, <2>1 DEF Keyed, ToSet
  <2>3. \E k \in DOMAIN items : items[k] = selections[i]
    BY <1>2, <1>5, <2>2, KeepingSifts
  <2> QED
    BY <1>2, <1>5, <2>3, KeepingSifts
<1>7. rest \in Seq(Selections) /\ \E k \in 1 .. Len(rest) : rest[k].key = target
  <2>1. PICK i \in DOMAIN selections : selections[i].key = target
    BY <1>4 DEF KeySet
  <2>2. PICK wanted : wanted = ToSet(selections) \ Keyed(dragged)
    OBVIOUS
  <2>3. selections[i] \in wanted
    BY <1>4, <1>5, <2>1, <2>2 DEF Keyed, ToSet
  <2>4. rest = Keeping(selections, wanted)
    BY <1>1, <2>2
  <2>5. rest \in Seq(Selections)
    BY <1>5, <2>4, KeepingSifts
  <2>6. PICK k \in DOMAIN rest : rest[k] = selections[i]
    BY <1>5, <2>3, <2>4, KeepingSifts
  <2>7. k \in 1 .. Len(rest)
    BY <2>5
  <2> QED
    BY <2>1, <2>5, <2>6, <2>7
<1>8. at \in 1 .. Len(rest)
  <2> DEFINE places == {k \in 1 .. Len(rest) : rest[k].key = target}
  <2>1. places # {} /\ places \subseteq Nat
    BY <1>7
  <2>2. at = Min(places)
    BY <1>3, <2>1 DEF SelectInSeq
  <2>3. Min(places) \in places
    BY <2>1, LeastOf
  <2> QED
    BY <2>2, <2>3
<1>9. items[1] \in Selections
  BY <1>6
<1>10. InsertAt(rest, at, items[1]) \in Seq(Selections)
  <2>1. \A i \in 1 .. at - 1 : rest[i] \in Selections
    BY <1>7, <1>8
  <2>2. \A i \in at .. Len(rest) : rest[i] \in Selections
    BY <1>7, <1>8
  <2>3. SubSeq(rest, 1, at - 1) \in Seq(Selections)
    BY <1>7, <1>8, <2>1, SubSeqProperties
  <2>4. SubSeq(rest, at, Len(rest)) \in Seq(Selections)
    BY <1>7, <1>8, <2>2, SubSeqProperties
  <2>5. <<items[1]>> \in Seq(Selections)
    BY <1>9
  <2>6. SubSeq(rest, 1, at - 1) \o <<items[1]>> \in Seq(Selections)
    BY <2>3, <2>5, ConcatProperties
  <2>7. (SubSeq(rest, 1, at - 1) \o <<items[1]>>) \o SubSeq(rest, at, Len(rest)) \in Seq(Selections)
    BY <2>4, <2>6, ConcatProperties
  <2> QED
    BY <2>7 DEF InsertAt
<1> QED
  BY <1>4, <1>10, SelectionsKept

LEMMA RestyledSelection ==
  ASSUME NEW x \in Selections, NEW color \in {Null, Colors[2]}, NEW flip \in BOOLEAN
  PROVE  Styled(x, color, flip) \in Selections
<1>1. Colors[2] \in ToSet(Colors)
  BY PageAssumption DEF ToSet
<1>2. (~ x.visible) \in BOOLEAN
  BY DEF Selections
<1> QED
  BY <1>1, <1>2 DEF Selections, Styled

LEMMA RestyledDefinition ==
  ASSUME NEW x \in Definitions, NEW color \in {Null, Colors[2]}, NEW flip \in BOOLEAN
  PROVE  /\ Styled(x, color, flip) \in Definitions
         /\ Styled(x, color, flip).id = x.id /\ Styled(x, color, flip).src = x.src
         /\ Styled(x, color, flip).kind = x.kind
<1>1. Colors[2] \in ToSet(Colors)
  BY PageAssumption DEF ToSet
<1>2. (~ x.visible) \in BOOLEAN
  BY DEF Definitions
<1> QED
  BY <1>1, <1>2 DEF Definitions, Styled

LEMMA RestyledSeries ==
  ASSUME PageInv, NEW key, NEW color \in {Null, Colors[2]}, NEW flip \in BOOLEAN,
         Restyle(key, color, flip)
  PROVE  PageInv'
<1> DEFINE sel == [i \in DOMAIN selections |->
                     IF selections[i].key = key THEN Styled(selections[i], color, flip)
                     ELSE selections[i]]
           defs == [i \in DOMAIN derived |->
                     IF DerivedKey(derived[i].id) = key THEN Styled(derived[i], color, flip)
                     ELSE derived[i]]
<1>1. (DerivedBecomes(defs) /\ UNCHANGED nextId) \/ SelectionsBecome(sel)
  BY DEF Restyle
<1>2. selections \in Seq(Selections) /\ derived \in Seq(Definitions)
  BY DEF PageInv
<1>3. CASE SelectionsBecome(sel)
  <2>1. ASSUME NEW i \in DOMAIN selections PROVE sel[i] \in Selections
    <3>1. selections[i] \in Selections
      BY <1>2
    <3> QED
      BY <3>1, RestyledSelection
  <2>2. sel = [i \in DOMAIN selections |-> sel[i]]
    OBVIOUS
  <2> HIDE DEF sel
  <2>3. sel \in Seq(Selections)
    BY <1>2, <2>1, <2>2, MadeSeq
  <2> QED
    BY <1>3, <2>3, SelectionsKept
<1>4. CASE DerivedBecomes(defs) /\ UNCHANGED nextId
  <2>1. ASSUME NEW i \in DOMAIN derived
        PROVE  /\ defs[i] \in Definitions /\ defs[i].id = derived[i].id
               /\ defs[i].src = derived[i].src /\ defs[i].kind = derived[i].kind
    <3>1. PICK x \in Definitions : x = derived[i]
      BY <1>2
    <3>2. defs[i] = IF DerivedKey(x.id) = key THEN Styled(x, color, flip) ELSE x
      BY <3>1
    <3> QED
      BY <3>1, <3>2, RestyledDefinition
  <2>2. defs = [i \in DOMAIN derived |-> defs[i]]
    OBVIOUS
  <2> HIDE DEF defs
  <2>3. defs \in Seq(Definitions) /\ DOMAIN defs = DOMAIN derived
    BY <1>2, <2>1, <2>2, MadeSeq
  <2>4. Numbered(defs) /\ \A i \in DOMAIN defs : Last(defs[i].id) < nextId
    BY <2>1, <2>3 DEF PageInv, Numbered
  <2> QED
    BY <1>4, <2>3, <2>4, DerivedKept DEF PageInv
<1> QED
  BY <1>1, <1>3, <1>4

-----------------------------------------------------------------------------
(* The page. *)

\* The page as it is opened and as it is loaded again.
LEMMA OpenedPage == Init => PageInv
<1> SUFFICES ASSUME Init PROVE PageInv
  OBVIOUS
<1>1. PICK u \in InitialUrls :
        /\ selections = Page(u).sel /\ derived = Page(u).defs /\ nextId = Page(u).next
        /\ restored = Page(u).restored /\ url = Encode(Page(u).sel, Page(u).defs)
  BY DEF Init
<1>2. /\ selections \in Seq(Selections) /\ derived \in Seq(Definitions)
      /\ Numbered(derived) /\ restored \in BOOLEAN
  BY <1>1, LinkRead
<1>3. nextId = NextDerivedId(derived)
  BY <1>1 DEF Page
<1>4. nextId \in Nat /\ \A i \in DOMAIN derived : Last(derived[i].id) < nextId
  BY <1>2, <1>3, NextIdIsNew
<1> QED
  BY <1>1, <1>2, <1>4 DEF PageInv

LEMMA ReloadedPage == PageInv /\ Reload => PageInv'
<1> SUFFICES ASSUME PageInv, Reload PROVE PageInv'
  OBVIOUS
<1>1. selections \in Seq(Selections) /\ derived \in Seq(Definitions) /\ Numbered(derived)
  BY DEF PageInv
<1>2. DecodeSelections(url) = selections /\ DecodeDefs(url) = derived
  BY <1>1, LinkReadsBack DEF PageInv
<1>3. /\ selections' = selections /\ derived' = derived /\ url' = Encode(selections, derived)
      /\ nextId' = NextDerivedId(derived) /\ restored' = Readable(url)
  BY <1>2 DEF Reload, Page
<1>4. restored' \in BOOLEAN
  BY <1>3 DEF Readable
<1>5. nextId' \in Nat /\ \A i \in DOMAIN derived : Last(derived[i].id) < nextId'
  BY <1>1, <1>3, NextIdIsNew
<1> QED
  BY <1>1, <1>3, <1>4, <1>5 DEF PageInv

LEMMA SessionPage ==
  ASSUME PageInv, NEW s \in Sessions \cup {Null}, SessionBecomes(s)
  PROVE  PageInv'
<1>1. PICK sel : sel = Validate(selections, s)
  OBVIOUS
<1>2. sel \in Seq(Selections)
  BY <1>1, ValidTyped DEF PageInv
<1>3. selections' = sel /\ url' = Encode(sel, derived) /\ UNCHANGED <<derived, nextId, restored>>
  BY <1>1 DEF SessionBecomes, SessionAndPageBecome
<1> QED
  BY <1>2, <1>3 DEF PageInv

LEMMA NextPage == IInv /\ PageInv /\ [Next]_vars => PageInv'
<1> SUFFICES ASSUME IInv, PageInv, [Next]_vars PROVE PageInv'
  OBVIOUS
<1>1. ASSUME UNCHANGED pageVars PROVE PageInv'
  BY <1>1 DEF PageInv, pageVars
<1>2. CASE Reload
  BY <1>2, ReloadedPage
<1>3. CASE CloseSession
  BY <1>3, SessionPage DEF CloseSession
<1>4. CASE Grow
  <2>1. [session EXCEPT !.span = @ + 2] \in Sessions
    BY <1>4 DEF IInv, Grow, Sessions
  <2> QED
    BY <1>4, <2>1, SessionPage DEF Grow
<1>5. ASSUME NEW rec \in Recordings, Open(rec) PROVE PageInv'
  <2>1. [rec |-> rec, span |-> SpanOf[rec]] \in Sessions
    BY SeriesAssumption DEF Sessions
  <2> QED
    BY <1>5, <2>1, SessionPage DEF Open
<1>6. ASSUME NEW r, CommitXRange(r) PROVE PageInv'
  BY <1>1, <1>6 DEF CommitXRange, RangeBecomes
<1>7. CASE DoubleClick \/ ShiftWheel(MinSpan)
  BY <1>6, <1>7 DEF DoubleClick, ShiftWheel
<1>8. ASSUME NEW a, NEW b, Drag(a, b) \/ Wheel(a, b) PROVE PageInv'
  BY <1>6, <1>8 DEF Drag, Wheel
<1>9. ASSUME NEW f, AddSeries(f) PROVE PageInv'
  BY <1>9, AddedSeries
<1>10. ASSUME NEW input \in NewDerived, AddDerived(input) PROVE PageInv'
  BY <1>10, AddedDerived
<1>11. ASSUME NEW key, RemoveSeries(key) PROVE PageInv'
  BY <1>11, RemovedSeries
<1>12. ASSUME NEW key, Restyle(key, Null, TRUE) \/ Restyle(key, Colors[2], FALSE) PROVE PageInv'
  BY <1>12, RestyledSeries
<1>13. ASSUME NEW j, NEW k, Reorder(j, k) PROVE PageInv'
  BY <1>13, ReorderedSeries
<1>14. ASSUME NEW failed, NEW r, TimerFires \/ Answer(failed) \/ StaleAnswer(r) PROVE PageInv'
  BY <1>1, <1>14 DEF TimerFires, Answer, StaleAnswer
<1>15. CASE UNCHANGED vars
  BY <1>1, <1>15 DEF vars
<1> QED
  BY <1>2, <1>3, <1>4, <1>5, <1>7, <1>8, <1>9, <1>10, <1>11, <1>12, <1>13, <1>14, <1>15 DEF Next

\* The url decodes to what the page shows and no definition uses a later one or has
\* the number of another, whatever was added, removed, restyled, moved or reloaded.
THEOREM UrlHoldsThePage == Spec => []PageSurvivesReload
<1>1. PageInv => PageSurvivesReload
  <2> SUFFICES ASSUME PageInv PROVE PageSurvivesReload
    OBVIOUS
  <2>1. selections \in Seq(Selections) /\ derived \in Seq(Definitions) /\ Numbered(derived)
    BY DEF PageInv
  <2>2. DecodeSelections(url) = selections /\ DecodeDefs(url) = derived
    BY <2>1, LinkReadsBack DEF PageInv
  <2>3. ASSUME NEW i \in DOMAIN derived
        PROVE  Last(derived[i].id) \in Nat
    <3>1. derived[i] \in Definitions
      BY <2>1
    <3>2. PICK k : k = Last(derived[i].id)
      OBVIOUS
    <3>3. derived[i].id \in Seq(Nat) /\ derived[i].id = <<k>>
      BY <2>1, <3>1, <3>2 DEF Numbered, Definitions
    <3> QED
      BY <3>2, <3>3
  <2>4. DOMAIN derived \subseteq Nat
    BY <2>1
  <2>5. ASSUME NEW i \in DOMAIN derived, NEW j \in DOMAIN derived,
               DerivedKey(derived[j].id) \in ToSet(derived[i].src)
        PROVE  j < i
    <3>1. DerivedKey(derived[j].id).derived /\ DerivedKey(derived[j].id).name = derived[j].id
      BY DEF DerivedKey
    <3>2. Last(derived[j].id) < Last(derived[i].id)
      BY <2>1, <2>5, <3>1 DEF Numbered
    <3>3. i < j => Last(derived[i].id) < Last(derived[j].id)
      BY <2>1 DEF Numbered
    <3> QED
      BY <2>3, <2>4, <3>2, <3>3
  <2>6. ASSUME NEW i \in DOMAIN derived, NEW j \in DOMAIN derived, derived[i].id = derived[j].id
        PROVE  i = j
    <3>1. /\ i < j => Last(derived[i].id) < Last(derived[j].id)
          /\ j < i => Last(derived[j].id) < Last(derived[i].id)
      BY <2>1 DEF Numbered
    <3> QED
      BY <2>3, <2>4, <2>6, <3>1
  <2> QED
    BY <2>2, <2>5, <2>6 DEF PageSurvivesReload
<1>2. Init => IInv /\ PageInv
  BY InitInvariance, OpenedPage
<1>3. IInv /\ PageInv /\ [Next]_vars => (IInv /\ PageInv)'
  BY NextInvariance, NextPage
<1> QED
  BY <1>1, <1>2, <1>3, PTL DEF Spec

\* What is assumed of the urls that a page is opened with is true of those it writes.
THEOREM WrittenLinks == Spec => [](url \in Links \cup {NoParam} /\ Numbered(DecodeDefs(url)))
<1>1. PageInv => url \in Links \cup {NoParam} /\ Numbered(DecodeDefs(url))
  <2> SUFFICES ASSUME PageInv PROVE url \in Links \cup {NoParam} /\ Numbered(DecodeDefs(url))
    OBVIOUS
  <2>1. selections \in Seq(Selections) /\ derived \in Seq(Definitions) /\ Numbered(derived)
    BY DEF PageInv
  <2> QED
    BY <2>1, LinkReadsBack DEF PageInv
<1>2. Init => IInv /\ PageInv
  BY InitInvariance, OpenedPage
<1>3. IInv /\ PageInv /\ [Next]_vars => (IInv /\ PageInv)'
  BY NextInvariance, NextPage
<1> QED
  BY <1>1, <1>2, <1>3, PTL DEF Spec

\* Only so many events are asked for.
LEMMA EventsCounted ==
  /\ Init => events \in 0 .. MaxEvents
  /\ events \in 0 .. MaxEvents /\ [Next]_vars => events' \in 0 .. MaxEvents
<1>1. Init => events \in 0 .. MaxEvents
  BY PageAssumption DEF Init
<1>2. ASSUME events \in 0 .. MaxEvents, Event PROVE events' \in 0 .. MaxEvents
  BY <1>2, PageAssumption DEF Event
<1>3. ASSUME events \in 0 .. MaxEvents, [Next]_vars PROVE events' \in 0 .. MaxEvents
  <2>1. ASSUME NEW a, NEW b, NEW c,
               \/ Reload \/ CloseSession \/ Grow \/ Open(a) \/ DoubleClick \/ Drag(a, b)
               \/ Wheel(a, b) \/ ShiftWheel(a) \/ AddSeries(a) \/ AddDerived(a)
               \/ RemoveSeries(a) \/ Restyle(a, b, c) \/ Reorder(a, b)
        PROVE  Event
    BY <2>1 DEF Reload, CloseSession, Grow, Open, DoubleClick, Drag, Wheel, ShiftWheel, AddSeries,
                AddDerived, RemoveSeries, Restyle, Reorder
  <2>2. ASSUME NEW a,
               TimerFires \/ Answer(a) \/ StaleAnswer(a) \/ UNCHANGED vars
        PROVE  UNCHANGED events
    BY <2>2 DEF TimerFires, Answer, StaleAnswer, vars
  <2>3. Event \/ UNCHANGED events
    BY <1>3, <2>1, <2>2 DEF Next
  <2> QED
    BY <1>2, <1>3, <2>3
<1> QED
  BY <1>1, <1>3

\* The page never holds what it could not have been given: its selections and
\* definitions have the form of what is written to the url.
THEOREM TypeCorrect == Spec => []TypeOK
<1> DEFINE Inv == IInv /\ CurrentInv /\ PageInv /\ events \in 0 .. MaxEvents
<1>1. Inv => TypeOK
  <2>1. CurrentInv => fetch.loading \in BOOLEAN
    BY DEF CurrentInv, FetchInv, AskedInv
  <2>2. IInv => session = Null \/ (session.rec \in Recordings /\ session.span \in Nat)
    BY DEF IInv, Sessions
  <2> QED
    BY <2>1, <2>2 DEF PageInv, TypeOK
<1>2. Init => Inv
  BY InitInvariance, InitCurrent, OpenedPage, EventsCounted
<1>3. Inv /\ [Next]_vars => Inv'
  <2> SUFFICES ASSUME Inv, [Next]_vars PROVE Inv'
    OBVIOUS
  <2>1. IInv'
    BY NextInvariance
  <2>2. CurrentInv'
    BY <2>1, NextCurrent
  <2>3. PageInv' /\ (events \in 0 .. MaxEvents)'
    BY NextPage, EventsCounted
  <2> QED
    BY <2>1, <2>2, <2>3
<1> HIDE DEF Inv
<1> QED
  BY <1>1, <1>2, <1>3, PTL DEF Spec

-----------------------------------------------------------------------------
(* Sums.                                                                   *)

\* The samples of a series, and series in the order of the recording.
Samples == [t : Int, v : Int]
InTime(s) == \A i, j \in DOMAIN s : i <= j => s[i].t <= s[j].t
Series == {s \in Seq(Samples) : InTime(s)}

\* A running sum of numbers.
Sums(f, g, n) == f \in [0 .. n -> Int] /\ f[0] = 0 /\ \A k \in 1 .. n : f[k] = f[k - 1] + g[k]

LEMMA TotalSums ==
  ASSUME NEW n \in Nat, NEW g, \A k \in 1 .. n : g[k] \in Int
  PROVE  \E f : Sums(f, g, n) /\ Total(g, n) = f[n]
<1> DEFINE Turn(f) == [k \in 0 .. n |-> IF k = 0 THEN 0 ELSE f[k - 1] + g[k]]
           sum == CHOOSE f : f = Turn(f)
           comb == [p \in (1 .. n) \X Int |-> p[2] + g[p[1]]]
<1>1. Total(g, n) = sum[n]
  BY DEF Total
<1>2. \A k \in 1 .. n, v \in Int : comb[<<k, v>>] = v + g[k] /\ v + g[k] \in Int
  OBVIOUS
<1>3. \E f : f = Turn(f)
  <2> DEFINE V == Int
             zero == 0
             m == n
  <2>1. LoopIn(V, m, zero, comb)
    <3> HIDE DEF comb
    <3> QED
      BY <1>2 DEF LoopIn
  <2> HIDE DEF V, zero, comb, m
  <2>2. PICK f \in [0 .. m -> V] : f = Looped(f, m, zero, comb)
    <3> HIDE DEF Turn
    <3> QED
      BY <2>1, LoopExists
  <2>z. zero = 0 /\ V = Int /\ m = n
    BY DEF zero, V, m
  <2>3. \A k \in 1 .. n : k - 1 \in 0 .. n
    OBVIOUS
  <2>4. ASSUME NEW k \in 0 .. n PROVE f[k] = Turn(f)[k]
    <3>1. f[k] = IF k = 0 THEN 0 ELSE comb[<<k, f[k - 1]>>]
      <4> HIDE DEF comb
      <4> QED
        BY <2>2, <2>z DEF Looped
    <3>2. k # 0 => k \in 1 .. n /\ f[k - 1] \in Int
      BY <2>2, <2>3, <2>z
    <3> QED
      BY <1>2, <3>1, <3>2
  <2>5. f = [k \in 0 .. n |-> f[k]]
    BY <2>2, <2>z
  <2>6. f = Turn(f)
    BY <2>4, <2>5
  <2> QED
    BY <2>6
<1>4. sum = Turn(sum)
  BY <1>3
<1> HIDE DEF sum
<1>5. sum[0] = 0 /\ \A k \in 1 .. n : sum[k] = sum[k - 1] + g[k]
  BY <1>4
<1>6. \A k \in 0 .. n : sum[k] \in Int
  <2>1. \A k \in 1 .. n : sum[k - 1] \in Int => sum[k] \in Int
    BY <1>5
  <2> QED
    BY <1>5, <2>1, LoopValues
<1>7. sum = [k \in 0 .. n |-> sum[k]]
  BY <1>4
<1>8. sum \in [0 .. n -> Int]
  BY <1>6, <1>7
<1> QED
  BY <1>1, <1>5, <1>8 DEF Sums

\* Two running sums of the same numbers agree, from where they start on.
LEMMA SumsAgree ==
  ASSUME NEW n \in Nat, NEW f, NEW h, NEW d \in Int,
         \A k \in 0 .. n : f[k] \in Int /\ h[k] \in Int, f[0] = h[0] + d,
         \A k \in 1 .. n : f[k] - f[k - 1] = h[k] - h[k - 1]
  PROVE  \A k \in 0 .. n : f[k] = h[k] + d
<1> DEFINE e == [k \in 0 .. n |-> f[k] - h[k]]
           V == {d}
<1>1. e[0] \in V
  OBVIOUS
<1>2. ASSUME NEW k \in 1 .. n, e[k - 1] \in V PROVE e[k] \in V
  <2>1. k \in 0 .. n /\ k - 1 \in 0 .. n
    OBVIOUS
  <2>2. e[k] = f[k] - h[k] /\ e[k - 1] = f[k - 1] - h[k - 1]
    BY <2>1
  <2> QED
    BY <1>2, <2>1, <2>2
<1>3. \A k \in 0 .. n : e[k] \in V
  <2> HIDE DEF e, V
  <2> QED
    BY <1>1, <1>2, LoopValues
<1> QED
  BY <1>3

\* A total grows by one number at a time.
LEMMA TotalGrows ==
  ASSUME NEW n \in Nat, NEW g, \A k \in 1 .. n : g[k] \in Int
  PROVE  /\ Total(g, n) \in Int
         /\ n = 0 => Total(g, n) = 0
         /\ n > 0 => Total(g, n) = Total(g, n - 1) + g[n]
<1>1. PICK f : Sums(f, g, n) /\ Total(g, n) = f[n]
  BY TotalSums
<1>2. Total(g, n) \in Int /\ (n = 0 => Total(g, n) = 0)
  BY <1>1 DEF Sums
<1>3. ASSUME n > 0 PROVE Total(g, n) = Total(g, n - 1) + g[n]
  <2>1. n - 1 \in Nat /\ \A k \in 1 .. n - 1 : g[k] \in Int
    BY <1>3
  <2>2. PICK h : Sums(h, g, n - 1) /\ Total(g, n - 1) = h[n - 1]
    BY <2>1, TotalSums
  <2>3. f[n - 1] = h[n - 1] + 0
    <3>1. \A k \in 0 .. n - 1 : f[k] \in Int /\ h[k] \in Int
      BY <1>1, <2>2 DEF Sums
    <3>2. \A k \in 1 .. n - 1 : f[k] - f[k - 1] = h[k] - h[k - 1]
      <4>1. ASSUME NEW k \in 1 .. n - 1 PROVE f[k] - f[k - 1] = h[k] - h[k - 1]
        <5>1. k - 1 \in 0 .. n - 1 /\ k \in 0 .. n - 1
          OBVIOUS
        <5>2. f[k] = f[k - 1] + g[k] /\ h[k] = h[k - 1] + g[k] /\ g[k] \in Int
          BY <1>1, <2>1, <2>2 DEF Sums
        <5> QED
          BY <3>1, <5>1, <5>2
      <4> QED
        BY <4>1
    <3>3. f[0] = h[0] + 0
      BY <1>1, <2>2 DEF Sums
    <3>4. n - 1 \in 0 .. n - 1
      BY <2>1
    <3>5. \A k \in 0 .. n - 1 : f[k] = h[k] + 0
      <4> DEFINE m == n - 1
                 zero == 0
      <4>1. m \in Nat /\ zero \in Int /\ f[0] = h[0] + zero
        BY <2>1, <3>3
      <4>2. /\ \A k \in 0 .. m : f[k] \in Int /\ h[k] \in Int
            /\ \A k \in 1 .. m : f[k] - f[k - 1] = h[k] - h[k - 1]
        BY <3>1, <3>2
      <4> HIDE DEF m, zero
      <4>3. \A k \in 0 .. m : f[k] = h[k] + zero
        BY <4>1, <4>2, SumsAgree
      <4> QED
        BY <4>3 DEF m, zero
    <3> QED
      BY <3>4, <3>5
  <2>4. f[n] = f[n - 1] + g[n] /\ f[n - 1] \in Int /\ h[n - 1] \in Int
    BY <1>1, <1>3, <2>2 DEF Sums
  <2> QED
    BY <1>1, <2>2, <2>3, <2>4
<1> QED
  BY <1>2, <1>3

-----------------------------------------------------------------------------
(* Series, and the channels made value by value.                           *)

\* A sample for each of some places of a series, in their order.
Picked(r, f, at, m) ==
  /\ f \in Series /\ m \in Nat /\ DOMAIN at = 1 .. m
  /\ \A k \in 1 .. m : at[k] \in DOMAIN f
  /\ \A j, k \in 1 .. m : j < k => at[j] <= at[k]
  /\ r \in [1 .. m -> Samples]
  /\ \A k \in 1 .. m : r[k].t = f[at[k]].t

\* Samples at the times of some of a series' samples, in their order, make a series.
LEMMA PickedSeries ==
  ASSUME NEW r, NEW f, NEW at, NEW m, Picked(r, f, at, m)
  PROVE  r \in Series /\ DOMAIN r = 1 .. m /\ Len(r) = m /\ Stamps(r) \subseteq Stamps(f)
<1>1. /\ f \in Series /\ m \in Nat /\ DOMAIN at = 1 .. m
      /\ \A k \in 1 .. m : at[k] \in DOMAIN f
      /\ \A j, k \in 1 .. m : j < k => at[j] <= at[k]
      /\ r \in [1 .. m -> Samples]
      /\ \A k \in 1 .. m : r[k].t = f[at[k]].t
  BY DEF Picked
<1>2. r \in Seq(Samples) /\ DOMAIN r = 1 .. m /\ Len(r) = m
  BY <1>1
<1>3. f \in Seq(Samples) /\ \A i, j \in DOMAIN f : i <= j => f[i].t <= f[j].t
  BY <1>1 DEF Series, InTime
<1>4. DOMAIN f \subseteq Int
  BY <1>3
<1>5. ASSUME NEW j \in 1 .. m, NEW k \in 1 .. m, j <= k PROVE r[j].t <= r[k].t
  <2>1. at[j] \in DOMAIN f /\ at[k] \in DOMAIN f /\ at[j] \in Int /\ at[k] \in Int
    BY <1>1, <1>4
  <2>2. at[j] <= at[k]
    BY <1>1, <1>5, <2>1
  <2>3. f[at[j]].t <= f[at[k]].t
    BY <1>3, <2>1, <2>2
  <2> QED
    BY <1>1, <2>3
<1>6. InTime(r)
  BY <1>2, <1>5 DEF InTime
<1>7. Stamps(r) \subseteq Stamps(f)
  BY <1>1, <1>2 DEF Stamps
<1> QED
  BY <1>2, <1>6, <1>7 DEF Series

\* The same at the times of all of them.
LEMMA TimedSeries ==
  ASSUME NEW f \in Series, NEW r \in [DOMAIN f -> Samples], \A i \in DOMAIN f : r[i].t = f[i].t
  PROVE  r \in Series /\ DOMAIN r = DOMAIN f /\ Stamps(r) \subseteq Stamps(f)
<1> DEFINE m == Len(f)
           at == Indices(f)
<1>1. m \in Nat /\ DOMAIN f = 1 .. m
  BY DEF Series
<1>2. DOMAIN at = 1 .. m /\ \A k \in 1 .. m : at[k] = k
  BY <1>1 DEF Indices
<1> HIDE DEF m, at
<1>3. \A k \in 1 .. m : at[k] \in DOMAIN f
  BY <1>1, <1>2
<1>4. \A j, k \in 1 .. m : j < k => at[j] <= at[k]
  BY <1>1, <1>2
<1>5. r \in [1 .. m -> Samples]
  BY <1>1
<1>6. \A k \in 1 .. m : r[k].t = f[at[k]].t
  BY <1>1, <1>2
<1>7. r \in Series /\ DOMAIN r = 1 .. m /\ Stamps(r) \subseteq Stamps(f)
  <2>1. Picked(r, f, at, m)
    BY <1>1, <1>2, <1>3, <1>4, <1>5, <1>6 DEF Picked
  <2> QED
    BY <2>1, PickedSeries
<1> QED
  BY <1>1, <1>7

\* What is left of points in their order without those that are not finite.
LEMMA FiniteSeries ==
  ASSUME NEW s \in Seq(Points(Int, Int)), InTime(s)
  PROVE  /\ Finite(s) \in Series /\ Stamps(Finite(s)) \subseteq Stamps(s)
         /\ ToSet(Finite(s)) \subseteq ToSet(s)
<1> DEFINE T == Points(Int, Int)
           wanted == {p \in ToSet(s) : p.v # NaN}
<1>1. PICK r : r = Keeping(s, wanted)
  OBVIOUS
<1>2. r = Finite(s)
  BY <1>1 DEF Finite
<1> HIDE DEF wanted, T
<1>3. /\ r \in Seq(T)
      /\ \A k \in DOMAIN r : \E i \in DOMAIN s : s[i] \in wanted /\ r[k] = s[i]
      /\ \A j, k \in DOMAIN r : j < k =>
           \E a, b \in DOMAIN s : a < b /\ r[j] = s[a] /\ r[k] = s[b]
  <2>1. s \in Seq(T)
    BY DEF T
  <2> QED
    BY <1>1, <2>1, KeepingSifts
<1>4. DOMAIN r = 1 .. Len(r) /\ Len(r) \in Nat /\ DOMAIN s \subseteq Int
  BY <1>3
<1>5. \A k \in 1 .. Len(r) : r[k] \in Samples
  <2>1. ASSUME NEW k \in DOMAIN r PROVE r[k] \in Samples
    <3>1. r[k] \in T /\ r[k].v # NaN
      BY <1>3 DEF wanted
    <3> QED
      BY <3>1 DEF T, Points, Samples
  <2> QED
    BY <1>4, <2>1
<1>6. r \in Seq(Samples)
  BY <1>3, <1>4, <1>5
<1>7. ASSUME NEW j \in DOMAIN r, NEW k \in DOMAIN r, j <= k PROVE r[j].t <= r[k].t
  <2>1. CASE j = k
    <3>1. r[j].t \in Int
      BY <1>4, <1>5 DEF Samples
    <3> QED
      BY <2>1, <3>1
  <2>2. CASE j # k
    <3>1. j < k
      BY <1>4, <1>7, <2>2
    <3>2. PICK a \in DOMAIN s, b \in DOMAIN s : a < b /\ r[j] = s[a] /\ r[k] = s[b]
      BY <1>3, <3>1
    <3>3. a <= b
      BY <1>4, <3>2
    <3> QED
      BY <3>2, <3>3 DEF InTime
  <2> QED
    BY <2>1, <2>2
<1>8. Stamps(r) \subseteq Stamps(s) /\ ToSet(r) \subseteq ToSet(s)
  BY <1>3 DEF Stamps, ToSet
<1> QED
  BY <1>2, <1>6, <1>7, <1>8 DEF Series, InTime

LEMMA SeriesFinite ==
  ASSUME NEW s \in Series
  PROVE  /\ Finite(s) \in Series /\ Stamps(Finite(s)) \subseteq Stamps(s)
         /\ ToSet(Finite(s)) \subseteq ToSet(s)
<1>1. s \in Seq(Samples) /\ InTime(s)
  BY DEF Series
<1>2. Samples \subseteq Points(Int, Int)
  BY DEF Samples, Points
<1>3. s \in Seq(Points(Int, Int))
  BY <1>1, <1>2
<1> QED
  BY <1>1, <1>3, FiniteSeries

-----------------------------------------------------------------------------

LEMMA AbsIsTrue ==
  ASSUME NEW s, Finite(s) \in Series
  PROVE  LET f == Finite(s)
             r == AbsValue(s)
         IN /\ r \in Series /\ Stamps(r) \subseteq Stamps(f)
            /\ \A k \in DOMAIN r : k \in DOMAIN f /\ f[k].t = r[k].t /\ r[k].v >= 0 /\ f[k].v \in {r[k].v, -r[k].v}
<1>1. PICK f : f = Finite(s)
  OBVIOUS
<1>2. PICK r : r = [i \in DOMAIN f |-> LET p == f[i] IN Pt(p.t, IF p.v < 0 THEN -p.v ELSE p.v)]
  OBVIOUS
<1>3. r = AbsValue(s)
  BY <1>1, <1>2 DEF AbsValue
<1>4. f \in Seq(Samples) /\ f \in Series
  BY <1>1 DEF Series
<1>5. ASSUME NEW i \in DOMAIN f
      PROVE  r[i] \in Samples /\ r[i].t = f[i].t /\ r[i].v >= 0 /\ f[i].v \in {r[i].v, -r[i].v}
  <2>1. f[i] \in Samples
    BY <1>4
  <2>2. f[i].v \in Int /\ f[i].t \in Int
    BY <2>1 DEF Samples
  <2>3. r[i] = [t |-> f[i].t, v |-> IF f[i].v < 0 THEN -f[i].v ELSE f[i].v]
    BY <1>2 DEF Pt
  <2>4. (IF f[i].v < 0 THEN -f[i].v ELSE f[i].v) \in Int
    BY <2>2
  <2> QED
    BY <2>2, <2>3, <2>4 DEF Samples
<1>6. r \in [DOMAIN f -> Samples]
  <2> DEFINE made == [i \in DOMAIN f |-> r[i]]
  <2>1. r = made
    BY <1>2
  <2>2. made \in [DOMAIN f -> Samples]
    BY <1>5
  <2> QED
    BY <2>1, <2>2
<1>7. r \in Series /\ DOMAIN r = DOMAIN f /\ Stamps(r) \subseteq Stamps(f)
  BY <1>4, <1>5, <1>6, TimedSeries
<1> QED
  BY <1>1, <1>3, <1>5, <1>7

LEMMA ScaledIsTrue ==
  ASSUME NEW s, Finite(s) \in Series, NEW scale1 \in Int, NEW offset1 \in Int
  PROVE  LET f == Finite(s)
             r == ScaleOffset(s, scale1, offset1)
         IN /\ r \in Series /\ Stamps(r) \subseteq Stamps(f)
            /\ \A k \in DOMAIN r : k \in DOMAIN f /\ f[k].t = r[k].t /\ r[k].v = scale1 * f[k].v + offset1
<1>1. PICK f : f = Finite(s)
  OBVIOUS
<1>2. PICK r : r = [i \in DOMAIN f |-> Pt(f[i].t, scale1 * f[i].v + offset1)]
  OBVIOUS
<1>3. r = ScaleOffset(s, scale1, offset1)
  BY <1>1, <1>2 DEF ScaleOffset
<1>4. f \in Seq(Samples) /\ f \in Series
  BY <1>1 DEF Series
<1>5. ASSUME NEW i \in DOMAIN f
      PROVE  r[i] \in Samples /\ r[i].t = f[i].t /\ r[i].v = scale1 * f[i].v + offset1
  <2>1. f[i] \in Samples
    BY <1>4
  <2>2. f[i].v \in Int /\ f[i].t \in Int
    BY <2>1 DEF Samples
  <2>3. r[i] = [t |-> f[i].t, v |-> scale1 * f[i].v + offset1]
    BY <1>2 DEF Pt
  <2>4. scale1 * f[i].v + offset1 \in Int
    BY <2>2
  <2> QED
    BY <2>2, <2>3, <2>4 DEF Samples
<1>6. r \in [DOMAIN f -> Samples]
  <2> DEFINE made == [i \in DOMAIN f |-> r[i]]
  <2>1. r = made
    BY <1>2
  <2>2. made \in [DOMAIN f -> Samples]
    BY <1>5
  <2> QED
    BY <2>1, <2>2
<1>7. r \in Series /\ DOMAIN r = DOMAIN f /\ Stamps(r) \subseteq Stamps(f)
  BY <1>4, <1>5, <1>6, TimedSeries
<1> QED
  BY <1>1, <1>3, <1>5, <1>7

-----------------------------------------------------------------------------
(* The moving average.                                                     *)

\* The total of the n numbers up to the i-th is a difference of totals.
LEMMA WindowTotal ==
  ASSUME NEW i \in Nat, NEW n \in Nat, n <= i, NEW g, \A k \in 1 .. i : g[k] \in Int,
         NEW w, \A k \in 1 .. n : w[k] = g[i - n + k]
  PROVE  Total(w, n) = Total(g, i) - Total(g, i - n)
<1> DEFINE f == [k \in 0 .. n |-> Total(g, i - n + k)]
           h == [k \in 0 .. n |-> Total(w, k)]
           d == Total(g, i - n)
<1>1. ASSUME NEW k \in 0 .. i
      PROVE  /\ Total(g, k) \in Int
             /\ k = 0 => Total(g, k) = 0
             /\ k > 0 => Total(g, k) = Total(g, k - 1) + g[k]
  <2>1. k \in Nat /\ \A j \in 1 .. k : g[j] \in Int
    OBVIOUS
  <2> QED
    BY <2>1, TotalGrows
<1>2. ASSUME NEW k \in 0 .. n
      PROVE  /\ Total(w, k) \in Int
             /\ k = 0 => Total(w, k) = 0
             /\ k > 0 => Total(w, k) = Total(w, k - 1) + w[k]
  <2>1. \A j \in 1 .. k : i - n + j \in 1 .. i /\ j \in 1 .. n
    OBVIOUS
  <2>2. k \in Nat /\ \A j \in 1 .. k : w[j] \in Int
    BY <2>1
  <2> QED
    BY <2>2, TotalGrows
<1>3. d \in Int /\ i - n \in 0 .. i
  BY <1>1
<1>4. f[0] = h[0] + d
  <2>1. Total(w, 0) = 0
    BY <1>2
  <2>2. i - n + 0 = i - n /\ 0 \in 0 .. n
    OBVIOUS
  <2>3. f[0] = d /\ h[0] = 0
    BY <2>1, <2>2
  <2> HIDE DEF f, h, d
  <2> QED
    BY <1>3, <2>3
<1>5. ASSUME NEW k \in 0 .. n PROVE f[k] \in Int /\ h[k] \in Int
  <2>1. i - n + k \in 0 .. i
    OBVIOUS
  <2> QED
    BY <1>1, <1>2, <2>1
<1>6. ASSUME NEW k \in 1 .. n PROVE f[k] - f[k - 1] = h[k] - h[k - 1]
  <2> DEFINE a == i - n + k
  <2>1. a \in 0 .. i /\ a > 0 /\ a - 1 = i - n + (k - 1) /\ k \in 0 .. n /\ k - 1 \in 0 .. n /\ k > 0
    OBVIOUS
  <2>2. f[k] = Total(g, a) /\ f[k - 1] = Total(g, a - 1)
    BY <2>1
  <2>3. h[k] = Total(w, k) /\ h[k - 1] = Total(w, k - 1)
    BY <2>1
  <2>4. w[k] = g[a] /\ g[a] \in Int
    BY <2>1
  <2>5. f[k] = f[k - 1] + g[a]
    BY <1>1, <2>1, <2>2
  <2>6. h[k] = h[k - 1] + g[a]
    BY <1>2, <2>1, <2>3, <2>4
  <2>7. f[k - 1] \in Int /\ h[k - 1] \in Int
    BY <1>5, <2>1
  <2> HIDE DEF f, h, a
  <2> QED
    BY <2>4, <2>5, <2>6, <2>7
<1>7. \A k \in 0 .. n : f[k] = h[k] + d
  <2> HIDE DEF f, h, d
  <2> QED
    BY <1>3, <1>4, <1>5, <1>6, SumsAgree
<1>8. f[n] = Total(g, i) /\ h[n] = Total(w, n) /\ n \in 0 .. n
  <2>1. i - n + n = i /\ n \in 0 .. n
    OBVIOUS
  <2> QED
    BY <2>1
<1>9. f[n] = h[n] + d /\ h[n] \in Int
  <2> HIDE DEF f, h, d
  <2> QED
    BY <1>5, <1>7, <1>8
<1> QED
  <2> HIDE DEF f, h
  <2> QED
    BY <1>3, <1>8, <1>9

\* An average is that of the values up to the point, as many as the window takes.
LEMMA AverageIsTrue ==
  ASSUME NEW s, Finite(s) \in Series, NEW size \in Nat, size >= 1
  PROVE  LET f == Finite(s)
             r == MovingAverage(s, size)
             n(k) == Lesser(k, size)
         IN /\ r \in Series /\ Stamps(r) \subseteq Stamps(f)
            /\ \A k \in DOMAIN r : k \in DOMAIN f /\ f[k].t = r[k].t /\ r[k].v = SumTo(f, k, n(k)) \div n(k)
<1>1. PICK f : f = Finite(s)
  OBVIOUS
<1> DEFINE m == Len(f)
           g == [k \in 1 .. m |-> f[k].v]
           out(k) == IF k > size THEN f[k - size].v ELSE 0
           Turn(h) == [i \in 0 .. m |->
                         IF i = 0 THEN 0 ELSE h[i - 1] + f[i].v - out(i)]
           sum == CHOOSE h : h = Turn(h)
           r == [i \in DOMAIN f |-> Pt(f[i].t, sum[i] \div (IF i < size THEN i ELSE size))]
<1>2. r = MovingAverage(s, size)
  BY <1>1 DEF MovingAverage
<1>3. f \in Series /\ f \in Seq(Samples) /\ m \in Nat /\ DOMAIN f = 1 .. m
  BY <1>1 DEF Series
<1>4. ASSUME NEW k \in 1 .. m PROVE f[k].t \in Int /\ f[k].v \in Int /\ out(k) \in Int
  <2>1. \A j \in 1 .. m : f[j] \in Samples
    BY <1>3
  <2>2. \A j \in 1 .. m : f[j].v \in Int /\ f[j].t \in Int
    BY <2>1 DEF Samples
  <2>3. k > size => k - size \in 1 .. m
    BY <1>3
  <2> QED
    BY <2>2, <2>3
<1>5. sum = Turn(sum)
  <2> DEFINE d == [k \in 1 .. m |-> f[k].v - out(k)]
  <2>1. \A k \in 1 .. m : d[k] \in Int /\ d[k] = f[k].v - out(k)
    <3> HIDE DEF out, m
    <3> QED
      BY <1>4
  <2> HIDE DEF d
  <2>2. PICK h : Sums(h, d, m)
    <3> HIDE DEF m
    <3> QED
      BY <1>3, <2>1, TotalSums
  <2>3. h = [k \in 0 .. m |-> h[k]] /\ h[0] = 0 /\ \A k \in 0 .. m : h[k] \in Int
    <3> HIDE DEF m
    <3> QED
      BY <2>2 DEF Sums
  <2>4. ASSUME NEW k \in 0 .. m, k # 0 PROVE h[k] = h[k - 1] + f[k].v - out(k)
    <3> HIDE DEF m, out
    <3>1. k \in 1 .. m /\ k - 1 \in 0 .. m
      BY <1>3, <2>4
    <3>2. h[k] = h[k - 1] + d[k]
      BY <2>2, <3>1 DEF Sums
    <3> QED
      BY <1>4, <2>1, <2>3, <3>1, <3>2
  <2>5. h = Turn(h)
    <3> HIDE DEF m, out
    <3> QED
      BY <2>3, <2>4
  <2> HIDE DEF Turn
  <2> QED
    BY <2>5
<1> HIDE DEF sum
<1>6. sum[0] = 0 /\ \A k \in 1 .. m : sum[k] = sum[k - 1] + f[k].v - out(k)
  <2>1. 0 \in 0 .. m /\ \A k \in 1 .. m : k \in 0 .. m /\ k # 0
    <3> HIDE DEF m
    <3> QED
      BY <1>3
  <2> HIDE DEF m, out
  <2> QED
    BY <1>5, <2>1
<1>7. \A k \in 0 .. m : sum[k] \in Int
  <2> HIDE DEF m, out, Turn
  <2> DEFINE V == Int
  <2>1. sum[0] \in V
    BY <1>6
  <2>2. \A k \in 1 .. m : sum[k - 1] \in V => sum[k] \in V
    BY <1>4, <1>6
  <2> HIDE DEF V
  <2>3. \A k \in 0 .. m : sum[k] \in V
    BY <1>3, <2>1, <2>2, LoopValues
  <2> QED
    BY <2>3 DEF V
<1>8. \A k \in 1 .. m : g[k] \in Int /\ g[k] = f[k].v
  BY <1>4
<1> DEFINE P(k) == Total(g, k)
           gone(k) == IF k >= size THEN P(k - size) ELSE 0
<1>9. ASSUME NEW k \in 0 .. m
      PROVE  P(k) \in Int /\ (k = 0 => P(k) = 0) /\ (k > 0 => P(k) = P(k - 1) + f[k].v)
  <2> HIDE DEF g, m
  <2>1. k \in Nat /\ (\A j \in 1 .. k : g[j] \in Int) /\ (k > 0 => g[k] = f[k].v)
    BY <1>3, <1>8
  <2> QED
    BY <2>1, TotalGrows
<1>z. P(0) = 0
  <2> HIDE DEF g
  <2> QED
    BY TotalGrows
<1>10. ASSUME NEW k \in 0 .. m PROVE sum[k] = P(k) - gone(k)
  <2> DEFINE h == [j \in 0 .. m |-> P(j) - gone(j)]
             zero == 0
  <2> HIDE DEF m, out, Turn
  <2>1. ASSUME NEW j \in 0 .. m PROVE gone(j) \in Int /\ sum[j] \in Int /\ h[j] \in Int /\ h[j] = P(j) - gone(j)
    <3>1. j >= size => j - size \in 0 .. m
      BY <1>3
    <3> HIDE DEF P
    <3>2. gone(j) \in Int
      BY <1>9, <3>1
    <3> QED
      BY <1>7, <1>9, <3>2
  <2>2. sum[0] = h[0] + zero
    <3>1. 0 \in 0 .. m /\ ~(0 >= size)
      BY <1>3
    <3>2. P(0) = 0 /\ gone(0) = 0
      BY <1>9, <3>1
    <3>3. h[0] = P(0) - gone(0)
      BY <2>1, <3>1
    <3> HIDE DEF h, P, gone
    <3> QED
      BY <1>6, <3>2, <3>3
  <2>3. ASSUME NEW j \in 1 .. m PROVE sum[j] - sum[j - 1] = h[j] - h[j - 1]
    <3>1. j \in 0 .. m /\ j - 1 \in 0 .. m /\ j > 0
      BY <1>3
    <3>2. h[j] = P(j) - gone(j) /\ h[j - 1] = P(j - 1) - gone(j - 1)
      BY <2>1, <3>1
    <3>3. P(j) = P(j - 1) + f[j].v /\ P(j) \in Int /\ P(j - 1) \in Int
      BY <1>9, <3>1
    <3>4. gone(j) = gone(j - 1) + out(j)
      <4>1. CASE j < size
        BY <4>1, <3>1 DEF out
      <4>2. CASE j = size
        <5>1. j - size = 0 /\ ~(j - 1 >= size) /\ ~(j > size)
          BY <3>1, <4>2
        <5> HIDE DEF P
        <5> QED
          BY <1>z, <4>2, <5>1 DEF out
      <4>3. CASE j > size
        <5>1. j - size \in 0 .. m /\ j - size > 0 /\ j - size - 1 = j - 1 - size /\ j >= size /\ j - 1 >= size
          BY <1>3, <3>1, <4>3
        <5>2. P(j - size) = P(j - size - 1) + f[j - size].v
          BY <1>9, <5>1
        <5> HIDE DEF P
        <5> QED
          BY <4>3, <5>1, <5>2 DEF out
      <4> QED
        BY <3>1, <4>1, <4>2, <4>3
    <3>5. sum[j] = sum[j - 1] + f[j].v - out(j)
      BY <1>6
    <3>6. /\ out(j) \in Int /\ f[j].v \in Int /\ sum[j - 1] \in Int
          /\ gone(j - 1) \in Int
      BY <1>4, <1>7, <2>1, <3>1
    <3> HIDE DEF h, P, gone, out
    <3> QED
      BY <3>2, <3>3, <3>4, <3>5, <3>6
  <2>4. \A j \in 0 .. m : sum[j] = h[j] + zero
    <3>1. zero \in Int /\ \A j \in 0 .. m : sum[j] \in Int /\ h[j] \in Int
      BY <2>1
    <3> HIDE DEF h, zero, P, gone, g, r
    <3>2. m \in Nat /\ \A j \in 1 .. m : sum[j] - sum[j - 1] = h[j] - h[j - 1]
      BY <1>3, <2>3
    <3> QED
      BY <2>2, <3>1, <3>2, SumsAgree
  <2>5. h[k] = P(k) - gone(k) /\ h[k] \in Int
    BY <2>1
  <2> HIDE DEF h, P, gone
  <2> QED
    BY <2>4, <2>5
<1> DEFINE n(k) == Lesser(k, size)
<1>11. ASSUME NEW k \in 1 .. m
       PROVE  /\ n(k) \in Nat /\ n(k) > 0 /\ n(k) = IF k < size THEN k ELSE size
              /\ sum[k] = SumTo(f, k, n(k)) /\ sum[k] \in Int
  <2> HIDE DEF m, out, Turn
  <2>0. k \in Nat /\ k > 0 /\ k \in 0 .. m
    BY <1>3
  <2>1. n(k) \in Nat /\ n(k) > 0 /\ n(k) <= k /\ n(k) = IF k < size THEN k ELSE size
    BY <2>0 DEF Lesser
  <2> DEFINE c == n(k)
             w == [j \in 1 .. c |-> f[k - c + j].v]
  <2>2. \A j \in 1 .. c : w[j] = g[k - c + j]
    <3> HIDE DEF n
    <3>1. ASSUME NEW j \in 1 .. c PROVE w[j] = g[k - c + j]
      <4>1. k - c + j \in 1 .. m
        BY <1>3, <2>0, <2>1
      <4> HIDE DEF g
      <4> QED
        BY <1>8, <4>1
    <3> QED
      BY <3>1
  <2>3. SumTo(f, k, c) = Total(w, c)
    BY DEF SumTo
  <2>4. \A j \in 1 .. k : g[j] \in Int
    <3> HIDE DEF g
    <3> QED
      BY <1>3, <1>8
  <2> HIDE DEF w, n, g
  <2>5. Total(w, c) = Total(g, k) - Total(g, k - c)
    <3> HIDE DEF P, gone, r
    <3>1. c \in Nat /\ c <= k
      BY <2>1
    <3> HIDE DEF c
    <3> QED
      BY <2>0, <2>2, <2>4, <3>1, WindowTotal
  <2>6. gone(k) = P(k - c)
    <3>1. CASE k < size
      <4>1. k - c = 0 /\ P(0) = 0 /\ ~(k >= size)
        BY <1>z, <2>0, <2>1, <3>1
      <4> QED
        BY <4>1
    <3>2. CASE ~(k < size)
      BY <2>0, <2>1, <3>2
    <3> QED
      BY <3>1, <3>2
  <2>7. sum[k] = SumTo(f, k, c)
    BY <1>10, <2>0, <2>3, <2>5, <2>6
  <2> QED
    BY <1>7, <2>0, <2>1, <2>7
<1>12. ASSUME NEW k \in DOMAIN f
       PROVE  r[k] \in Samples /\ r[k].t = f[k].t /\ r[k].v = SumTo(f, k, n(k)) \div n(k)
  <2> HIDE DEF m, out, Turn, g, n
  <2>1. k \in 1 .. m
    BY <1>3
  <2>2. r[k] = [t |-> f[k].t, v |-> sum[k] \div n(k)]
    BY <1>11, <2>1 DEF Pt
  <2>3. sum[k] \div n(k) \in Int
    BY <1>11, <2>1
  <2> HIDE DEF r
  <2> QED
    BY <1>4, <1>11, <2>1, <2>2, <2>3 DEF Samples
<1>13. r \in [DOMAIN f -> Samples]
  <2> DEFINE made == [i \in DOMAIN f |-> r[i]]
  <2>1. r = made
    OBVIOUS
  <2> HIDE DEF r
  <2>2. made \in [DOMAIN f -> Samples]
    BY <1>12
  <2> QED
    BY <2>1, <2>2
<1> HIDE DEF r
<1>14. r \in Series /\ DOMAIN r = DOMAIN f /\ Stamps(r) \subseteq Stamps(f)
  BY <1>3, <1>12, <1>13, TimedSeries
<1> QED
  BY <1>1, <1>2, <1>12, <1>14

-----------------------------------------------------------------------------
(* The derivative.                                                         *)

\* The numbers of the items that are wanted, in their order.
LEMMA KeptIndices ==
  ASSUME NEW S, NEW s \in Seq(S), NEW wanted, wanted \subseteq DOMAIN s
  PROVE  LET at == Keeping(Indices(s), wanted)
         IN /\ Len(at) \in Nat /\ DOMAIN at = 1 .. Len(at)
            /\ \A k \in DOMAIN at : at[k] \in wanted
            /\ \A w \in wanted : \E k \in DOMAIN at : at[k] = w
            /\ \A j, k \in DOMAIN at : j < k => at[j] < at[k]
<1> DEFINE T == DOMAIN s
           a == Indices(s)
<1>1. a \in Seq(T) /\ DOMAIN a = DOMAIN s /\ \A i \in DOMAIN s : a[i] = i
  <2>1. DOMAIN s = 1 .. Len(s) /\ Len(s) \in Nat
    OBVIOUS
  <2> QED
    BY <2>1 DEF Indices
<1>2. PICK at : at = Keeping(a, wanted)
  OBVIOUS
<1>3. /\ at \in Seq(T)
      /\ \A k \in DOMAIN at : \E i \in DOMAIN a : a[i] \in wanted /\ at[k] = a[i]
      /\ \A i \in DOMAIN a : a[i] \in wanted => \E k \in DOMAIN at : at[k] = a[i]
      /\ \A j, k \in DOMAIN at : j < k =>
           \E b, c \in DOMAIN a : b < c /\ at[j] = a[b] /\ at[k] = a[c]
  <2>1. a \in Seq(T)
    BY <1>1
  <2> HIDE DEF T, a
  <2> QED
    BY <1>2, <2>1, KeepingSifts
<1> HIDE DEF a
<1>4. Len(at) \in Nat /\ DOMAIN at = 1 .. Len(at)
  BY <1>3
<1>5. \A k \in DOMAIN at : at[k] \in wanted
  BY <1>3
<1>6. \A w \in wanted : \E k \in DOMAIN at : at[k] = w
  BY <1>1, <1>3
<1>7. ASSUME NEW j \in DOMAIN at, NEW k \in DOMAIN at, j < k PROVE at[j] < at[k]
  <2>1. PICK b \in DOMAIN a, c \in DOMAIN a : b < c /\ at[j] = a[b] /\ at[k] = a[c]
    BY <1>3, <1>7
  <2> QED
    BY <1>1, <2>1
<1> QED
  BY <1>2, <1>4, <1>5, <1>6, <1>7 DEF a

\* What a series is, item by item.
LEMMA SeriesItems ==
  ASSUME NEW f \in Series
  PROVE  /\ f \in Seq(Samples) /\ Len(f) \in Nat /\ DOMAIN f = 1 .. Len(f)
         /\ \A i \in DOMAIN f : f[i] \in Samples /\ f[i].t \in Int /\ f[i].v \in Int
         /\ \A i, j \in DOMAIN f : i <= j => f[i].t <= f[j].t
<1>1. f \in Seq(Samples) /\ \A i, j \in DOMAIN f : i <= j => f[i].t <= f[j].t
  BY DEF Series, InTime
<1>2. Len(f) \in Nat /\ DOMAIN f = 1 .. Len(f) /\ \A i \in DOMAIN f : f[i] \in Samples
  BY <1>1
<1> QED
  BY <1>1, <1>2 DEF Samples

\* A derivative is the slope from the sample before, at another time.
LEMMA DerivativeIsTrue ==
  ASSUME NEW s, Finite(s) \in Series
  PROVE  LET f == Finite(s)
             r == Derivative(s)
         IN /\ r \in Series /\ Stamps(r) \subseteq Stamps(f)
            /\ \A k \in DOMAIN r : \E i \in DOMAIN f :
                 /\ f[i].t = r[k].t /\ i > 1 /\ f[i - 1].t < r[k].t
                 /\ r[k].v = (f[i].v - f[i - 1].v) \div (f[i].t - f[i - 1].t)
<1>1. PICK f : f = Finite(s)
  OBVIOUS
<1> DEFINE n == Len(f)
           wanted == {i \in 2 .. n : f[i].t # f[i - 1].t}
<1>2. PICK at : at = Keeping(Indices(f), wanted)
  OBVIOUS
<1> DEFINE slope(i) == (f[i].v - f[i - 1].v) \div (f[i].t - f[i - 1].t)
           r == [k \in DOMAIN at |-> Pt(f[at[k]].t, slope(at[k]))]
<1>3. r = Derivative(s)
  BY <1>1, <1>2 DEF Derivative
<1>4. /\ f \in Series /\ n \in Nat /\ DOMAIN f = 1 .. n
      /\ \A i \in 1 .. n : f[i].t \in Int /\ f[i].v \in Int
      /\ \A i, j \in 1 .. n : i <= j => f[i].t <= f[j].t
  BY <1>1, SeriesItems
<1>5. wanted \subseteq DOMAIN f /\ f \in Seq(Samples)
  BY <1>1, <1>4, SeriesItems
<1>6. PICK m : m = Len(at)
  OBVIOUS
<1>7. /\ m \in Nat /\ DOMAIN at = 1 .. m
      /\ \A k \in 1 .. m : at[k] \in wanted
      /\ \A j, k \in 1 .. m : j < k => at[j] < at[k]
  <2> HIDE DEF n, wanted, slope, r
  <2>1. /\ Len(at) \in Nat /\ DOMAIN at = 1 .. Len(at)
        /\ \A k \in DOMAIN at : at[k] \in wanted
        /\ \A j, k \in DOMAIN at : j < k => at[j] < at[k]
    BY <1>2, <1>5, KeptIndices
  <2> QED
    BY <1>6, <2>1
<1>8. ASSUME NEW i \in wanted
      PROVE  i \in DOMAIN f /\ i > 1 /\ f[i - 1].t < f[i].t /\ slope(i) \in Int
  <2>1. i \in 1 .. n /\ i - 1 \in 1 .. n /\ i > 1 /\ i - 1 <= i
    BY <1>4
  <2>2. f[i - 1].t <= f[i].t /\ f[i - 1].t # f[i].t
    BY <1>4, <2>1
  <2>3. f[i - 1].t < f[i].t
    BY <1>4, <2>1, <2>2
  <2>4. f[i].t - f[i - 1].t \in Nat /\ f[i].t - f[i - 1].t > 0 /\ f[i].v - f[i - 1].v \in Int
    BY <1>4, <2>1, <2>3
  <2> QED
    BY <1>4, <2>1, <2>3, <2>4
<1> HIDE DEF n, wanted
<1>9. ASSUME NEW k \in 1 .. m
      PROVE  /\ at[k] \in DOMAIN f /\ r[k] \in Samples /\ r[k].t = f[at[k]].t
             /\ at[k] > 1 /\ f[at[k] - 1].t < r[k].t /\ r[k].v = slope(at[k])
  <2>1. at[k] \in wanted
    BY <1>7
  <2>2. r[k] = [t |-> f[at[k]].t, v |-> slope(at[k])]
    BY <1>7 DEF Pt
  <2>3. at[k] \in DOMAIN f /\ at[k] > 1 /\ f[at[k] - 1].t < f[at[k]].t /\ slope(at[k]) \in Int
    BY <1>8, <2>1
  <2>4. f[at[k]].t \in Int
    BY <1>4, <2>3
  <2> HIDE DEF slope, r
  <2> QED
    BY <2>2, <2>3, <2>4 DEF Samples
<1>10. r \in [1 .. m -> Samples]
  <2> DEFINE made == [k \in DOMAIN at |-> r[k]]
  <2>1. r = made
    OBVIOUS
  <2> HIDE DEF r
  <2> QED
    BY <1>7, <1>9, <2>1
<1> HIDE DEF r
<1>11. \A j, k \in 1 .. m : j < k => at[j] <= at[k]
  <2>1. \A k \in 1 .. m : at[k] \in Int
    BY <1>4, <1>9
  <2> QED
    BY <1>7, <2>1
<1>12. r \in Series /\ DOMAIN r = 1 .. m /\ Stamps(r) \subseteq Stamps(f)
  <2>1. \A k \in 1 .. m : at[k] \in DOMAIN f
    BY <1>9
  <2>2. \A k \in 1 .. m : r[k].t = f[at[k]].t
    BY <1>9
  <2>3. f \in Series /\ m \in Nat /\ DOMAIN at = 1 .. m
    BY <1>4, <1>7
  <2> HIDE DEF slope
  <2>4. Picked(r, f, at, m)
    BY <1>10, <1>11, <2>1, <2>2, <2>3 DEF Picked
  <2> QED
    BY <2>4, PickedSeries
<1>13. \A k \in DOMAIN r : \E i \in DOMAIN f :
         /\ f[i].t = r[k].t /\ i > 1 /\ f[i - 1].t < r[k].t
         /\ r[k].v = (f[i].v - f[i - 1].v) \div (f[i].t - f[i - 1].t)
  <2>1. ASSUME NEW k \in DOMAIN r
        PROVE  \E i \in DOMAIN f :
                 /\ f[i].t = r[k].t /\ i > 1 /\ f[i - 1].t < r[k].t
                 /\ r[k].v = (f[i].v - f[i - 1].v) \div (f[i].t - f[i - 1].t)
    <3>1. k \in 1 .. m
      BY <1>12
    <3>2. PICK i \in DOMAIN f : i = at[k]
      BY <1>9, <3>1
    <3> QED
      BY <1>9, <3>1, <3>2
  <2> QED
    BY <2>1
<1> QED
  BY <1>1, <1>3, <1>12, <1>13

\* Numbers that are zero add nothing.
LEMMA FlatTotal ==
  ASSUME NEW a \in Nat, NEW b \in Nat, a <= b, NEW g, \A k \in 1 .. b : g[k] \in Int,
         \A k \in a + 1 .. b : g[k] = 0
  PROVE  Total(g, b) = Total(g, a)
<1> DEFINE n == b - a
           f == [k \in 0 .. n |-> Total(g, a + k)]
           V == {Total(g, a)}
<1>1. n \in Nat
  OBVIOUS
<1>2. f[0] \in V
  <2>1. a + 0 = a /\ 0 \in 0 .. n
    OBVIOUS
  <2> QED
    BY <2>1
<1>3. ASSUME NEW k \in 1 .. n, f[k - 1] \in V PROVE f[k] \in V
  <2>1. k \in 0 .. n /\ k - 1 \in 0 .. n /\ a + k \in Nat /\ a + k > 0 /\ a + k - 1 = a + (k - 1)
    OBVIOUS
  <2>2. a + k \in a + 1 .. b /\ \A j \in 1 .. a + k : j \in 1 .. b
    OBVIOUS
  <2>3. Total(g, a + k) = Total(g, a + k - 1) + g[a + k] /\ Total(g, a + k) \in Int
    BY <2>1, <2>2, TotalGrows
  <2>4. a + k - 1 \in Nat /\ \A j \in 1 .. a + k - 1 : g[j] \in Int
    BY <2>1, <2>2
  <2>5. Total(g, a + k - 1) \in Int
    BY <2>4, TotalGrows
  <2>6. g[a + k] = 0
    BY <2>2
  <2>7. Total(g, a + k) = Total(g, a + (k - 1))
    BY <2>1, <2>3, <2>5, <2>6
  <2>8. f[k] = Total(g, a + k) /\ f[k - 1] = Total(g, a + (k - 1))
    BY <2>1
  <2> HIDE DEF f
  <2> QED
    BY <1>3, <2>7, <2>8
<1>4. \A k \in 0 .. n : f[k] \in V
  <2> HIDE DEF f, V, n
  <2> QED
    BY <1>1, <1>2, <1>3, LoopValues
<1>5. f[n] = Total(g, b) /\ n \in 0 .. n
  <2>1. a + n = b /\ n \in 0 .. n
    OBVIOUS
  <2> QED
    BY <2>1
<1> HIDE DEF f, n
<1> QED
  BY <1>4, <1>5

-----------------------------------------------------------------------------
(* The integral.                                                           *)

\* The strips under a series are numbers, and those of no width are zero.
LEMMA StripTyped ==
  ASSUME NEW f \in Series
  PROVE  \A k \in DOMAIN f : /\ Strip(f, k) \in Int
                             /\ k = 1 => Strip(f, k) = 0
                             /\ k > 1 /\ f[k].t = f[k - 1].t => Strip(f, k) = 0
<1>1. /\ Len(f) \in Nat /\ DOMAIN f = 1 .. Len(f)
      /\ \A i \in DOMAIN f : f[i].t \in Int /\ f[i].v \in Int
  BY SeriesItems
<1> SUFFICES ASSUME NEW k \in DOMAIN f
             PROVE  /\ Strip(f, k) \in Int
                    /\ k = 1 => Strip(f, k) = 0
                    /\ k > 1 /\ f[k].t = f[k - 1].t => Strip(f, k) = 0
  OBVIOUS
<1>2. CASE k = 1
  BY <1>2 DEF Strip
<1>3. CASE k # 1
  <2>1. k - 1 \in DOMAIN f
    BY <1>1, <1>3
  <2>2. PICK a : a = f[k].v + f[k - 1].v
    OBVIOUS
  <2>3. PICK b : b = f[k].t - f[k - 1].t
    OBVIOUS
  <2>4. a \in Int /\ b \in Int /\ (f[k].t = f[k - 1].t => b = 0)
    BY <1>1, <2>1, <2>2, <2>3
  <2>5. a * b \in Int /\ (b = 0 => a * b = 0)
    BY <2>4
  <2>6. Strip(f, k) = (a * b) \div 2
    BY <1>3, <2>2, <2>3 DEF Strip
  <2> QED
    BY <1>3, <2>4, <2>5, <2>6
<1> QED
  BY <1>2, <1>3

\* The area grows by strips, and by none over samples of one time.
LEMMA AreaGrows ==
  ASSUME NEW f \in Series, NEW j \in DOMAIN f, NEW i \in DOMAIN f
  PROVE  /\ AreaTo(f, i) \in Int
         /\ i = 1 => AreaTo(f, i) = 0
         /\ i > 1 => i - 1 \in DOMAIN f /\ AreaTo(f, i) = AreaTo(f, i - 1) + Strip(f, i)
         /\ (j <= i /\ \A k \in j + 1 .. i : f[k].t = f[k - 1].t) => AreaTo(f, i) = AreaTo(f, j)
<1>1. /\ Len(f) \in Nat /\ DOMAIN f = 1 .. Len(f)
  BY SeriesItems
<1> DEFINE g == [k \in DOMAIN f |-> Strip(f, k)]
<1>2. \A k \in DOMAIN f : g[k] = Strip(f, k) /\ g[k] \in Int
  BY StripTyped
<1> HIDE DEF g
<1>3. ASSUME NEW a \in DOMAIN f
      PROVE  AreaTo(f, a) = Total(g, a)
  <2> DEFINE h == [k \in 1 .. a |-> Strip(f, k)]
  <2>1. AreaTo(f, a) = Total(h, a)
    BY DEF AreaTo
  <2>2. a \in Nat /\ a <= a /\ a - a = 0
    BY <1>1
  <2>3. \A k \in 1 .. a : g[k] \in Int /\ h[k] = g[a - a + k]
    BY <1>1, <1>2
  <2> HIDE DEF h
  <2>4. Total(h, a) = Total(g, a) - Total(g, a - a)
    <3>1. (\A k \in 1 .. a : g[k] \in Int) /\ \A k \in 1 .. a : h[k] = g[a - a + k]
      BY <2>3
    <3> QED
      BY <2>2, <3>1, WindowTotal
  <2>5. Total(g, a) \in Int
    BY <2>2, <2>3, TotalGrows
  <2>6. Total(g, 0) = 0
    BY TotalGrows
  <2> QED
    BY <2>1, <2>2, <2>4, <2>5, <2>6
<1>4. i \in Nat /\ i > 0 /\ \A k \in 1 .. i : g[k] \in Int
  BY <1>1, <1>2
<1>5. Total(g, i) \in Int /\ Total(g, i) = Total(g, i - 1) + g[i]
  BY <1>4, TotalGrows
<1>6. AreaTo(f, i) \in Int
  BY <1>3, <1>5
<1>7. ASSUME i = 1 PROVE AreaTo(f, i) = 0
  <2>1. Total(g, 0) = 0
    BY TotalGrows
  <2>2. g[i] = 0 /\ i - 1 = 0
    BY <1>2, <1>7, StripTyped
  <2> QED
    BY <1>3, <1>5, <2>1, <2>2
<1>8. ASSUME i > 1 PROVE i - 1 \in DOMAIN f /\ AreaTo(f, i) = AreaTo(f, i - 1) + Strip(f, i)
  <2>1. i - 1 \in DOMAIN f
    BY <1>1, <1>8
  <2> QED
    BY <1>2, <1>3, <1>5, <2>1
<1>9. ASSUME j <= i, \A k \in j + 1 .. i : f[k].t = f[k - 1].t
      PROVE  AreaTo(f, i) = AreaTo(f, j)
  <2>1. j \in Nat /\ j > 0
    BY <1>1
  <2>2. \A k \in j + 1 .. i : k \in DOMAIN f /\ k > 1
    BY <1>1, <2>1
  <2>3. \A k \in j + 1 .. i : g[k] = 0
    BY <1>2, <1>9, <2>2, StripTyped
  <2>4. Total(g, i) = Total(g, j)
    BY <1>4, <1>9, <2>1, <2>3, FlatTotal
  <2> QED
    BY <1>3, <2>4
<1> QED
  BY <1>6, <1>7, <1>8, <1>9

\* Between two wanted numbers there is none.
LEMMA NoneBetween ==
  ASSUME NEW at, NEW m \in Nat, DOMAIN at = 1 .. m, NEW wanted, wanted \subseteq Int,
         \A k \in DOMAIN at : at[k] \in wanted,
         \A w \in wanted : \E k \in DOMAIN at : at[k] = w,
         \A j, k \in DOMAIN at : j < k => at[j] < at[k],
         NEW k \in 1 .. m, NEW w \in wanted, w < at[k]
  PROVE  k > 1 /\ w <= at[k - 1]
<1>1. PICK j \in DOMAIN at : at[j] = w
  OBVIOUS
<1>2. at[j] \in Int /\ at[k] \in Int
  OBVIOUS
<1>3. ~(k <= j)
  <2>1. ASSUME k <= j PROVE FALSE
    <3>1. k < j => at[k] < at[j]
      OBVIOUS
    <3> QED
      BY <1>1, <1>2, <2>1, <3>1
  <2> QED
    BY <2>1
<1>4. k > 1 /\ j <= k - 1 /\ k - 1 \in DOMAIN at /\ j \in Int
  BY <1>3
<1>5. j < k - 1 => at[j] < at[k - 1]
  BY <1>4
<1>6. at[k - 1] \in Int
  BY <1>4
<1> QED
  BY <1>1, <1>2, <1>4, <1>5, <1>6

\* A sequence with an item before it.
LEMMA Headed ==
  ASSUME NEW S, NEW a \in S, NEW q \in Seq(S)
  PROVE  LET r == <<a>> \o q
         IN /\ r \in Seq(S) /\ Len(r) = Len(q) + 1 /\ r[1] = a
            /\ \A k \in 2 .. Len(q) + 1 : r[k] = q[k - 1]
OBVIOUS

\* The numbers of the samples that are later than the one before them, in their order,
\* and what a sweep over them has added up.
Swept(f, m, at, wanted, acc) ==
  /\ f \in Series /\ 1 \in DOMAIN f /\ m \in Nat /\ DOMAIN at = 1 .. m
  /\ wanted \subseteq DOMAIN f /\ \A i \in wanted : i > 1
  /\ \A i \in DOMAIN f : i > 1 => (i \in wanted <=> f[i].t > f[i - 1].t)
  /\ \A k \in DOMAIN at : at[k] \in wanted
  /\ \A w \in wanted : \E k \in DOMAIN at : at[k] = w
  /\ \A j, k \in DOMAIN at : j < k => at[j] < at[k]
  /\ acc[0] = 0 /\ \A k \in 1 .. m : acc[k] = acc[k - 1] + Strip(f, at[k])

\* It is the area up to the sample.
LEMMA SweptArea ==
  ASSUME NEW f, NEW m, NEW at, NEW wanted, NEW acc, Swept(f, m, at, wanted, acc)
  PROVE  \A k \in 1 .. m : acc[k] \in Int /\ acc[k] = AreaTo(f, at[k])
<1>0. /\ f \in Series /\ 1 \in DOMAIN f /\ m \in Nat /\ DOMAIN at = 1 .. m
      /\ wanted \subseteq DOMAIN f /\ \A i \in wanted : i > 1
      /\ \A i \in DOMAIN f : i > 1 => (i \in wanted <=> f[i].t > f[i - 1].t)
      /\ \A k \in DOMAIN at : at[k] \in wanted
      /\ \A w \in wanted : \E k \in DOMAIN at : at[k] = w
      /\ \A j, k \in DOMAIN at : j < k => at[j] < at[k]
      /\ acc[0] = 0 /\ \A k \in 1 .. m : acc[k] = acc[k - 1] + Strip(f, at[k])
  BY DEF Swept
<1> USE <1>0
<1> DEFINE to(k) == IF k = 0 THEN 1 ELSE at[k]
<1>1. /\ DOMAIN f \subseteq Int /\ DOMAIN f = 1 .. Len(f) /\ Len(f) \in Nat
      /\ \A i \in DOMAIN f : f[i].t \in Int
      /\ \A i, j \in DOMAIN f : i <= j => f[i].t <= f[j].t
  BY SeriesItems
<1>2. ASSUME NEW k \in 1 .. m
      PROVE  at[k] \in DOMAIN f /\ at[k] > 1 /\ at[k] \in Int /\ at[k] \in wanted
  BY <1>1
<1>10. ASSUME NEW k \in 0 .. m
       PROVE  to(k) \in DOMAIN f /\ AreaTo(f, to(k)) \in Int
  <2>1. to(k) \in DOMAIN f
    BY <1>2
  <2> HIDE DEF to
  <2> QED
    BY <2>1, AreaGrows
<1>11. ASSUME NEW k \in 1 .. m
       PROVE  AreaTo(f, to(k)) = AreaTo(f, to(k - 1)) + Strip(f, at[k])
  <2> DEFINE b == at[k]
             a == to(k - 1)
  <2>0. k # 0 /\ k - 1 \in 0 .. m
    OBVIOUS
  <2>1. to(k) = b /\ k - 1 \in 0 .. m /\ b \in DOMAIN f /\ b > 1 /\ b \in Int
    BY <1>2, <2>0
  <2>2. a \in DOMAIN f /\ a \in Int
    BY <1>1, <1>10, <2>1
  <2>3. AreaTo(f, b) = AreaTo(f, b - 1) + Strip(f, b) /\ b - 1 \in DOMAIN f
    BY <2>1, AreaGrows
  <2>4. a <= b - 1
    <3>1. CASE k = 1
      BY <2>1, <3>1
    <3>2. CASE k # 1
      <4>1. k - 1 \in DOMAIN at /\ k \in DOMAIN at /\ k - 1 < k /\ k - 1 # 0
        BY <3>2
      <4>2. at[k - 1] < at[k] /\ a = at[k - 1]
        BY <4>1
      <4> HIDE DEF a, to
      <4> QED
        BY <2>1, <2>2, <4>2
    <3> QED
      BY <3>1, <3>2
  <2>5. ASSUME NEW j \in a + 1 .. b - 1 PROVE f[j].t = f[j - 1].t
    <3> HIDE DEF a, b, to
    <3>0. 1 <= a /\ b <= Len(f) /\ j \in Int /\ a < j /\ j < b
      BY <1>1, <2>1, <2>2
    <3>1. j \in DOMAIN f /\ j - 1 \in DOMAIN f /\ j - 1 <= j /\ j \in Int /\ j > 1
      <4>1. a \in Int /\ b \in Int /\ Len(f) \in Nat
        BY <1>1, <2>1, <2>2
      <4>2. j \in 1 .. Len(f) /\ j - 1 \in 1 .. Len(f) /\ j - 1 <= j /\ j > 1
        BY <3>0, <4>1
      <4> QED
        BY <1>1, <3>0, <4>2
    <3>2. j \notin wanted
      <4>1. ASSUME j \in wanted PROVE FALSE
        <5>1. j < at[k]
          BY <3>0 DEF b
        <5>0. wanted \subseteq Int
          BY <1>1
        <5>2. k > 1 /\ j <= at[k - 1]
          BY <4>1, <5>0, <5>1, NoneBetween
        <5>3. a = at[k - 1]
          BY <5>2 DEF a, to
        <5> QED
          BY <2>2, <3>0, <5>2, <5>3
      <4> QED
        BY <4>1
    <3>3. f[j - 1].t <= f[j].t /\ f[j].t \in Int /\ f[j - 1].t \in Int
      BY <1>1, <3>1
    <3>4. ~(f[j].t > f[j - 1].t)
      BY <3>1, <3>2
    <3> QED
      BY <3>3, <3>4
  <2> DEFINE c == b - 1
  <2>6. c \in DOMAIN f /\ a <= c /\ \A j \in a + 1 .. c : f[j].t = f[j - 1].t
    BY <2>3, <2>4, <2>5
  <2> HIDE DEF a, b, c, to
  <2>7. AreaTo(f, c) = AreaTo(f, a)
    BY <2>2, <2>6, AreaGrows
  <2>8. AreaTo(f, b) = AreaTo(f, a) + Strip(f, b)
    BY <2>3, <2>7 DEF c
  <2> QED
    BY <2>1, <2>8 DEF a, b
<1> HIDE DEF to
<1>12. \A k \in 0 .. m : acc[k] = AreaTo(f, to(k)) /\ acc[k] \in Int
  <2> DEFINE e == [k \in 0 .. m |-> <<acc[k], AreaTo(f, to(k))>>]
             V == {p \in Int \X Int : p[1] = p[2]}
  <2>1. e[0] \in V
    <3>1. to(0) = 1 /\ 0 \in 0 .. m
      BY DEF to
    <3>2. AreaTo(f, 1) = 0
      <4> DEFINE one == 1
      <4>1. one \in DOMAIN f
        OBVIOUS
      <4> HIDE DEF one, e, V
      <4>2. one = 1 => AreaTo(f, one) = 0
        BY <4>1, AreaGrows
      <4> QED
        BY <4>2 DEF one
    <3> QED
      BY <3>1, <3>2
  <2>2. ASSUME NEW k \in 1 .. m, e[k - 1] \in V PROVE e[k] \in V
    <3>1. k \in 0 .. m /\ k - 1 \in 0 .. m
      OBVIOUS
    <3>2. acc[k - 1] = AreaTo(f, to(k - 1))
      BY <2>2, <3>1
    <3>3. acc[k] = AreaTo(f, to(k)) /\ AreaTo(f, to(k)) \in Int
      BY <1>10, <1>11, <3>1, <3>2
    <3> QED
      BY <3>1, <3>3
  <2>3. \A k \in 0 .. m : e[k] \in V
    <3> HIDE DEF e, V
    <3> QED
      BY <2>1, <2>2, LoopValues
  <2> QED
    BY <2>3
<1> QED
  <2>1. ASSUME NEW k \in 1 .. m PROVE acc[k] \in Int /\ acc[k] = AreaTo(f, at[k])
    <3>1. k \in 0 .. m /\ to(k) = at[k]
      BY DEF to
    <3> QED
      BY <1>12, <3>1
  <2> QED
    BY <2>1

\* An integral starts at the first sample, and says at each of its points the area under
\* the samples up to it.
LEMMA IntegralIsTrue ==
  ASSUME NEW s, Finite(s) \in Series
  PROVE  LET f == Finite(s)
             r == Integral(s)
         IN /\ r \in Series /\ Stamps(r) \subseteq Stamps(f)
            /\ \A k \in DOMAIN r : \E i \in DOMAIN f : f[i].t = r[k].t /\ r[k].v = AreaTo(f, i)
<1>1. PICK f : f = Finite(s)
  OBVIOUS
<1> DEFINE n == Len(f)
           wanted == {i \in 2 .. n : f[i].t > f[i - 1].t}
<1>2. PICK at : at = Keeping(Indices(f), wanted)
  OBVIOUS
<1> DEFINE m == Len(at)
           area(i) == ((f[i].v + f[i - 1].v) * (f[i].t - f[i - 1].t)) \div 2
           Turn(h) == [k \in 0 .. m |-> IF k = 0 THEN 0 ELSE h[k - 1] + area(at[k])]
           acc == CHOOSE h : h = Turn(h)
           rest == [k \in DOMAIN at |-> Pt(f[at[k]].t, acc[k])]
           r == IF n < 2 THEN <<>> ELSE <<Pt(f[1].t, 0)>> \o rest
<1>3. r = Integral(s)
  BY <1>1, <1>2 DEF Integral
<1>4. /\ f \in Series /\ f \in Seq(Samples) /\ n \in Nat /\ DOMAIN f = 1 .. n
      /\ \A i \in DOMAIN f : f[i].t \in Int /\ f[i].v \in Int
  BY <1>1, SeriesItems
<1>5. /\ wanted \subseteq DOMAIN f /\ \A i \in wanted : i > 1
      /\ \A i \in DOMAIN f : i > 1 => (i \in wanted <=> f[i].t > f[i - 1].t)
  <2>1. ASSUME NEW i \in DOMAIN f, i > 1 PROVE i \in 2 .. n
    <3> HIDE DEF n
    <3> QED
      BY <1>4, <2>1
  <2>2. ASSUME NEW i \in 2 .. n PROVE i \in DOMAIN f /\ i > 1
    <3> HIDE DEF n
    <3> QED
      BY <1>4, <2>2
  <2> HIDE DEF n
  <2> QED
    BY <2>1, <2>2
<1>6. /\ m \in Nat /\ DOMAIN at = 1 .. m
      /\ \A k \in DOMAIN at : at[k] \in wanted
      /\ \A w \in wanted : \E k \in DOMAIN at : at[k] = w
      /\ \A j, k \in DOMAIN at : j < k => at[j] < at[k]
  <2> HIDE DEF n, wanted, area, Turn, acc, rest, r
  <2> QED
    BY <1>2, <1>4, <1>5, KeptIndices
<1>7. ASSUME NEW i \in wanted
      PROVE  i \in DOMAIN f /\ i > 1 /\ area(i) = Strip(f, i) /\ Strip(f, i) \in Int
  <2> HIDE DEF wanted, acc, rest, r, m, n
  <2>1. i \in DOMAIN f /\ i > 1 /\ i # 1
    BY <1>4, <1>5
  <2>2. Strip(f, i) = area(i)
    BY <2>1 DEF Strip
  <2> HIDE DEF area
  <2> QED
    BY <1>4, <2>1, <2>2, StripTyped
<1> HIDE DEF wanted, area, m, n
<1>8. \A k \in 1 .. m : area(at[k]) = Strip(f, at[k]) /\ Strip(f, at[k]) \in Int
  <2> HIDE DEF acc, rest, r
  <2> QED
    BY <1>6, <1>7
<1>9. acc = Turn(acc)
  <2> DEFINE d == [k \in 1 .. m |-> area(at[k])]
  <2>1. \A k \in 1 .. m : d[k] \in Int /\ d[k] = area(at[k])
    <3> HIDE DEF acc, rest, r, Turn
    <3> QED
      BY <1>8
  <2> HIDE DEF d
  <2>2. PICK h : Sums(h, d, m)
    <3> HIDE DEF acc, rest, r, Turn
    <3>1. \A k \in 1 .. m : d[k] \in Int
      BY <2>1
    <3> QED
      BY <1>6, <3>1, TotalSums
  <2>3. h = [k \in 0 .. m |-> h[k]] /\ h[0] = 0 /\ \A k \in 1 .. m : h[k] = h[k - 1] + area(at[k])
    <3> HIDE DEF acc, rest, r, Turn
    <3> QED
      BY <2>1, <2>2 DEF Sums
  <2>4. h = Turn(h)
    <3> HIDE DEF acc, rest, r
    <3>1. \A k \in 0 .. m : k # 0 => k \in 1 .. m
      BY <1>6
    <3> QED
      BY <2>3, <3>1
  <2> HIDE DEF Turn, rest, r
  <2> QED
    BY <2>4
<1> HIDE DEF acc
<1>10. acc[0] = 0 /\ \A k \in 1 .. m : acc[k] = acc[k - 1] + Strip(f, at[k])
  <2> HIDE DEF rest, r
  <2>1. 0 \in 0 .. m /\ \A k \in 1 .. m : k \in 0 .. m /\ k # 0
    BY <1>6
  <2>2. acc[0] = 0 /\ \A k \in 1 .. m : acc[k] = acc[k - 1] + area(at[k])
    BY <1>9, <2>1
  <2> QED
    BY <1>8, <2>2
<1> HIDE DEF Turn
<1>11. CASE n < 2
  <2>1. r = <<>>
    BY <1>11
  <2>2. <<>> \in Series /\ DOMAIN <<>> = {} /\ Stamps(<<>>) = {}
    BY DEF Series, InTime, Stamps
  <2> HIDE DEF r, rest
  <2> QED
    BY <1>1, <1>3, <2>1, <2>2
<1>12. CASE ~(n < 2)
  <2>1. r = <<Pt(f[1].t, 0)>> \o rest
    BY <1>12
  <2>2. 1 \in DOMAIN f
    BY <1>4, <1>12
  <2>3. \A k \in 1 .. m : acc[k] \in Int /\ acc[k] = AreaTo(f, at[k])
    <3> HIDE DEF r, rest
    <3> QED
      <4>1. m \in Nat /\ DOMAIN at = 1 .. m
        BY <1>6
      <4>2. \A i \in DOMAIN f : i > 1 => (i \in wanted <=> f[i].t > f[i - 1].t)
        BY <1>5
      <4>3. wanted \subseteq DOMAIN f /\ \A i \in wanted : i > 1
        BY <1>5
      <4>4. \A k \in DOMAIN at : at[k] \in wanted
        BY <1>6
      <4>5. \A w \in wanted : \E k \in DOMAIN at : at[k] = w
        BY <1>6
      <4>6. \A j, k \in DOMAIN at : j < k => at[j] < at[k]
        BY <1>6
      <4>7. acc[0] = 0 /\ \A k \in 1 .. m : acc[k] = acc[k - 1] + Strip(f, at[k])
        BY <1>10
      <4>8. f \in Series
        BY <1>4
      <4>9. Swept(f, m, at, wanted, acc)
        BY <2>2, <4>1, <4>2, <4>3, <4>4, <4>5, <4>6, <4>7, <4>8 DEF Swept
      <4> QED
        BY <4>9, SweptArea
  <2>4. \A k \in 1 .. m : at[k] \in DOMAIN f /\ at[k] \in Int /\ at[k] > 1
    <3> HIDE DEF r, rest
    <3> QED
      BY <1>4, <1>5, <1>6
  <2>5. rest \in Seq(Samples) /\ Len(rest) = m /\ \A k \in 1 .. m : rest[k] = [t |-> f[at[k]].t, v |-> acc[k]]
    <3>1. \A k \in 1 .. m : rest[k] = [t |-> f[at[k]].t, v |-> acc[k]]
      BY <1>6 DEF Pt
    <3>2. rest = [k \in 1 .. m |-> rest[k]]
      BY <1>6
    <3> HIDE DEF r, rest
    <3>3. \A k \in 1 .. m : rest[k] \in Samples
      <4>1. ASSUME NEW k \in 1 .. m PROVE rest[k] \in Samples
        <5>1. at[k] \in DOMAIN f /\ acc[k] \in Int
          BY <2>3, <2>4
        <5>2. f[at[k]].t \in Int
          BY <1>4, <5>1
        <5>3. rest[k] = [t |-> f[at[k]].t, v |-> acc[k]]
          BY <3>1
        <5> QED
          BY <5>1, <5>2, <5>3 DEF Samples
      <4> QED
        BY <4>1
    <3>4. rest \in [1 .. m -> Samples]
      BY <3>2, <3>3
    <3> QED
      BY <1>6, <3>1, <3>4
  <2> HIDE DEF r, rest
  <2> DEFINE c == m + 1
             idx == [k \in 1 .. c |-> IF k = 1 THEN 1 ELSE at[k - 1]]
  <2>6. c \in Nat /\ DOMAIN idx = 1 .. c /\ \A k \in 1 .. c : k # 1 => k - 1 \in 1 .. m
    BY <1>6
  <2>7. Pt(f[1].t, 0) \in Samples /\ Pt(f[1].t, 0) = [t |-> f[1].t, v |-> 0]
    <3>1. f[1].t \in Int /\ 0 \in Int
      BY <1>4, <2>2
    <3> QED
      BY <3>1 DEF Pt, Samples
  <2>8. /\ r \in Seq(Samples) /\ Len(r) = c /\ r[1] = [t |-> f[1].t, v |-> 0]
        /\ \A k \in 1 .. c : k # 1 => r[k] = rest[k - 1]
    <3>1. <<Pt(f[1].t, 0)>> \in Seq(Samples)
      BY <2>7
    <3> DEFINE p == Pt(f[1].t, 0)
    <3>2. p \in Samples /\ p = [t |-> f[1].t, v |-> 0] /\ r = <<p>> \o rest
      BY <2>1, <2>7
    <3> HIDE DEF p, idx, c
    <3>3. r \in Seq(Samples) /\ Len(r) = m + 1 /\ r[1] = p /\ \A k \in 2 .. m + 1 : r[k] = rest[k - 1]
      BY <2>5, <3>2, Headed
    <3>6. c = 1 + m
      BY <1>6 DEF c
    <3>7. \A k \in 1 .. c : k # 1 => k \in 2 .. m + 1
      BY <1>6, <3>6
    <3> QED
      BY <1>6, <3>2, <3>3, <3>6, <3>7
  <2>9. ASSUME NEW k \in 1 .. c
        PROVE  /\ idx[k] \in DOMAIN f /\ r[k] \in Samples /\ r[k].t = f[idx[k]].t
               /\ r[k].v = AreaTo(f, idx[k]) /\ idx[k] \in Int
    <3>1. CASE k = 1
      <4>1. idx[k] = 1 /\ r[k] = [t |-> f[1].t, v |-> 0]
        BY <2>8, <3>1
      <4>2. AreaTo(f, 1) = 0
        <5> DEFINE one == 1
        <5>1. one \in DOMAIN f
          BY <2>2
        <5> HIDE DEF one, idx, c
        <5>2. one = 1 => AreaTo(f, one) = 0
          BY <1>4, <5>1, AreaGrows
        <5> QED
          BY <5>2 DEF one
      <4>3. f[1].t \in Int /\ 0 \in Int /\ 1 \in Int
        BY <1>4, <2>2
      <4> HIDE DEF idx, c
      <4> QED
        BY <2>2, <4>1, <4>2, <4>3 DEF Samples
    <3>2. CASE k # 1
      <4>1. idx[k] = at[k - 1] /\ k - 1 \in 1 .. m /\ r[k] = rest[k - 1]
        BY <2>6, <2>8, <3>2
      <4>2. /\ rest[k - 1] = [t |-> f[at[k - 1]].t, v |-> acc[k - 1]] /\ rest[k - 1] \in Samples
            /\ at[k - 1] \in DOMAIN f /\ at[k - 1] \in Int /\ acc[k - 1] = AreaTo(f, at[k - 1])
        BY <2>3, <2>4, <2>5, <4>1
      <4> HIDE DEF idx, c
      <4> QED
        BY <4>1, <4>2
    <3> QED
      BY <3>1, <3>2
  <2>10. ASSUME NEW j \in 1 .. c, NEW k \in 1 .. c, j < k PROVE idx[j] <= idx[k]
    <3>1. k # 1 /\ k - 1 \in 1 .. m /\ idx[k] = at[k - 1]
      BY <2>6, <2>10
    <3>2. CASE j = 1
      <4>1. idx[j] = 1 /\ at[k - 1] > 1 /\ at[k - 1] \in Int
        BY <2>4, <3>1, <3>2
      <4> HIDE DEF idx
      <4> QED
        BY <3>1, <4>1
    <3>3. CASE j # 1
      <4>1. j - 1 \in 1 .. m /\ idx[j] = at[j - 1] /\ j - 1 < k - 1
        BY <2>6, <2>10, <3>3
      <4>2. at[j - 1] < at[k - 1] /\ at[j - 1] \in Int /\ at[k - 1] \in Int
        BY <1>6, <2>4, <3>1, <4>1
      <4> HIDE DEF idx
      <4> QED
        BY <3>1, <4>1, <4>2
    <3> QED
      BY <3>2, <3>3
  <2> HIDE DEF idx, c
  <2>11. r \in Series /\ DOMAIN r = 1 .. c /\ Stamps(r) \subseteq Stamps(f)
    <3>1. \A k \in 1 .. c : idx[k] \in DOMAIN f
      BY <2>9
    <3>2. \A k \in 1 .. c : r[k].t = f[idx[k]].t
      BY <2>9
    <3>3. r \in [1 .. c -> Samples]
      BY <2>8
    <3>4. c \in Nat /\ DOMAIN idx = 1 .. c
      BY <2>6
    <3>5. \A j, k \in 1 .. c : j < k => idx[j] <= idx[k]
      BY <2>10
    <3>6. f \in Series
      BY <1>4
    <3>7. Picked(r, f, idx, c)
      BY <3>1, <3>2, <3>3, <3>4, <3>5, <3>6 DEF Picked
    <3> QED
      BY <3>7, PickedSeries
  <2>12. \A k \in DOMAIN r : \E i \in DOMAIN f : f[i].t = r[k].t /\ r[k].v = AreaTo(f, i)
    BY <2>9, <2>11
  <2> QED
    BY <1>1, <1>3, <2>11, <2>12
<1> QED
  BY <1>11, <1>12

-----------------------------------------------------------------------------
(* The numbers of a finite set in order.                                   *)

\* Of finitely many numbers one is the least, and one the greatest.
LEMMA LeastAt ==
  ASSUME NEW n \in Nat, NEW g, n > 0, \A k \in 1 .. n : g[k] \in Int
  PROVE  \E j \in 1 .. n : \A i \in 1 .. n : g[j] <= g[i]
<1> DEFINE has(k) == k = 0 \/ \E j \in 1 .. k : \A i \in 1 .. k : g[j] <= g[i]
           f == [k \in 0 .. n |-> k]
           V == {k \in 0 .. n : has(k)}
<1>1. f[0] \in V
  OBVIOUS
<1>2. ASSUME NEW k \in 1 .. n, f[k - 1] \in V PROVE f[k] \in V
  <2>1. k - 1 \in 0 .. n /\ k \in 0 .. n /\ f[k] = k /\ f[k - 1] = k - 1
    OBVIOUS
  <2>2. has(k - 1)
    BY <1>2, <2>1
  <2> HIDE DEF f
  <2>3. CASE k = 1
    <3>1. \A i \in 1 .. k : g[1] <= g[i]
      BY <2>3
    <3> QED
      BY <2>1, <2>3, <3>1
  <2>4. CASE k # 1
    <3>1. PICK j \in 1 .. k - 1 : \A i \in 1 .. k - 1 : g[j] <= g[i]
      BY <2>2, <2>4
    <3>2. j \in 1 .. k /\ g[j] \in Int /\ g[k] \in Int /\ \A i \in 1 .. k : i = k \/ i \in 1 .. k - 1
      OBVIOUS
    <3>3. \A i \in 1 .. k : g[i] \in Int
      OBVIOUS
    <3>4. CASE g[j] <= g[k]
      BY <2>1, <3>1, <3>2, <3>4
    <3>5. CASE ~(g[j] <= g[k])
      <4>1. \A i \in 1 .. k : g[k] <= g[i]
        BY <3>1, <3>2, <3>3, <3>5
      <4> QED
        BY <2>1, <4>1
    <3> QED
      BY <3>4, <3>5
  <2> QED
    BY <2>3, <2>4
<1>3. \A k \in 0 .. n : f[k] \in V
  <2> HIDE DEF f, V
  <2> QED
    BY <1>1, <1>2, LoopValues
<1>4. has(n)
  <2>1. n \in 0 .. n /\ f[n] = n
    OBVIOUS
  <2> HIDE DEF f
  <2> QED
    BY <1>3, <2>1
<1> QED
  BY <1>4

LEMMA GreatestAt ==
  ASSUME NEW n \in Nat, NEW g, n > 0, \A k \in 1 .. n : g[k] \in Int
  PROVE  \E j \in 1 .. n : \A i \in 1 .. n : g[i] <= g[j]
<1> DEFINE h == [k \in 1 .. n |-> -g[k]]
<1>1. \A k \in 1 .. n : h[k] \in Int /\ h[k] = -g[k]
  OBVIOUS
<1> HIDE DEF h
<1>2. PICK j \in 1 .. n : \A i \in 1 .. n : h[j] <= h[i]
  BY <1>1, LeastAt
<1>3. \A i \in 1 .. n : g[i] <= g[j]
  BY <1>1, <1>2
<1> QED
  BY <1>3

LEMMA LeastOfFinite ==
  ASSUME NEW S, S \subseteq Int, IsFiniteSet(S), S # {}
  PROVE  /\ Min(S) \in S /\ \A x \in S : Min(S) <= x
         /\ Max(S) \in S /\ \A x \in S : x <= Max(S)
<1> DEFINE n == Cardinality(S)
<1>1. n \in Nat /\ ExistsBijection(1 .. n, S) /\ n > 0
  BY FS_CardinalityType, FS_EmptySet
<1>2. PICK g : g \in Bijection(1 .. n, S)
  BY <1>1 DEF ExistsBijection
<1> HIDE DEF n
<1>3. (\A k \in 1 .. n : g[k] \in S) /\ \A x \in S : \E k \in 1 .. n : g[k] = x
  BY <1>2 DEF Bijection, Surjection, Injection
<1>4. \A k \in 1 .. n : g[k] \in Int
  BY <1>3
<1>5. PICK j \in 1 .. n : \A i \in 1 .. n : g[j] <= g[i]
  BY <1>1, <1>4, LeastAt
<1>6. PICK l \in 1 .. n : \A i \in 1 .. n : g[i] <= g[l]
  BY <1>1, <1>4, GreatestAt
<1>7. g[j] \in S /\ \A x \in S : g[j] <= x
  BY <1>3, <1>5
<1>8. g[l] \in S /\ \A x \in S : g[l] >= x
  BY <1>3, <1>4, <1>6
<1>9. Min(S) \in S /\ \A x \in S : Min(S) <= x
  BY <1>7 DEF Min
<1>10. Max(S) \in S /\ \A x \in S : Max(S) >= x
  BY <1>8 DEF Max
<1> QED
  BY <1>9, <1>10

\* The numbers of a set climb, and none is passed over.
Climbing(q, S) ==
  /\ q \in Seq(S)
  /\ \A i, j \in DOMAIN q : i < j => q[i] < q[j]
  /\ \A x \in S : (\E i \in DOMAIN q : q[i] = x) \/ \A i \in DOMAIN q : q[i] < x

LEMMA ClimbsOn ==
  ASSUME NEW S, S \subseteq Int, IsFiniteSet(S), NEW q, Climbing(q, S), S \ ToSet(q) # {}
  PROVE  LET r == Append(q, Min(S \ ToSet(q))) IN Climbing(r, S) /\ Len(r) = Len(q) + 1
<1> DEFINE T == S \ ToSet(q)
           m == Min(T)
<1>1. T \subseteq Int /\ IsFiniteSet(T) /\ T # {}
  BY FS_Subset
<1>2. m \in T /\ \A x \in T : m <= x
  <2> HIDE DEF T
  <2> QED
    BY <1>1, LeastOfFinite
<1> HIDE DEF m
<1>3. PICK r : r = Append(q, m)
  OBVIOUS
<1>4. q \in Seq(S) /\ DOMAIN q = 1 .. Len(q) /\ Len(q) \in Nat
  BY DEF Climbing
<1>5. m \in S /\ m \in Int
  BY <1>2
<1>6. /\ r \in Seq(S) /\ Len(r) = Len(q) + 1 /\ DOMAIN r = 1 .. Len(q) + 1
      /\ r[Len(q) + 1] = m /\ \A i \in 1 .. Len(q) : r[i] = q[i]
  BY <1>3, <1>4, <1>5
<1>7. \A i \in DOMAIN q : q[i] < m /\ q[i] \in Int
  <2>1. ~\E i \in DOMAIN q : q[i] = m
    BY <1>2 DEF ToSet
  <2>2. \A i \in DOMAIN q : q[i] < m
    BY <1>5, <2>1 DEF Climbing
  <2>3. \A i \in DOMAIN q : q[i] \in S
    BY <1>4
  <2> QED
    BY <2>2, <2>3
<1>8. ASSUME NEW i \in DOMAIN r, NEW j \in DOMAIN r, i < j PROVE r[i] < r[j]
  <2>1. i \in 1 .. Len(q)
    BY <1>4, <1>6, <1>8
  <2>2. CASE j = Len(q) + 1
    BY <1>4, <1>6, <1>7, <2>1, <2>2
  <2>3. CASE j # Len(q) + 1
    <3>1. j \in 1 .. Len(q)
      BY <1>4, <1>6, <2>3
    <3>2. q[i] < q[j]
      BY <1>4, <1>8, <2>1, <3>1 DEF Climbing
    <3> QED
      BY <1>6, <2>1, <3>1, <3>2
  <2> QED
    BY <2>2, <2>3
<1>9. ASSUME NEW x \in S PROVE (\E i \in DOMAIN r : r[i] = x) \/ \A i \in DOMAIN r : r[i] < x
  <2>1. CASE \E i \in DOMAIN q : q[i] = x
    <3>1. PICK i \in DOMAIN q : q[i] = x
      BY <2>1
    <3>2. i \in DOMAIN r /\ r[i] = x
      BY <1>4, <1>6, <3>1
    <3> QED
      BY <3>2
  <2>2. CASE ~\E i \in DOMAIN q : q[i] = x
    <3>1. x \in T
      BY <2>2 DEF ToSet
    <3>2. m <= x /\ x \in Int
      BY <1>2, <3>1
    <3>3. CASE m = x
      <4>1. Len(q) + 1 \in DOMAIN r
        BY <1>4, <1>6
      <4> QED
        BY <1>6, <3>3, <4>1
    <3>4. CASE m # x
      <4>1. m < x
        BY <1>5, <3>2, <3>4
      <4>2. ASSUME NEW i \in DOMAIN r PROVE r[i] < x
        <5>1. i = Len(q) + 1 \/ i \in DOMAIN q
          BY <1>4, <1>6
        <5>2. r[i] = m \/ (r[i] < m /\ r[i] \in Int)
          BY <1>4, <1>6, <1>7, <5>1
        <5> QED
          BY <1>5, <3>2, <4>1, <5>2
      <4> QED
        BY <4>2
    <3> QED
      BY <3>3, <3>4
  <2> QED
    BY <2>1, <2>2
<1>10. Climbing(r, S)
  BY <1>6, <1>8, <1>9 DEF Climbing
<1> QED
  BY <1>3, <1>6, <1>10 DEF m

\* The numbers of a finite set are listed once each, the least first.
LEMMA Ascends ==
  ASSUME NEW S, S \subseteq Int, IsFiniteSet(S)
  PROVE  /\ Ascending(S) \in Seq(S)
         /\ \A i, j \in DOMAIN Ascending(S) : i < j => Ascending(S)[i] < Ascending(S)[j]
         /\ \A x \in S : \E i \in DOMAIN Ascending(S) : Ascending(S)[i] = x
<1> DEFINE n == Cardinality(S)
           least(q) == Min(S \ ToSet(q))
           Turn(f) == [k \in 0 .. n |-> IF k = 0 THEN <<>> ELSE Append(f[k - 1], least(f[k - 1]))]
           up == CHOOSE f : f = Turn(f)
           V == {q \in Seq(S) : Climbing(q, S)}
           comb == [p \in (1 .. n) \X V |-> IF S \ ToSet(p[2]) # {} THEN Append(p[2], least(p[2])) ELSE p[2]]
           none == <<>>
<1>1. Ascending(S) = up[n]
  BY DEF Ascending
<1>2. n \in Nat /\ ExistsBijection(1 .. n, S)
  BY FS_CardinalityType
<1>3. none \in V
  BY DEF Climbing
<1>4. ASSUME NEW k \in 1 .. n, NEW q \in V
      PROVE  /\ comb[<<k, q>>] \in V
             /\ S \ ToSet(q) # {} => /\ comb[<<k, q>>] = Append(q, least(q))
                                     /\ Len(comb[<<k, q>>]) = Len(q) + 1
  <2>1. comb[<<k, q>>] = IF S \ ToSet(q) # {} THEN Append(q, least(q)) ELSE q
    OBVIOUS
  <2>2. CASE S \ ToSet(q) # {}
    <3>1. Climbing(q, S)
      OBVIOUS
    <3>2. PICK r : r = Append(q, least(q))
      OBVIOUS
    <3>3. Climbing(r, S) /\ Len(r) = Len(q) + 1
      BY <2>2, <3>1, <3>2, ClimbsOn
    <3>4. comb[<<k, q>>] = r
      BY <2>1, <2>2, <3>2
    <3>5. r \in V
      BY <3>3 DEF Climbing
    <3> HIDE DEF comb, V, least
    <3> QED
      BY <3>2, <3>3, <3>4, <3>5
  <2>3. CASE S \ ToSet(q) = {}
    BY <2>1, <2>3
  <2> QED
    BY <2>2, <2>3
<1>z. n = Cardinality(S) /\ none = <<>>
  OBVIOUS
<1> HIDE DEF n, none, comb
<1>5. PICK f \in [0 .. n -> V] : f = Looped(f, n, none, comb)
  <2> HIDE DEF V, Turn, up
  <2>1. LoopIn(V, n, none, comb)
    BY <1>2, <1>3, <1>4 DEF LoopIn
  <2> QED
    BY <2>1, LoopExists
<1>6. f[0] = none /\ \A k \in 1 .. n : f[k] = comb[<<k, f[k - 1]>>] /\ f[k - 1] \in V
  <2> HIDE DEF V, Turn, up
  <2>1. 0 \in 0 .. n /\ \A k \in 1 .. n : k \in 0 .. n /\ k # 0 /\ k - 1 \in 0 .. n
    BY <1>2
  <2> QED
    BY <1>5, <2>1 DEF Looped
\* While fewer than all are listed, one is left.
<1>7. ASSUME NEW q \in V, Len(q) < n PROVE S \ ToSet(q) # {}
  <2>1. ASSUME S \ ToSet(q) = {} PROVE FALSE
    <3>1. q \in Seq(S) /\ Len(q) \in Nat /\ DOMAIN q = 1 .. Len(q)
      OBVIOUS
    <3> DEFINE c == Len(q)
    <3>2. q \in Surjection(1 .. c, S)
      BY <2>1, <3>1 DEF Surjection, ToSet
    <3> HIDE DEF c
    <3>3. ExistsSurjection(1 .. c, S)
      BY <3>2 DEF ExistsSurjection
    <3>4. Cardinality(S) <= c
      BY <3>1, <3>3, FS_SurjCardinalityBound DEF c
    <3> QED
      BY <1>2, <1>7, <1>z, <3>1, <3>4 DEF c
  <2> QED
    BY <2>1
<1>8. \A k \in 0 .. n : f[k] \in V /\ Len(f[k]) = k
  <2> DEFINE e == [k \in 0 .. n |-> <<f[k], k>>]
             W == {p \in V \X (0 .. n) : Len(p[1]) = p[2]}
  <2> HIDE DEF V, Turn, up
  <2>1. e[0] \in W
    <3>1. 0 \in 0 .. n /\ Len(none) = 0
      BY <1>2, <1>z
    <3> QED
      BY <1>3, <1>6, <3>1
  <2>2. ASSUME NEW k \in 1 .. n, e[k - 1] \in W PROVE e[k] \in W
    <3>1. k \in 0 .. n /\ k - 1 \in 0 .. n /\ k - 1 < n /\ k - 1 + 1 = k
      BY <1>2
    <3>2. e[k - 1] = <<f[k - 1], k - 1>> /\ e[k] = <<f[k], k>>
      BY <3>1
    <3>3. f[k - 1] \in V /\ Len(f[k - 1]) = k - 1
      BY <2>2, <3>2
    <3>4. S \ ToSet(f[k - 1]) # {}
      BY <1>7, <3>1, <3>3
    <3>5. f[k] \in V /\ Len(f[k]) = k
      BY <1>4, <1>6, <3>1, <3>3, <3>4
    <3> QED
      BY <3>1, <3>2, <3>5
  <2>3. \A k \in 0 .. n : e[k] \in W
    <3> HIDE DEF e, W
    <3> QED
      BY <1>2, <2>1, <2>2, LoopValues
  <2> QED
    BY <2>3
<1>9. up = Turn(up)
  <2>1. f = [k \in 0 .. n |-> f[k]]
    BY <1>5
  <2>2. ASSUME NEW k \in 0 .. n, k # 0 PROVE f[k] = Append(f[k - 1], least(f[k - 1]))
    <3> HIDE DEF V, Turn, up, least
    <3>1. k \in 1 .. n /\ k - 1 \in 0 .. n /\ k - 1 < n
      BY <1>2, <2>2
    <3>2. f[k - 1] \in V /\ Len(f[k - 1]) = k - 1
      BY <1>8, <3>1
    <3>3. S \ ToSet(f[k - 1]) # {}
      BY <1>7, <3>1, <3>2
    <3> QED
      BY <1>4, <1>6, <3>1, <3>2, <3>3
  <2>3. f = Turn(f)
    <3> HIDE DEF V, up, least
    <3> QED
      BY <1>6, <1>z, <2>1, <2>2
  <2> HIDE DEF Turn, V
  <2> QED
    BY <2>3
<1> HIDE DEF up
<1>10. up[n] \in V /\ Len(up[n]) = n
  <2> DEFINE e == [k \in 0 .. n |-> <<up[k], f[k]>>]
             W == {p \in V \X V : p[1] = p[2]}
  <2>1. up[0] = f[0] /\ 0 \in 0 .. n
    BY <1>2, <1>6, <1>9, <1>z
  <2>2. ASSUME NEW k \in 1 .. n, up[k - 1] = f[k - 1] PROVE up[k] = f[k]
    <3>1. k \in 0 .. n /\ k # 0 /\ k - 1 \in 0 .. n /\ k - 1 < n
      BY <1>2
    <3>2. up[k] = Append(up[k - 1], least(up[k - 1]))
      BY <1>9, <3>1
    <3> HIDE DEF V, Turn, least
    <3>3. f[k - 1] \in V /\ Len(f[k - 1]) = k - 1
      BY <1>8, <3>1
    <3>4. S \ ToSet(f[k - 1]) # {}
      BY <1>7, <3>1, <3>3
    <3>5. f[k] = Append(f[k - 1], least(f[k - 1]))
      BY <1>4, <1>6, <3>3, <3>4
    <3> QED
      BY <2>2, <3>2, <3>5
  <2> HIDE DEF V, Turn, least
  <2>3. e[0] \in W
    BY <1>8, <2>1
  <2>4. ASSUME NEW k \in 1 .. n, e[k - 1] \in W PROVE e[k] \in W
    <3>1. k \in 0 .. n /\ k - 1 \in 0 .. n
      BY <1>2
    <3>2. up[k - 1] = f[k - 1]
      BY <2>4, <3>1
    <3>3. up[k] = f[k] /\ f[k] \in V
      BY <1>8, <2>2, <3>1, <3>2
    <3> QED
      BY <3>1, <3>3
  <2>5. \A k \in 0 .. n : e[k] \in W
    <3> HIDE DEF e, W
    <3> QED
      BY <1>2, <2>3, <2>4, LoopValues
  <2>6. n \in 0 .. n /\ e[n] \in W
    <3>1. n \in 0 .. n
      BY <1>2
    <3> HIDE DEF e, W
    <3> QED
      BY <2>5, <3>1
  <2> QED
    BY <1>8, <2>6
<1>11. PICK a : a = up[n]
  OBVIOUS
<1>12. a \in Seq(S) /\ Climbing(a, S) /\ Len(a) = n /\ a = Ascending(S)
  BY <1>1, <1>10, <1>11
<1>13. ASSUME NEW x \in S PROVE \E i \in DOMAIN a : a[i] = x
  <2> HIDE DEF V, Turn, least
  <2>1. DOMAIN a = 1 .. n
    BY <1>2, <1>12
  <2>2. a \in Injection(1 .. n, S)
    <3>1. \A i, j \in 1 .. n : a[i] = a[j] => i = j
      <4>0. \A i \in 1 .. n : a[i] \in S
        BY <1>12, <2>1
      <4>1. \A i \in 1 .. n : a[i] \in Int
        BY <4>0
      <4>2. \A i, j \in 1 .. n : i < j => a[i] < a[j]
        BY <1>12, <2>1 DEF Climbing
      <4> QED
        BY <1>2, <4>1, <4>2
    <3>2. a \in [1 .. n -> S]
      BY <1>12, <2>1
    <3> QED
      BY <3>1, <3>2 DEF Injection, IsInjective
  <2> DEFINE D == 1 .. n
             one == 1
  <2>3. IsFiniteSet(D) /\ Cardinality(D) = n
    <3>1. one \in Int /\ n \in Int /\ D = one .. n /\ one = 1
      BY <1>2
    <3> HIDE DEF one, D
    <3>2. IsFiniteSet(one .. n) /\ Cardinality(one .. n) = IF one > n THEN 0 ELSE n - one + 1
      BY <3>1, FS_Interval
    <3> QED
      BY <1>2, <3>1, <3>2
  <2>4. a \in Injection(D, S)
    BY <2>2
  <2> HIDE DEF D
  <2>5. a \in Surjection(D, S)
    BY <1>z, <2>3, <2>4, FS_Injection
  <2> QED
    BY <2>1, <2>5 DEF Surjection, D
<1> QED
  BY <1>12, <1>13 DEF Climbing

-----------------------------------------------------------------------------
(* The times of series.                                                    *)

\* What a sequence is turned into, item by item, is a finite set.
LEMMA ListedFinite ==
  ASSUME NEW n \in Nat, NEW S, NEW g \in [1 .. n -> S], \A x \in S : \E i \in 1 .. n : g[i] = x
  PROVE  IsFiniteSet(S)
<1> DEFINE D == 1 .. n
           one == 1
<1>1. IsFiniteSet(D)
  <2>1. one \in Int /\ n \in Int /\ D = one .. n
    OBVIOUS
  <2> HIDE DEF one, D
  <2>2. IsFiniteSet(one .. n)
    BY <2>1, FS_Interval
  <2> QED
    BY <2>1, <2>2
<1>2. g \in Surjection(D, S)
  BY DEF Surjection
<1> HIDE DEF D
<1> QED
  BY <1>1, <1>2, FS_Surjection

LEMMA StampsFinite ==
  ASSUME NEW f \in Series
  PROVE  IsFiniteSet(Stamps(f)) /\ Stamps(f) \subseteq Int
<1> DEFINE n == Len(f)
           g == [i \in 1 .. n |-> f[i].t]
           S == Stamps(f)
<1>1. n \in Nat /\ DOMAIN f = 1 .. n /\ \A i \in DOMAIN f : f[i].t \in Int
  BY SeriesItems
<1>2. g \in [1 .. n -> S] /\ \A x \in S : \E i \in 1 .. n : g[i] = x
  BY <1>1 DEF Stamps
<1>3. S \subseteq Int
  BY <1>1 DEF Stamps
<1> HIDE DEF n, g, S
<1>4. IsFiniteSet(S)
  BY <1>1, <1>2, ListedFinite
<1> QED
  BY <1>3, <1>4 DEF S

\* The times of finitely many series are finitely many.
LEMMA AllStampsFinite ==
  ASSUME NEW used \in Seq(Series)
  PROVE  LET S == UNION {Stamps(used[i]) : i \in DOMAIN used} IN IsFiniteSet(S) /\ S \subseteq Int
<1> DEFINE n == Len(used)
           T == {Stamps(used[i]) : i \in DOMAIN used}
           g == [i \in 1 .. n |-> Stamps(used[i])]
<1>1. n \in Nat /\ DOMAIN used = 1 .. n /\ \A i \in DOMAIN used : used[i] \in Series
  OBVIOUS
<1>2. \A i \in DOMAIN used : IsFiniteSet(Stamps(used[i])) /\ Stamps(used[i]) \subseteq Int
  BY <1>1, StampsFinite
<1>3. g \in [1 .. n -> T] /\ \A x \in T : \E i \in 1 .. n : g[i] = x
  BY <1>1
<1>4. \A x \in T : IsFiniteSet(x) /\ x \subseteq Int
  BY <1>2
<1> HIDE DEF n, T, g
<1>5. IsFiniteSet(T)
  BY <1>1, <1>3, ListedFinite
<1>6. IsFiniteSet(UNION T)
  BY <1>4, <1>5, FS_UNION
<1> QED
  BY <1>4, <1>6 DEF T

\* The times of two series, in their order.
LEMMA BothTimes ==
  ASSUME NEW l \in Series, NEW r \in Series
  PROVE  LET S == Stamps(l) \cup Stamps(r)
             times == Ascending(S)
         IN /\ times \in Seq(S) /\ S \subseteq Int
            /\ \A i, j \in DOMAIN times : i < j => times[i] < times[j]
<1> DEFINE A == Stamps(l)
           B == Stamps(r)
           S == A \cup B
<1>1. IsFiniteSet(A) /\ IsFiniteSet(B) /\ A \subseteq Int /\ B \subseteq Int
  BY StampsFinite
<1> HIDE DEF A, B
<1>2. IsFiniteSet(S) /\ S \subseteq Int
  BY <1>1, FS_Union
<1> HIDE DEF S
<1>3. /\ Ascending(S) \in Seq(S)
      /\ \A i, j \in DOMAIN Ascending(S) : i < j => Ascending(S)[i] < Ascending(S)[j]
  BY <1>2, Ascends
<1> QED
  BY <1>2, <1>3 DEF S, A, B

-----------------------------------------------------------------------------
(* The sweep of two series.                                                *)

\* The sweep's cursor stays within the series, and stands at the last sample that is not
\* later than the time, if it did not stand behind it before.
LEMMA PassedHolds ==
  ASSUME NEW f \in Series, NEW from \in 0 .. Len(f), NEW t \in Int
  PROVE  /\ Passed(f, from, t) \in 0 .. Len(f)
         /\ (\A i \in 1 .. from : f[i].t <= t) =>
              \A i \in DOMAIN f : i <= Passed(f, from, t) <=> f[i].t <= t
<1> DEFINE n == Len(f)
           later == {i \in from + 1 .. n : f[i].t > t}
           c == IF later = {} THEN n ELSE Min(later) - 1
<1>1. /\ n \in Nat /\ DOMAIN f = 1 .. n /\ \A i \in DOMAIN f : f[i].t \in Int
      /\ \A i, j \in DOMAIN f : i <= j => f[i].t <= f[j].t
  BY SeriesItems
<1>2. Passed(f, from, t) = c
  BY DEF Passed
<1>3. from \in Nat /\ from <= n
  BY <1>1
<1>4. ASSUME later # {} PROVE Min(later) \in later /\ \A i \in later : Min(later) <= i
  <2>1. later \subseteq Nat
    BY <1>1, <1>3
  <2> HIDE DEF later
  <2>2. PICK x \in later : \A y \in later : x <= y
    BY <1>4, <2>1, LeastNatural
  <2> QED
    BY <2>2 DEF Min
<1>5. \A i \in later : i \in Int /\ i > from /\ i <= n /\ f[i].t > t /\ i \in DOMAIN f
  BY <1>1, <1>3
<1>6. \A i \in DOMAIN f : i > from /\ f[i].t > t => i \in later
  BY <1>1, <1>3
<1> HIDE DEF n, later
<1>7. c \in 0 .. n
  BY <1>1, <1>3, <1>4, <1>5
<1>8. ASSUME \A i \in 1 .. from : f[i].t <= t, NEW i \in DOMAIN f
      PROVE  i <= c <=> f[i].t <= t
  <2>0. i \in Int /\ i >= 1 /\ i <= n /\ f[i].t \in Int
    BY <1>1
  <2>1. CASE later = {}
    <3>1. f[i].t <= t
      <4>1. CASE i <= from
        BY <1>3, <1>8, <2>0, <4>1
      <4>2. CASE ~(i <= from)
        BY <1>3, <1>6, <2>0, <2>1, <4>2
      <4> QED
        BY <4>1, <4>2
    <3> QED
      BY <2>0, <2>1, <3>1
  <2>2. CASE later # {}
    <3> DEFINE a == Min(later)
    <3>1. a \in later /\ \A j \in later : a <= j
      BY <1>4, <2>2
    <3>2. a \in DOMAIN f /\ a \in Int /\ f[a].t > t /\ f[a].t \in Int
      BY <1>1, <1>5, <3>1
    <3>3. c = a - 1
      BY <2>2
    <3> HIDE DEF a, c
    <3>4. CASE i <= c
      <4>1. i \notin later
        BY <2>0, <3>1, <3>2, <3>3, <3>4
      <4>2. f[i].t <= t
        <5>1. CASE i <= from
          BY <1>3, <1>8, <2>0, <5>1
        <5>2. CASE ~(i <= from)
          BY <1>3, <1>6, <2>0, <4>1, <5>2
        <5> QED
          BY <5>1, <5>2
      <4> QED
        BY <3>4, <4>2
    <3>5. CASE ~(i <= c)
      <4>1. a <= i
        BY <2>0, <3>2, <3>3, <3>5
      <4>2. f[a].t <= f[i].t
        BY <1>1, <3>2, <4>1
      <4> QED
        BY <2>0, <3>2, <3>5, <4>2
    <3> QED
      BY <3>4, <3>5
  <2> QED
    BY <2>1, <2>2
<1> HIDE DEF c
<1> QED
  BY <1>2, <1>7, <1>8 DEF n

\* At every time of the sweep it stands at the last sample that is not later.
LEMMA CursorHolds ==
  ASSUME NEW f \in Series, NEW S, S \subseteq Int, NEW times \in Seq(S),
         \A i, j \in DOMAIN times : i < j => times[i] < times[j]
  PROVE  \A k \in DOMAIN times :
           /\ Cursor(f, times)[k] \in 0 .. Len(f)
           /\ \A i \in DOMAIN f : i <= Cursor(f, times)[k] <=> f[i].t <= times[k]
<1> DEFINE n == Len(times)
           m == Len(f)
           Turn(h) == [k \in 0 .. n |-> IF k = 0 THEN 0 ELSE Passed(f, h[k - 1], times[k])]
           at == CHOOSE h : h = Turn(h)
           V == 0 .. m
           comb == [p \in (1 .. n) \X V |-> Passed(f, p[2], times[p[1]])]
           zero == 0
<1>1. at = Cursor(f, times)
  BY DEF Cursor
<1>2. n \in Nat /\ DOMAIN times = 1 .. n /\ \A k \in 1 .. n : times[k] \in Int
  <2>1. n \in Nat /\ DOMAIN times = 1 .. n /\ \A k \in 1 .. n : times[k] \in S
    OBVIOUS
  <2> QED
    BY <2>1
<1>3. m \in Nat /\ DOMAIN f = 1 .. m
  BY SeriesItems
<1>4. ASSUME NEW k \in 1 .. n, NEW v \in V
      PROVE  comb[<<k, v>>] \in V /\ comb[<<k, v>>] = Passed(f, v, times[k])
  <2>1. comb[<<k, v>>] = Passed(f, v, times[k])
    OBVIOUS
  <2>2. times[k] \in Int
    BY <1>2
  <2> HIDE DEF comb
  <2>3. Passed(f, v, times[k]) \in 0 .. Len(f)
    BY <2>2, PassedHolds
  <2> QED
    BY <2>1, <2>3
<1>5. zero \in V /\ zero = 0
  BY <1>3
<1> HIDE DEF zero, comb, n
<1>6. PICK h \in [0 .. n -> V] : h = Looped(h, n, zero, comb)
  <2> HIDE DEF V, Turn, at
  <2>1. LoopIn(V, n, zero, comb)
    BY <1>2, <1>4, <1>5 DEF LoopIn
  <2> QED
    BY <2>1, LoopExists
<1>7. h = Turn(h)
  <2>1. h = [k \in 0 .. n |-> h[k]]
    BY <1>6
  <2>2. \A k \in 0 .. n : k # 0 => k \in 1 .. n /\ k - 1 \in 0 .. n
    BY <1>2
  <2>3. ASSUME NEW k \in 0 .. n PROVE h[k] = IF k = 0 THEN 0 ELSE Passed(f, h[k - 1], times[k])
    <3> HIDE DEF V, Turn, at
    <3>1. h[k] = IF k = 0 THEN zero ELSE comb[<<k, h[k - 1]>>]
      BY <1>6 DEF Looped
    <3>2. k # 0 => k \in 1 .. n /\ h[k - 1] \in V
      BY <1>6, <2>2
    <3> QED
      BY <1>4, <1>5, <3>1, <3>2
  <2> HIDE DEF at, V
  <2> QED
    BY <2>1, <2>3
<1>8. at = Turn(at)
  <2> HIDE DEF Turn, V
  <2> QED
    BY <1>7
<1> HIDE DEF at
<1>9. at[0] = 0 /\ \A k \in 1 .. n : at[k] = Passed(f, at[k - 1], times[k])
  <2>1. 0 \in 0 .. n /\ \A k \in 1 .. n : k \in 0 .. n /\ k # 0
    BY <1>2
  <2> QED
    BY <1>8, <2>1
<1> HIDE DEF Turn
<1> DEFINE stands(k) == \A i \in DOMAIN f : i <= at[k] <=> f[i].t <= times[k]
           good(k) == at[k] \in V /\ (k > 0 => stands(k))
           e == [k \in 0 .. n |-> k]
           W == {k \in 0 .. n : good(k)}
<1>10. e[0] \in W
  <2>1. 0 \in 0 .. n /\ at[0] \in V
    BY <1>2, <1>3, <1>9
  <2> QED
    BY <2>1
<1>11. ASSUME NEW k \in 1 .. n, e[k - 1] \in W PROVE e[k] \in W
  <2>1. k - 1 \in 0 .. n /\ k \in 0 .. n /\ k \in Int /\ e[k - 1] = k - 1 /\ e[k] = k
    BY <1>2
  <2>2. good(k - 1)
    BY <1>11, <2>1
  <2> HIDE DEF e
  <2> DEFINE from == at[k - 1]
             t == times[k]
  <2>3. from \in 0 .. Len(f) /\ from \in Int /\ t \in Int
    BY <1>2, <1>3, <2>2
  <2>4. ASSUME NEW i \in 1 .. from PROVE f[i].t <= t
    <3>1. i \in DOMAIN f /\ i <= from
      BY <1>3, <2>3
    <3>2. CASE k = 1
      BY <1>9, <2>3, <3>1, <3>2
    <3>3. CASE k # 1
      <4>1. k - 1 > 0 /\ k - 1 \in 1 .. n /\ k - 1 < k
        BY <2>1, <3>3
      <4>2. f[i].t <= times[k - 1]
        BY <2>2, <3>1, <4>1
      <4>3. times[k - 1] < t /\ times[k - 1] \in Int
        BY <1>2, <4>1
      <4>4. f[i].t \in Int
        BY <3>1, SeriesItems
      <4> QED
        BY <2>3, <4>2, <4>3, <4>4
    <3> QED
      BY <3>2, <3>3
  <2> HIDE DEF from, t, good, W, V
  <2>5. Passed(f, from, t) \in 0 .. Len(f) /\ \A i \in DOMAIN f : i <= Passed(f, from, t) <=> f[i].t <= t
    BY <2>3, <2>4, PassedHolds
  <2>6. at[k] = Passed(f, from, t)
    BY <1>9 DEF from, t
  <2>7. good(k)
    BY <2>5, <2>6 DEF good, t, V, m
  <2> QED
    BY <2>1, <2>7 DEF W
<1>12. \A k \in 0 .. n : e[k] \in W
  <2> HIDE DEF e, W
  <2> QED
    BY <1>2, <1>10, <1>11, LoopValues
<1>13. ASSUME NEW k \in 1 .. n PROVE at[k] \in 0 .. Len(f) /\ stands(k)
  <2>1. k \in 0 .. n /\ k > 0 /\ e[k] = k
    BY <1>2
  <2>2. good(k)
    <3> HIDE DEF e, good
    <3> QED
      BY <1>12, <2>1
  <2> QED
    BY <2>1, <2>2
<1> QED
  BY <1>1, <1>2, <1>13

LEMMA OpTyped ==
  ASSUME NEW a \in Int, NEW b \in Int, NEW op \in Ops
  PROVE  ApplyBinaryOp(a, b, op) \in Int \cup {NaN}
<1>1. ASSUME b # 0 PROVE Quotient(a, b) \in Int
  <2>1. CASE b > 0
    <3>1. a \div b \in Int
      BY <2>1
    <3> QED
      BY <2>1, <3>1 DEF Quotient
  <2>2. CASE ~(b > 0)
    <3>1. -b \in Int /\ -b > 0 /\ -a \in Int
      BY <1>1, <2>2
    <3>2. (-a) \div (-b) \in Int
      BY <3>1
    <3> QED
      BY <2>2, <3>2 DEF Quotient
  <2> QED
    BY <2>1, <2>2
<1>2. a + b \in Int /\ a - b \in Int /\ a * b \in Int
  OBVIOUS
<1>3. CASE op = "add"
  BY <1>2, <1>3 DEF ApplyBinaryOp
<1>4. CASE op = "subtract"
  BY <1>2, <1>4 DEF ApplyBinaryOp
<1>5. CASE op = "multiply"
  BY <1>2, <1>5 DEF ApplyBinaryOp
<1>6. CASE op = "divide"
  <2>1. ApplyBinaryOp(a, b, op) = IF b = 0 THEN NaN ELSE Quotient(a, b)
    BY <1>6 DEF ApplyBinaryOp
  <2> QED
    BY <1>1, <2>1
<1> QED
  BY <1>3, <1>4, <1>5, <1>6 DEF Ops

\* The last sample that is not later is the one the cursor stands at.
LEMMA HeldLast ==
  ASSUME NEW f \in Series, NEW c \in 1 .. Len(f), NEW t, \A i \in DOMAIN f : i <= c <=> f[i].t <= t
  PROVE  LET held == {i \in DOMAIN f : f[i].t <= t}
         IN held # {} /\ Max(held) = c /\ c \in DOMAIN f
<1> DEFINE held == {i \in DOMAIN f : f[i].t <= t}
<1>1. Len(f) \in Nat /\ DOMAIN f = 1 .. Len(f)
  BY SeriesItems
<1>2. c \in Int /\ c \in held /\ held \subseteq Int /\ \A i \in held : i <= c
  BY <1>1
<1> HIDE DEF held
<1>3. ASSUME NEW x \in held, \A y \in held : x >= y PROVE x = c
  <2>1. x >= c /\ x <= c /\ x \in Int
    BY <1>2, <1>3
  <2> QED
    BY <1>2, <2>1
<1>4. \A y \in held : c >= y
  BY <1>2
<1>5. Max(held) = c
  BY <1>2, <1>3, <1>4 DEF Max
<1>6. c \in DOMAIN f
  BY <1>1
<1> QED
  BY <1>2, <1>5, <1>6 DEF held

\* A binary operation takes the last value of each side that is not later.
LEMMA BinaryIsTrue ==
  ASSUME NEW left, NEW right, Finite(left) \in Series, Finite(right) \in Series, NEW op \in Ops
  PROVE  LET l == Finite(left)
             r == Finite(right)
             res == BinaryOp(left, right, op)
             heldL(t) == {i \in DOMAIN l : l[i].t <= t}
             heldR(t) == {i \in DOMAIN r : r[i].t <= t}
         IN /\ res \in Series /\ Stamps(res) \subseteq Stamps(l) \cup Stamps(r)
            /\ \A k \in DOMAIN res :
                 /\ heldL(res[k].t) # {} /\ heldR(res[k].t) # {}
                 /\ res[k].v = ApplyBinaryOp(l[Max(heldL(res[k].t))].v, r[Max(heldR(res[k].t))].v, op)
<1>1. PICK l, r : l = Finite(left) /\ r = Finite(right)
  OBVIOUS
<1>2. l \in Series /\ r \in Series
  BY <1>1
<1> DEFINE S == Stamps(l) \cup Stamps(r)
<1>3. PICK times : times = Ascending(S)
  OBVIOUS
<1>4. PICK lc, rc : lc = Cursor(l, times) /\ rc = Cursor(r, times)
  OBVIOUS
<1> DEFINE wanted == {k \in DOMAIN times : lc[k] > 0 /\ rc[k] > 0}
<1>5. PICK both : both = Keeping(Indices(times), wanted)
  OBVIOUS
<1> DEFINE res == BinaryOp(left, right, op)
           val(k) == ApplyBinaryOp(l[lc[k]].v, r[rc[k]].v, op)
           raw == [i \in DOMAIN both |-> Pt(times[both[i]], val(both[i]))]
           heldL(t) == {i \in DOMAIN l : l[i].t <= t}
           heldR(t) == {i \in DOMAIN r : r[i].t <= t}
           says(p) == /\ heldL(p.t) # {} /\ heldR(p.t) # {}
                      /\ p.v = ApplyBinaryOp(l[Max(heldL(p.t))].v, r[Max(heldR(p.t))].v, op)
<1>6. res = Finite(raw)
  BY <1>1, <1>3, <1>4, <1>5 DEF BinaryOp
<1> HIDE DEF res
<1>7. /\ times \in Seq(S) /\ S \subseteq Int
      /\ \A i, j \in DOMAIN times : i < j => times[i] < times[j]
  <2> HIDE DEF wanted, raw, says, val
  <2> QED
    BY <1>2, <1>3, BothTimes
<1> HIDE DEF S
<1>8. \A k \in DOMAIN times :
        /\ lc[k] \in 0 .. Len(l) /\ \A i \in DOMAIN l : i <= lc[k] <=> l[i].t <= times[k]
        /\ rc[k] \in 0 .. Len(r) /\ \A i \in DOMAIN r : i <= rc[k] <=> r[i].t <= times[k]
  <2> HIDE DEF wanted, raw, says, val
  <2>1. \A k \in DOMAIN times :
          lc[k] \in 0 .. Len(l) /\ \A i \in DOMAIN l : i <= lc[k] <=> l[i].t <= times[k]
    BY <1>2, <1>4, <1>7, CursorHolds
  <2>2. \A k \in DOMAIN times :
          rc[k] \in 0 .. Len(r) /\ \A i \in DOMAIN r : i <= rc[k] <=> r[i].t <= times[k]
    BY <1>2, <1>4, <1>7, CursorHolds
  <2> QED
    BY <2>1, <2>2
<1>9. /\ Len(both) \in Nat /\ DOMAIN both = 1 .. Len(both)
      /\ \A i \in DOMAIN both : both[i] \in wanted
      /\ \A i, j \in DOMAIN both : i < j => both[i] < both[j]
  <2>1. wanted \subseteq DOMAIN times
    OBVIOUS
  <2> HIDE DEF wanted, raw, says, val
  <2> QED
    BY <1>5, <1>7, <2>1, KeptIndices
<1>10. ASSUME NEW k \in wanted
       PROVE  /\ k \in DOMAIN times /\ times[k] \in Int /\ times[k] \in S /\ val(k) \in Int \cup {NaN}
              /\ says([t |-> times[k], v |-> val(k)])
  <2>1. k \in DOMAIN times /\ times[k] \in S /\ times[k] \in Int
    <3>1. k \in DOMAIN times
      OBVIOUS
    <3> HIDE DEF wanted, raw, says, val, heldL, heldR
    <3>2. times[k] \in S
      BY <1>7, <3>1
    <3> QED
      BY <1>7, <3>1, <3>2
  <2>2. lc[k] \in 1 .. Len(l) /\ rc[k] \in 1 .. Len(r)
    <3>1. lc[k] \in 0 .. Len(l) /\ rc[k] \in 0 .. Len(r) /\ lc[k] > 0 /\ rc[k] > 0
      BY <1>8, <2>1
    <3>2. Len(l) \in Nat /\ Len(r) \in Nat
      BY <1>2, SeriesItems
    <3> HIDE DEF wanted, raw, says, val
    <3> QED
      BY <3>1, <3>2
  <2> HIDE DEF wanted, raw
  <2>3. PICK t : t = times[k]
    OBVIOUS
  <2>4. PICK a, b : a = lc[k] /\ b = rc[k]
    OBVIOUS
  <2>5. heldL(t) # {} /\ Max(heldL(t)) = a /\ a \in DOMAIN l
    <3>1. a \in 1 .. Len(l) /\ \A i \in DOMAIN l : i <= a <=> l[i].t <= t
      BY <1>8, <2>1, <2>2, <2>3, <2>4
    <3> HIDE DEF says, val
    <3> QED
      BY <1>2, <3>1, HeldLast
  <2>6. heldR(t) # {} /\ Max(heldR(t)) = b /\ b \in DOMAIN r
    <3>1. b \in 1 .. Len(r) /\ \A i \in DOMAIN r : i <= b <=> r[i].t <= t
      BY <1>8, <2>1, <2>2, <2>3, <2>4
    <3> HIDE DEF says, val
    <3> QED
      BY <1>2, <3>1, HeldLast
  <2> HIDE DEF heldL, heldR
  <2>7. l[a].v \in Int /\ r[b].v \in Int
    <3> HIDE DEF says, val
    <3> QED
      BY <1>2, <2>5, <2>6, SeriesItems
  <2>8. ApplyBinaryOp(l[a].v, r[b].v, op) \in Int \cup {NaN}
    BY <2>7, OpTyped
  <2>9. val(k) = ApplyBinaryOp(l[a].v, r[b].v, op)
    BY <2>4
  <2> HIDE DEF val
  <2>10. says([t |-> times[k], v |-> val(k)])
    BY <2>3, <2>5, <2>6, <2>9
  <2> HIDE DEF says
  <2> QED
    BY <2>1, <2>8, <2>9, <2>10
<1> HIDE DEF wanted, val
<1> DEFINE T == Points(Int, Int)
<1>11. ASSUME NEW i \in DOMAIN both
       PROVE  raw[i] = [t |-> times[both[i]], v |-> val(both[i])] /\ raw[i] \in T /\ says(raw[i]) /\ raw[i].t \in S
  <2> HIDE DEF says
  <2>1. both[i] \in wanted
    BY <1>9
  <2>2. raw[i] = [t |-> times[both[i]], v |-> val(both[i])]
    BY DEF Pt
  <2> HIDE DEF raw
  <2>3. raw[i] \in T
    BY <1>10, <2>1, <2>2 DEF Points
  <2>4. raw[i].t \in S
    BY <1>10, <2>1, <2>2
  <2> QED
    BY <1>10, <2>1, <2>2, <2>3, <2>4
<1>12. raw \in Seq(T) /\ DOMAIN raw = DOMAIN both
  <2> DEFINE made == [i \in DOMAIN both |-> raw[i]]
  <2>1. raw = made
    OBVIOUS
  <2> HIDE DEF raw, says, T
  <2>2. made \in [1 .. Len(both) -> T]
    BY <1>9, <1>11
  <2> QED
    BY <1>9, <2>1, <2>2
<1> HIDE DEF raw, says
<1>13. InTime(raw)
  <2>1. ASSUME NEW i \in DOMAIN both, NEW j \in DOMAIN both, i <= j PROVE raw[i].t <= raw[j].t
    <3>1. /\ raw[i].t = times[both[i]] /\ raw[j].t = times[both[j]]
          /\ both[i] \in DOMAIN times /\ both[j] \in DOMAIN times
          /\ times[both[i]] \in Int /\ times[both[j]] \in Int
      <4>1. both[i] \in wanted /\ both[j] \in wanted
        BY <1>9
      <4>2. raw[i].t = times[both[i]] /\ raw[j].t = times[both[j]]
        <5>1. raw[i] = [t |-> times[both[i]], v |-> val(both[i])] /\ raw[j] = [t |-> times[both[j]], v |-> val(both[j])]
          BY <1>11
        <5> QED
          BY <5>1
      <4> QED
        BY <1>10, <4>1, <4>2
    <3>2. CASE i = j
      BY <3>1, <3>2
    <3>3. CASE i # j
      <4>1. i < j
        BY <1>9, <2>1, <3>3
      <4>2. both[i] < both[j]
        BY <1>9, <4>1
      <4>3. times[both[i]] < times[both[j]]
        BY <1>7, <3>1, <4>2
      <4> QED
        BY <3>1, <4>3
    <3> QED
      BY <3>2, <3>3
  <2> QED
    BY <1>12, <2>1 DEF InTime
<1>14. res \in Series /\ Stamps(res) \subseteq Stamps(raw) /\ ToSet(res) \subseteq ToSet(raw)
  <2>1. raw \in Seq(Points(Int, Int))
    BY <1>12
  <2> HIDE DEF T
  <2> QED
    BY <1>6, <1>13, <2>1, FiniteSeries
<1>15. Stamps(raw) \subseteq S
  BY <1>11, <1>12 DEF Stamps
<1>16. \A k \in DOMAIN res : says(res[k])
  <2>1. ASSUME NEW k \in DOMAIN res PROVE says(res[k])
    <3>1. res[k] \in ToSet(res)
      BY DEF ToSet
    <3>2. PICK i \in DOMAIN raw : res[k] = raw[i]
      BY <1>14, <3>1 DEF ToSet
    <3> QED
      BY <1>11, <1>12, <3>2
  <2> QED
    BY <2>1
<1> QED
  <2>1. Stamps(res) \subseteq Stamps(l) \cup Stamps(r)
    BY <1>14, <1>15 DEF S
  <2> QED
    BY <1>1, <1>14, <1>16, <2>1 DEF says, heldL, heldR, res

-----------------------------------------------------------------------------
(* Decimation.                                                             *)

LEMMA QuotientGrows ==
  ASSUME NEW a \in Int, NEW b \in Int, NEW d \in Int, d > 0, a <= b
  PROVE  a \div d <= b \div d
OBVIOUS

LEMMA QuotientBounds ==
  ASSUME NEW a \in Int, NEW d \in Int, d > 0
  PROVE  d * (a \div d) <= a /\ a < d * (a \div d) + d /\ a \div d \in Int
OBVIOUS

LEMMA ProductGrows ==
  ASSUME NEW x \in Int, NEW y \in Int, NEW c \in Nat, x <= y
  PROVE  x * c <= y * c /\ x * c \in Int /\ y * c \in Int
OBVIOUS

LEMMA ProductShrinks ==
  ASSUME NEW a \in Int, NEW b \in Int, NEW d \in Int, d > 0, d * a < d * b
  PROVE  a < b
OBVIOUS

\* Flattening joins the sequences one after the other.
Joined(f, seqs, n, S) ==
  /\ f[0] = <<>> /\ \A k \in 0 .. n : f[k] \in Seq(S)
  /\ \A k \in 1 .. n : f[k] = f[k - 1] \o seqs[k]

LEMMA FlattenJoins ==
  ASSUME NEW S, NEW n \in Nat, NEW seqs \in [1 .. n -> Seq(S)], n > 0
  PROVE  \E f : Joined(f, seqs, n, S) /\ FlattenSeq(seqs) = f[n]
<1> DEFINE Turn(f) == [i \in 1 .. n |-> IF i = 1 THEN seqs[i] ELSE f[i - 1] \o seqs[i]]
           flatten == CHOOSE f : f = Turn(f)
           V == Seq(S)
           comb == [p \in (1 .. n) \X V |-> p[2] \o seqs[p[1]]]
           none == <<>>
<1>1. Len(seqs) = n /\ n # 0
  OBVIOUS
<1>2. FlattenSeq(seqs) = flatten[n]
  BY <1>1 DEF FlattenSeq
<1>3. \A k \in 1 .. n : seqs[k] \in V
  OBVIOUS
<1>4. ASSUME NEW k \in 1 .. n, NEW v \in V PROVE comb[<<k, v>>] = v \o seqs[k] /\ comb[<<k, v>>] \in V
  <2>1. comb[<<k, v>>] = v \o seqs[k]
    OBVIOUS
  <2>2. v \o seqs[k] \in V
    BY <1>3
  <2> QED
    BY <2>1, <2>2
<1>5. none \in V /\ none = <<>>
  OBVIOUS
<1> DEFINE m == n
<1>6. m = n /\ m \in Nat
  OBVIOUS
<1> HIDE DEF comb, none, m
<1>7. PICK f \in [0 .. m -> V] : f = Looped(f, m, none, comb)
  <2> HIDE DEF V, Turn, flatten
  <2>1. LoopIn(V, m, none, comb)
    BY <1>4, <1>5, <1>6 DEF LoopIn
  <2> QED
    BY <2>1, LoopExists
<1>8. /\ f[0] = <<>> /\ \A k \in 0 .. n : f[k] \in V
      /\ \A k \in 1 .. n : f[k] = f[k - 1] \o seqs[k]
  <2> HIDE DEF V, Turn, flatten
  <2>1. 0 \in 0 .. n /\ \A k \in 1 .. n : k \in 0 .. n /\ k # 0 /\ k - 1 \in 0 .. n
    OBVIOUS
  <2>2. \A k \in 1 .. n : f[k] = comb[<<k, f[k - 1]>>] /\ f[k - 1] \in V
    BY <1>6, <1>7, <2>1 DEF Looped
  <2>3. f[0] = <<>>
    BY <1>5, <1>6, <1>7, <2>1 DEF Looped
  <2> QED
    BY <1>4, <1>6, <1>7, <2>2, <2>3
<1>9. f[1] = seqs[1]
  <2>1. 1 \in 1 .. n /\ 1 - 1 = 0
    OBVIOUS
  <2>2. f[1] = <<>> \o seqs[1] /\ seqs[1] \in V
    BY <1>3, <1>8, <2>1
  <2> QED
    BY <2>2
<1> DEFINE g == [k \in 1 .. n |-> f[k]]
<1>10. g = Turn(g)
  <2>1. ASSUME NEW k \in 1 .. n PROVE g[k] = IF k = 1 THEN seqs[k] ELSE g[k - 1] \o seqs[k]
    <3>1. CASE k = 1
      BY <1>9, <3>1
    <3>2. CASE k # 1
      <4>1. k - 1 \in 1 .. n
        BY <3>2
      <4>2. g[k] = f[k] /\ g[k - 1] = f[k - 1] /\ f[k] = f[k - 1] \o seqs[k]
        BY <1>8, <4>1
      <4> HIDE DEF g
      <4> QED
        BY <3>2, <4>2
    <3> QED
      BY <3>1, <3>2
  <2>2. g = [k \in 1 .. n |-> g[k]]
    OBVIOUS
  <2> HIDE DEF g, flatten, V
  <2> QED
    BY <2>1, <2>2
<1>11. flatten = Turn(flatten)
  <2> HIDE DEF Turn, g
  <2> QED
    BY <1>10
<1> HIDE DEF flatten
\* There is but one such function, up to n.
<1>12. flatten[n] = f[n]
  <2> DEFINE e == [k \in 0 .. n |-> k]
             W == {k \in 0 .. n : k > 0 => flatten[k] = f[k]}
  <2>1. e[0] \in W
    OBVIOUS
  <2>2. ASSUME NEW k \in 1 .. n, e[k - 1] \in W PROVE e[k] \in W
    <3>1. e[k] = k /\ e[k - 1] = k - 1 /\ k \in 0 .. n
      OBVIOUS
    <3>2. CASE k = 1
      <4>1. flatten[k] = seqs[k]
        BY <1>11, <3>2
      <4> QED
        BY <1>9, <3>1, <3>2, <4>1
    <3>3. CASE k # 1
      <4>1. k - 1 > 0 /\ k - 1 \in 1 .. n
        BY <3>3
      <4>2. flatten[k] = flatten[k - 1] \o seqs[k]
        BY <1>11, <3>3
      <4>3. flatten[k - 1] = f[k - 1]
        BY <2>2, <3>1, <4>1
      <4>4. flatten[k] = f[k]
        BY <1>8, <4>2, <4>3
      <4> QED
        BY <3>1, <4>4
    <3> QED
      BY <3>2, <3>3
  <2>3. \A k \in 0 .. n : e[k] \in W
    <3> HIDE DEF e, W
    <3> QED
      BY <2>1, <2>2, LoopValues
  <2>4. n \in 0 .. n /\ e[n] = n
    OBVIOUS
  <2> QED
    BY <2>3, <2>4
<1>13. Joined(f, seqs, n, S)
  BY <1>8 DEF Joined
<1> QED
  BY <1>2, <1>12, <1>13

\* Samples between a lowest and a highest one of a set, if a time has one value only.
Spanned(got, all) ==
  (\A p, q \in all : p.t = q.t => p.v = q.v) =>
    \A p \in all : \E low, high \in got : low.v <= p.v /\ p.v <= high.v

\* The first of the lowest samples, the first of the highest ones, and what is kept of a
\* bucket.
Lowest(q)  == q[Min({i \in DOMAIN q : \A j \in DOMAIN q : q[i].v <= q[j].v})]
Highest(q) == q[Min({i \in DOMAIN q : \A j \in DOMAIN q : q[i].v >= q[j].v})]
Ends(q) ==
  CASE q = <<>> -> <<>>
    [] q # <<>> /\ Lowest(q).t = Highest(q).t -> <<Lowest(q)>>
    [] q # <<>> /\ Lowest(q).t < Highest(q).t -> <<Lowest(q), Highest(q)>>
    [] q # <<>> /\ Lowest(q).t > Highest(q).t -> <<Highest(q), Lowest(q)>>

LEMMA EndsFound ==
  ASSUME NEW q \in Series, q # <<>>
  PROVE  /\ Lowest(q) \in ToSet(q) /\ \A p \in ToSet(q) : Lowest(q).v <= p.v
         /\ Highest(q) \in ToSet(q) /\ \A p \in ToSet(q) : p.v <= Highest(q).v
<1> DEFINE n == Len(q)
           g == [i \in 1 .. n |-> q[i].v]
           L == {i \in DOMAIN q : \A j \in DOMAIN q : q[i].v <= q[j].v}
           H == {i \in DOMAIN q : \A j \in DOMAIN q : q[i].v >= q[j].v}
<1>1. n \in Nat /\ DOMAIN q = 1 .. n /\ q \in Seq(Samples) /\ \A i \in DOMAIN q : q[i].v \in Int
  BY SeriesItems
<1>2. n > 0
  BY <1>1
<1>3. \A i \in 1 .. n : g[i] = q[i].v /\ g[i] \in Int
  BY <1>1
<1> HIDE DEF n, g
<1>4. PICK a \in 1 .. n : \A i \in 1 .. n : g[a] <= g[i]
  BY <1>1, <1>2, <1>3, LeastAt
<1>5. PICK b \in 1 .. n : \A i \in 1 .. n : g[i] <= g[b]
  BY <1>1, <1>2, <1>3, GreatestAt
<1>6. a \in L /\ b \in H /\ L \subseteq Nat /\ H \subseteq Nat
  <2>1. \A j \in DOMAIN q : q[a].v <= q[j].v
    BY <1>1, <1>3, <1>4
  <2>2. \A j \in DOMAIN q : q[b].v >= q[j].v
    <3>1. ASSUME NEW j \in DOMAIN q PROVE q[b].v >= q[j].v
      <4>1. q[j].v = g[j] /\ q[b].v = g[b] /\ g[j] \in Int /\ g[b] \in Int /\ g[j] <= g[b]
        BY <1>1, <1>3, <1>5
      <4> QED
        BY <4>1
    <3> QED
      BY <3>1
  <2> QED
    BY <1>1, <2>1, <2>2
<1>7. PICK l, h : l = Min(L) /\ h = Min(H)
  OBVIOUS
<1>8. l \in L /\ h \in H
  <2> HIDE DEF L, H
  <2>1. L # {} /\ H # {}
    BY <1>6
  <2> QED
    BY <1>6, <1>7, <2>1, LeastOf
<1>9. Lowest(q) = q[l] /\ Highest(q) = q[h]
  BY <1>7 DEF Lowest, Highest
<1>10. /\ l \in DOMAIN q /\ \A j \in DOMAIN q : q[l].v <= q[j].v
       /\ h \in DOMAIN q /\ \A j \in DOMAIN q : q[h].v >= q[j].v
  BY <1>8
<1>11. \A j \in DOMAIN q : q[j].v <= q[h].v
  BY <1>1, <1>10
<1> QED
  BY <1>9, <1>10, <1>11 DEF ToSet

\* What is kept of a bucket are samples of it, two at the most.
LEMMA EndsKept ==
  ASSUME NEW q \in Series
  PROVE  /\ Ends(q) \in Series /\ ToSet(Ends(q)) \subseteq ToSet(q) /\ Len(Ends(q)) <= 2
         /\ Spanned(ToSet(Ends(q)), ToSet(q))
<1>1. /\ q \in Seq(Samples) /\ DOMAIN q = 1 .. Len(q)
      /\ \A p \in ToSet(q) : p \in Samples /\ p.t \in Int /\ p.v \in Int
  BY SeriesItems DEF ToSet
<1>2. CASE q = <<>>
  <2>1. Ends(q) = <<>> /\ ToSet(q) = {}
    BY <1>2 DEF Ends, ToSet
  <2> QED
    BY <1>2, <2>1 DEF Spanned
<1>3. CASE q # <<>>
  <2>1. PICK a, b : a = Lowest(q) /\ b = Highest(q)
    OBVIOUS
  <2>2. /\ a \in ToSet(q) /\ \A p \in ToSet(q) : a.v <= p.v
        /\ b \in ToSet(q) /\ \A p \in ToSet(q) : p.v <= b.v
    BY <1>3, <2>1, EndsFound
  <2>3. a \in Samples /\ b \in Samples /\ a.t \in Int /\ b.t \in Int /\ a.v \in Int /\ b.v \in Int
    BY <1>1, <2>2
  <2>4. PICK r : r = Ends(q)
    OBVIOUS
  <2>5. CASE a.t = b.t
    <3>1. r = <<a>>
      BY <1>3, <2>1, <2>3, <2>4, <2>5 DEF Ends
    <3>2. r \in Seq(Samples) /\ Len(r) = 1 /\ DOMAIN r = {1} /\ r[1] = a
      BY <2>3, <3>1
    <3>3. r \in Series
      BY <2>3, <3>2 DEF Series, InTime
    <3>4. a \in ToSet(r) /\ ToSet(r) \subseteq ToSet(q)
      BY <2>2, <3>2 DEF ToSet
    <3>5. Spanned(ToSet(r), ToSet(q))
      <4>1. ASSUME \A p1, p2 \in ToSet(q) : p1.t = p2.t => p1.v = p2.v, NEW p \in ToSet(q)
            PROVE  \E low, high \in ToSet(r) : low.v <= p.v /\ p.v <= high.v
        <5>1. a.v = b.v
          BY <2>2, <2>5, <4>1
        <5>2. a.v <= p.v /\ p.v <= a.v
          BY <2>2, <5>1
        <5> QED
          BY <3>4, <5>2
      <4> QED
        BY <4>1 DEF Spanned
    <3> QED
      BY <2>4, <3>2, <3>3, <3>4, <3>5
  <2>6. ASSUME NEW x, NEW y, x \in {a, b}, y \in {a, b}, a \in {x, y}, b \in {x, y}, r = <<x, y>>, x.t < y.t
        PROVE  /\ r \in Series /\ ToSet(r) \subseteq ToSet(q) /\ Len(r) <= 2
               /\ Spanned(ToSet(r), ToSet(q))
    <3>1. x \in Samples /\ y \in Samples /\ x.t \in Int /\ y.t \in Int /\ x \in ToSet(q) /\ y \in ToSet(q)
      BY <2>2, <2>3, <2>6
    <3>2. r \in Seq(Samples) /\ Len(r) = 2 /\ DOMAIN r = 1 .. 2 /\ r[1] = x /\ r[2] = y
      BY <2>6, <3>1
    <3>3. \A i, j \in DOMAIN r : i <= j => r[i].t <= r[j].t
      <4>1. ASSUME NEW i \in DOMAIN r, NEW j \in DOMAIN r, i <= j PROVE r[i].t <= r[j].t
        <5>1. (i = 1 /\ j = 1) \/ (i = 1 /\ j = 2) \/ (i = 2 /\ j = 2)
          BY <3>2, <4>1
        <5> QED
          BY <2>6, <3>1, <3>2, <5>1
      <4> QED
        BY <4>1
    <3>4. r \in Series
      BY <3>2, <3>3 DEF Series, InTime
    <3>5. ToSet(r) = {x, y}
      BY <3>2 DEF ToSet
    <3>6. a \in ToSet(r) /\ b \in ToSet(r) /\ ToSet(r) \subseteq ToSet(q)
      BY <2>6, <3>1, <3>5
    <3> QED
      BY <2>2, <3>2, <3>4, <3>6 DEF Spanned
  <2>7. CASE a.t < b.t
    <3>1. r = <<a, b>>
      BY <1>3, <2>1, <2>3, <2>4, <2>7 DEF Ends
    <3> QED
      BY <2>4, <2>6, <2>7, <3>1
  <2>8. CASE a.t > b.t
    <3>1. r = <<b, a>>
      BY <1>3, <2>1, <2>3, <2>4, <2>8 DEF Ends
    <3>2. b.t < a.t
      BY <2>3, <2>8
    <3> QED
      BY <2>4, <2>6, <3>1, <3>2
  <2> QED
    BY <2>3, <2>5, <2>7, <2>8
<1> QED
  BY <1>2, <1>3

\* The samples of a series that are wanted are a series.
LEMMA KeptSeries ==
  ASSUME NEW s \in Series, NEW wanted, wanted \subseteq ToSet(s)
  PROVE  Keeping(s, wanted) \in Series /\ ToSet(Keeping(s, wanted)) = wanted
<1>1. PICK r : r = Keeping(s, wanted)
  OBVIOUS
<1>2. /\ s \in Seq(Samples) /\ DOMAIN s \subseteq Int /\ \A i \in DOMAIN s : s[i] \in Samples /\ s[i].t \in Int
      /\ \A i, j \in DOMAIN s : i <= j => s[i].t <= s[j].t
  BY SeriesItems
<1>3. /\ r \in Seq(Samples)
      /\ \A k \in DOMAIN r : \E i \in DOMAIN s : s[i] \in wanted /\ r[k] = s[i]
      /\ \A i \in DOMAIN s : s[i] \in wanted => \E k \in DOMAIN r : r[k] = s[i]
      /\ \A j, k \in DOMAIN r : j < k =>
           \E a, b \in DOMAIN s : a < b /\ r[j] = s[a] /\ r[k] = s[b]
  BY <1>1, <1>2, KeepingSifts
<1>4. DOMAIN r \subseteq Int /\ \A k \in DOMAIN r : r[k].t \in Int
  BY <1>2, <1>3
<1>5. ASSUME NEW j \in DOMAIN r, NEW k \in DOMAIN r, j <= k PROVE r[j].t <= r[k].t
  <2>1. CASE j = k
    BY <1>4, <2>1
  <2>2. CASE j # k
    <3>1. j < k
      BY <1>4, <1>5, <2>2
    <3>2. PICK a \in DOMAIN s, b \in DOMAIN s : a < b /\ r[j] = s[a] /\ r[k] = s[b]
      BY <1>3, <3>1
    <3>3. a <= b
      BY <1>2, <3>2
    <3> QED
      BY <1>2, <3>2, <3>3
  <2> QED
    BY <2>1, <2>2
<1>6. r \in Series
  BY <1>3, <1>5 DEF Series, InTime
<1>7. ToSet(r) = wanted
  BY <1>3 DEF ToSet
<1> QED
  BY <1>1, <1>6, <1>7

\* Two series, of which the second is nowhere before the first, are one.
LEMMA JoinedSeries ==
  ASSUME NEW a \in Series, NEW b \in Series, \A p \in ToSet(a), q \in ToSet(b) : p.t <= q.t
  PROVE  a \o b \in Series /\ ToSet(a \o b) = ToSet(a) \cup ToSet(b) /\ Len(a \o b) = Len(a) + Len(b)
<1>1. PICK r : r = a \o b
  OBVIOUS
<1>2. PICK m, n : m = Len(a) /\ n = Len(b)
  OBVIOUS
<1>3. /\ a \in Seq(Samples) /\ m \in Nat /\ DOMAIN a = 1 .. m
      /\ \A i, j \in 1 .. m : i <= j => a[i].t <= a[j].t
  BY <1>2, SeriesItems
<1>4. /\ b \in Seq(Samples) /\ n \in Nat /\ DOMAIN b = 1 .. n
      /\ \A i, j \in 1 .. n : i <= j => b[i].t <= b[j].t
  BY <1>2, SeriesItems
<1>5. /\ r \in Seq(Samples) /\ Len(r) = m + n /\ DOMAIN r = 1 .. m + n
      /\ \A i \in 1 .. m : r[i] = a[i]
      /\ \A i \in m + 1 .. m + n : r[i] = b[i - m]
  BY <1>1, <1>2, <1>3, <1>4
<1>6. ASSUME NEW i \in 1 .. m + n, NEW j \in 1 .. m + n, i <= j PROVE r[i].t <= r[j].t
  <2>1. CASE j <= m
    <3>1. i \in 1 .. m /\ j \in 1 .. m
      BY <1>3, <1>4, <1>6, <2>1
    <3> QED
      BY <1>3, <1>5, <1>6, <3>1
  <2>2. CASE i > m
    <3>1. i \in m + 1 .. m + n /\ j \in m + 1 .. m + n /\ i - m \in 1 .. n /\ j - m \in 1 .. n /\ i - m <= j - m
      BY <1>3, <1>4, <1>6, <2>2
    <3> QED
      BY <1>4, <1>5, <3>1
  <2>3. CASE i <= m /\ j > m
    <3>1. i \in 1 .. m /\ j \in m + 1 .. m + n /\ j - m \in 1 .. n
      BY <1>3, <1>4, <2>3
    <3>2. a[i] \in ToSet(a) /\ b[j - m] \in ToSet(b)
      BY <1>3, <1>4, <3>1 DEF ToSet
    <3> QED
      BY <1>5, <3>1, <3>2
  <2> QED
    BY <1>3, <1>4, <2>1, <2>2, <2>3
<1>7. r \in Series
  BY <1>5, <1>6 DEF Series, InTime
<1>8. ASSUME NEW p \in ToSet(r) PROVE p \in ToSet(a) \cup ToSet(b)
  <2>1. PICK i \in 1 .. m + n : p = r[i]
    BY <1>5 DEF ToSet
  <2>2. CASE i <= m
    BY <1>3, <1>5, <2>1, <2>2 DEF ToSet
  <2>3. CASE i > m
    <3>1. i \in m + 1 .. m + n /\ i - m \in 1 .. n
      BY <1>3, <1>4, <2>3
    <3> QED
      BY <1>4, <1>5, <2>1, <3>1 DEF ToSet
  <2> QED
    BY <1>3, <1>4, <2>2, <2>3
<1>9. ASSUME NEW p \in ToSet(a) PROVE p \in ToSet(r)
  <2>1. PICK i \in 1 .. m : p = a[i]
    BY <1>3 DEF ToSet
  <2>2. i \in 1 .. m + n
    BY <1>3, <1>4
  <2> QED
    BY <1>5, <2>1, <2>2 DEF ToSet
<1>10. ASSUME NEW p \in ToSet(b) PROVE p \in ToSet(r)
  <2>1. PICK i \in 1 .. n : p = b[i]
    BY <1>4 DEF ToSet
  <2>2. PICK k : k = m + i
    OBVIOUS
  <2>3. k \in 1 .. m + n /\ k \in m + 1 .. m + n /\ k - m = i
    BY <1>3, <1>4, <2>2
  <2>4. r[k] = b[i] /\ k \in DOMAIN r
    BY <1>5, <2>3
  <2> QED
    BY <2>1, <2>4 DEF ToSet
<1> QED
  BY <1>1, <1>2, <1>5, <1>7, <1>8, <1>9, <1>10

\* What is kept of buckets whose numbers grow with the time.
BucketOf(s, bk, b) == {p \in ToSet(s) : bk[p] = b - 1}
Bucketed(parts, s, count, bk) ==
  /\ s \in Series /\ count \in Nat /\ count > 0
  /\ \A p \in ToSet(s) : bk[p] \in 0 .. count - 1
  /\ \A p, q \in ToSet(s) : p.t <= q.t => bk[p] <= bk[q]
  /\ parts = [b \in 1 .. count |-> Ends(Keeping(s, BucketOf(s, bk, b)))]

LEMMA PartsKept ==
  ASSUME NEW parts, NEW s, NEW count, NEW bk, Bucketed(parts, s, count, bk), NEW b \in 1 .. count
  PROVE  /\ parts[b] \in Series /\ Len(parts[b]) <= 2 /\ ToSet(parts[b]) \subseteq BucketOf(s, bk, b)
         /\ Spanned(ToSet(parts[b]), BucketOf(s, bk, b))
<1> DEFINE all == BucketOf(s, bk, b)
           q == Keeping(s, all)
<1>1. s \in Series /\ all \subseteq ToSet(s)
  BY DEF Bucketed, BucketOf
<1>2. parts[b] = Ends(q)
  BY DEF Bucketed
<1> HIDE DEF all
<1>3. q \in Series /\ ToSet(q) = all
  BY <1>1, KeptSeries
<1> HIDE DEF q
<1>4. /\ Ends(q) \in Series /\ ToSet(Ends(q)) \subseteq ToSet(q) /\ Len(Ends(q)) <= 2
      /\ Spanned(ToSet(Ends(q)), ToSet(q))
  BY <1>3, EndsKept
<1> QED
  BY <1>2, <1>3, <1>4 DEF all

LEMMA BucketsKept ==
  ASSUME NEW parts, NEW s, NEW count, NEW bk, Bucketed(parts, s, count, bk)
  PROVE  LET all == FlattenSeq(parts)
         IN /\ all \in Series /\ ToSet(all) \subseteq ToSet(s) /\ Len(all) <= 2 * count
            /\ Spanned(ToSet(all), ToSet(s))
<1>1. /\ s \in Series /\ count \in Nat /\ count > 0
      /\ \A p \in ToSet(s) : bk[p] \in 0 .. count - 1 /\ bk[p] \in Int
      /\ \A p, q \in ToSet(s) : p.t <= q.t => bk[p] <= bk[q]
  BY DEF Bucketed
<1>2. \A p \in ToSet(s) : p \in Samples /\ p.t \in Int
  BY <1>1, SeriesItems DEF ToSet
<1>3. ASSUME NEW b \in 1 .. count
      PROVE  /\ parts[b] \in Series /\ Len(parts[b]) <= 2 /\ ToSet(parts[b]) \subseteq BucketOf(s, bk, b)
             /\ Spanned(ToSet(parts[b]), BucketOf(s, bk, b))
  BY PartsKept
<1>4. parts \in [1 .. count -> Seq(Samples)]
  <2>1. \A b \in 1 .. count : parts[b] \in Seq(Samples)
    BY <1>3 DEF Series
  <2>2. parts = [b \in 1 .. count |-> parts[b]]
    BY DEF Bucketed
  <2> QED
    BY <2>1, <2>2
<1>5. PICK f : Joined(f, parts, count, Samples) /\ FlattenSeq(parts) = f[count]
  BY <1>1, <1>4, FlattenJoins
<1>6. f[0] = <<>> /\ \A k \in 1 .. count : f[k] = f[k - 1] \o parts[k]
  BY <1>5 DEF Joined
<1> DEFINE good(k) == /\ f[k] \in Series /\ Len(f[k]) <= 2 * k
                      /\ \A p \in ToSet(f[k]) : p \in ToSet(s) /\ bk[p] < k
                      /\ \A b \in 1 .. k : ToSet(parts[b]) \subseteq ToSet(f[k])
           e == [k \in 0 .. count |-> k]
           W == {k \in 0 .. count : good(k)}
<1>7. e[0] \in W
  <2>1. f[0] \in Series /\ ToSet(f[0]) = {} /\ Len(f[0]) = 0
    BY <1>6 DEF Series, InTime, ToSet
  <2>2. good(0)
    BY <2>1
  <2> HIDE DEF good
  <2> QED
    BY <1>1, <2>2
<1>8. ASSUME NEW k \in 1 .. count, e[k - 1] \in W PROVE e[k] \in W
  <2>1. e[k] = k /\ e[k - 1] = k - 1 /\ k \in 0 .. count /\ k \in Nat
    BY <1>1
  <2>2. good(k - 1)
    BY <1>8, <2>1
  <2>3. PICK a, c : a = f[k - 1] /\ c = parts[k]
    OBVIOUS
  <2>4. /\ a \in Series /\ Len(a) <= 2 * (k - 1) /\ \A p \in ToSet(a) : p \in ToSet(s) /\ bk[p] < k - 1
        /\ \A b \in 1 .. k - 1 : ToSet(parts[b]) \subseteq ToSet(a)
    BY <2>2, <2>3
  <2>5. /\ c \in Series /\ Len(c) <= 2 /\ ToSet(c) \subseteq ToSet(s)
        /\ \A p \in ToSet(c) : bk[p] = k - 1
    BY <1>3, <2>3 DEF BucketOf
  <2>6. ASSUME NEW p \in ToSet(a), NEW q \in ToSet(c) PROVE p.t <= q.t
    <3>1. p \in ToSet(s) /\ q \in ToSet(s) /\ bk[p] < bk[q] /\ bk[p] \in Int /\ bk[q] \in Int
      BY <1>1, <2>4, <2>5
    <3>2. ~(q.t <= p.t)
      BY <1>1, <3>1
    <3> QED
      BY <1>2, <3>1, <3>2
  <2>7. f[k] = a \o c
    BY <1>6, <2>3
  <2>8. f[k] \in Series /\ ToSet(f[k]) = ToSet(a) \cup ToSet(c) /\ Len(f[k]) = Len(a) + Len(c)
    BY <2>4, <2>5, <2>6, <2>7, JoinedSeries
  <2>9. Len(f[k]) <= 2 * k
    <3>1. Len(a) \in Nat /\ Len(c) \in Nat
      BY <2>4, <2>5, SeriesItems
    <3> QED
      BY <2>1, <2>4, <2>5, <2>8, <3>1
  <2>10. ASSUME NEW p \in ToSet(f[k]) PROVE p \in ToSet(s) /\ bk[p] < k
    <3>1. p \in ToSet(s) /\ (bk[p] < k - 1 \/ bk[p] = k - 1)
      BY <2>4, <2>5, <2>8
    <3>2. bk[p] \in Int
      BY <1>1, <3>1
    <3> QED
      BY <2>1, <3>1, <3>2
  <2>11. ASSUME NEW b \in 1 .. k PROVE ToSet(parts[b]) \subseteq ToSet(f[k])
    <3>1. CASE b = k
      BY <2>3, <2>8, <3>1
    <3>2. CASE b # k
      <4>1. b \in 1 .. k - 1
        BY <3>2
      <4> QED
        BY <2>4, <2>8, <4>1
    <3> QED
      BY <3>1, <3>2
  <2>12. good(k)
    BY <2>8, <2>9, <2>10, <2>11
  <2> HIDE DEF good
  <2> QED
    BY <2>1, <2>12
<1>9. \A k \in 0 .. count : e[k] \in W
  <2> HIDE DEF e, W
  <2> QED
    BY <1>1, <1>7, <1>8, LoopValues
<1>10. good(count)
  <2>1. count \in 0 .. count /\ e[count] = count
    BY <1>1
  <2> HIDE DEF e, good
  <2> QED
    BY <1>9, <2>1
<1>11. ToSet(f[count]) \subseteq ToSet(s)
  BY <1>10
<1>12. Spanned(ToSet(f[count]), ToSet(s))
  <2>1. ASSUME \A p1, p2 \in ToSet(s) : p1.t = p2.t => p1.v = p2.v, NEW p \in ToSet(s)
        PROVE  \E low, high \in ToSet(f[count]) : low.v <= p.v /\ p.v <= high.v
    <3>1. PICK b \in 1 .. count : bk[p] = b - 1
      <4>1. bk[p] + 1 \in 1 .. count /\ bk[p] = (bk[p] + 1) - 1
        BY <1>1
      <4> QED
        BY <4>1
    <3>2. p \in BucketOf(s, bk, b) /\ BucketOf(s, bk, b) \subseteq ToSet(s)
      BY <3>1 DEF BucketOf
    <3>3. \A p1, p2 \in BucketOf(s, bk, b) : p1.t = p2.t => p1.v = p2.v
      BY <2>1, <3>2
    <3>4. PICK low \in ToSet(parts[b]), high \in ToSet(parts[b]) : low.v <= p.v /\ p.v <= high.v
      BY <1>3, <3>2, <3>3 DEF Spanned
    <3>5. ToSet(parts[b]) \subseteq ToSet(f[count])
      BY <1>10
    <3> QED
      BY <3>4, <3>5
  <2> QED
    BY <2>1 DEF Spanned
<1> QED
  BY <1>5, <1>10, <1>11, <1>12

\* The bucket of a time, and that it grows with the time.
Slot(t, first, span, count) ==
  LET b == ((t - first) * count) \div span
  IN IF b < 0 THEN 0 ELSE IF b >= count THEN count - 1 ELSE b

LEMMA SlotGrows ==
  ASSUME NEW x \in Int, NEW y \in Int, NEW first \in Int, NEW span \in Int, NEW count \in Nat,
         span > 0, count > 0, x <= y
  PROVE  /\ Slot(x, first, span, count) \in 0 .. count - 1
         /\ Slot(y, first, span, count) \in 0 .. count - 1
         /\ Slot(x, first, span, count) <= Slot(y, first, span, count)
<1>1. PICK a, b : a = x - first /\ b = y - first
  OBVIOUS
<1>2. a \in Int /\ b \in Int /\ a <= b
  BY <1>1
<1>3. PICK c, d : c = a * count /\ d = b * count
  OBVIOUS
<1>4. c \in Int /\ d \in Int /\ c <= d
  BY <1>2, <1>3, ProductGrows
<1>5. PICK q, r : q = c \div span /\ r = d \div span
  OBVIOUS
<1>6. q <= r
  BY <1>4, <1>5, QuotientGrows
<1>7. q \in Int /\ r \in Int
  BY <1>4, <1>5, QuotientBounds
<1>8. Slot(x, first, span, count) = IF q < 0 THEN 0 ELSE IF q >= count THEN count - 1 ELSE q
  BY <1>1, <1>3, <1>5 DEF Slot
<1>9. Slot(y, first, span, count) = IF r < 0 THEN 0 ELSE IF r >= count THEN count - 1 ELSE r
  BY <1>1, <1>3, <1>5 DEF Slot
<1> QED
  BY <1>6, <1>7, <1>8, <1>9

\* The even sample picks points of the series, as many as are asked for.
LEMMA EvenlyPicks ==
  ASSUME NEW s \in Series, NEW target \in Nat, target > 2, Len(s) > target
  PROVE  /\ EvenlySample(s, target) \in Seq(Samples) /\ Len(EvenlySample(s, target)) = target
         /\ ToSet(EvenlySample(s, target)) \subseteq ToSet(s)
<1> DEFINE n == Len(s)
           gaps == IF target > 1 THEN target - 1 ELSE 1
           at(i) == (2 * i * (n - 1) + gaps) \div (2 * gaps)
           r == [i \in 1 .. target |-> s[at(i - 1) + 1]]
<1>1. n \in Nat /\ DOMAIN s = 1 .. n /\ s \in Seq(Samples)
  BY SeriesItems
<1>2. EvenlySample(s, target) = r
  BY <1>1 DEF EvenlySample
<1>3. ASSUME NEW i \in 1 .. target PROVE at(i - 1) + 1 \in 1 .. n
  <2>1. PICK k, g, m : k = i - 1 /\ g = target - 1 /\ m = n - 1
    OBVIOUS
  <2>2. k \in Nat /\ g \in Nat /\ m \in Nat /\ k <= g /\ g > 0
    BY <1>1, <2>1
  <2>3. PICK x, y : x = k * m /\ y = g * m
    OBVIOUS
  <2>4. x \in Int /\ y \in Int /\ x <= y
    BY <2>2, <2>3, ProductGrows
  <2>5. x \in Nat
    BY <2>2, <2>3
  <2>6. PICK a, d : a = 2 * x + g /\ d = 2 * g
    OBVIOUS
  <2>7. a \in Nat /\ d \in Int /\ d > 0
    BY <2>2, <2>5, <2>6
  <2>8. PICK q : q = a \div d
    OBVIOUS
  <2>9. d * q <= a /\ a < d * q + d /\ q \in Int
    BY <2>7, <2>8, QuotientBounds
  <2>10. q >= 0
    <3>1. d * (-1) < d * q
      <4>1. d * (-1) = -d /\ d * q \in Int
        BY <2>7, <2>9
      <4> QED
        BY <2>7, <2>9, <4>1
    <3> DEFINE minus == -1
    <3>2. minus \in Int /\ d * minus < d * q /\ minus = -1
      BY <3>1
    <3> HIDE DEF minus
    <3>3. minus < q
      BY <2>7, <2>9, <3>2, ProductShrinks
    <3> QED
      BY <2>9, <3>2, <3>3
  <2>11. q < m + 1
    <3> DEFINE p == m + 1
    <3>1. d * p = 2 * y + 2 * g
      <4>1. d * p = 2 * (g * m) + 2 * g
        BY <2>2, <2>6
      <4> QED
        BY <2>3, <4>1
    <3>2. p \in Int /\ d * q \in Int /\ p = m + 1
      BY <2>2, <2>7, <2>9
    <3> HIDE DEF p
    <3>3. d * q < d * p
      BY <2>2, <2>4, <2>6, <2>9, <3>1, <3>2
    <3>4. q < p
      BY <2>7, <2>9, <3>2, <3>3, ProductShrinks
    <3> QED
      BY <3>2, <3>4
  <2>12. at(i - 1) = q
    <3>1. gaps = g
      BY <2>1
    <3>2. 2 * k * m = 2 * x
      BY <2>2, <2>3
    <3> QED
      BY <2>1, <2>6, <2>8, <3>1, <3>2
  <2> HIDE DEF at, n
  <2> QED
    BY <1>1, <2>1, <2>2, <2>9, <2>10, <2>11, <2>12
<1> HIDE DEF at, n, gaps
<1>4. \A i \in 1 .. target : r[i] \in Samples /\ r[i] \in ToSet(s)
  <2>1. ASSUME NEW i \in 1 .. target PROVE r[i] \in Samples /\ r[i] \in ToSet(s)
    <3>1. PICK j \in 1 .. n : j = at(i - 1) + 1
      BY <1>3
    <3>2. r[i] = s[j]
      BY <3>1
    <3> HIDE DEF r
    <3> QED
      BY <1>1, <3>1, <3>2 DEF ToSet
  <2> QED
    BY <2>1
<1>5. r = [i \in 1 .. target |-> r[i]]
  OBVIOUS
<1> HIDE DEF r
<1>6. r \in Seq(Samples) /\ Len(r) = target /\ DOMAIN r = 1 .. target
  BY <1>4, <1>5
<1>7. ToSet(r) \subseteq ToSet(s)
  BY <1>4, <1>6 DEF ToSet
<1> QED
  BY <1>2, <1>6, <1>7

\* Decimation keeps samples of the series, at most as many as are asked for, with its
\* lowest and its highest value.
THEOREM DownsampleKeepsEnds ==
  ASSUME NEW s \in Series, NEW target \in Nat, target > 2
  PROVE  LET r == Downsample(s, target)
         IN r \in Series /\ ToSet(r) \subseteq ToSet(s) /\ Len(r) <= target /\ Spanned(ToSet(r), ToSet(s))
<1> DEFINE r == Downsample(s, target)
           n == Len(s)
           first == s[1].t
           span == s[n].t - first
           count == target \div 2
           bucket(p) == LET b == ((p.t - first) * count) \div span
                        IN IF b < 0 THEN 0 ELSE IF b >= count THEN count - 1 ELSE b
           parts == [b \in 1 .. count |-> Ends(Keeping(s, {p \in ToSet(s) : bucket(p) = b - 1}))]
           all == FlattenSeq(parts)
<1>1. /\ n \in Nat /\ DOMAIN s = 1 .. n /\ s \in Seq(Samples)
      /\ \A i \in DOMAIN s : s[i] \in Samples /\ s[i].t \in Int /\ s[i].v \in Int
      /\ \A i, j \in DOMAIN s : i <= j => s[i].t <= s[j].t
  BY SeriesItems
<1>2. r = CASE s = <<>> \/ target = 0 -> <<>>
            [] s # <<>> /\ target > 0 /\ Len(s) <= target -> s
            [] target > 0 /\ Len(s) > target /\ (target < 3 \/ span <= 0) -> EvenlySample(s, target)
            [] target >= 3 /\ Len(s) > target /\ span > 0 -> SubSeq(all, 1, IF Len(all) < target THEN Len(all) ELSE target)
  BY DEF Downsample, Ends, Lowest, Highest
<1> HIDE DEF r, parts, bucket
<1>3. \A p \in ToSet(s) : p.t \in Int /\ p.v \in Int
  BY <1>1 DEF ToSet
<1>4. CASE s = <<>>
  <2>1. r = <<>> /\ ToSet(s) = {} /\ Len(s) = 0
    BY <1>2, <1>4 DEF ToSet
  <2> QED
    BY <1>4, <2>1 DEF Spanned, r
<1>5. CASE s # <<>> /\ Len(s) <= target
  <2>1. r = s
    BY <1>1, <1>2, <1>5
  <2>2. Spanned(ToSet(s), ToSet(s))
    BY <1>3 DEF Spanned
  <2> QED
    BY <1>5, <2>1, <2>2 DEF r
<1>6. CASE Len(s) > target /\ span <= 0
  <2>1. s # <<>> /\ ~(Len(s) <= target) /\ ~(span > 0)
    BY <1>1, <1>6
  <2>2. r = EvenlySample(s, target)
    BY <1>1, <1>2, <1>6, <2>1
  <2>3. r \in Seq(Samples) /\ Len(r) = target /\ ToSet(r) \subseteq ToSet(s)
    BY <1>6, <2>2, EvenlyPicks
  <2>4. \A p \in ToSet(s) : p.t = first
    <3>1. ASSUME NEW i \in DOMAIN s PROVE s[i].t = first
      <4>1. 1 \in DOMAIN s /\ n \in DOMAIN s /\ 1 <= i /\ i <= n
        BY <1>1
      <4>2. first <= s[i].t /\ s[i].t <= s[n].t /\ first \in Int /\ s[i].t \in Int /\ s[n].t \in Int
        BY <1>1, <4>1
      <4>3. s[n].t - first <= 0
        BY <1>6
      <4> HIDE DEF first
      <4> QED
        BY <4>2, <4>3
    <3> QED
      BY <3>1 DEF ToSet
  <2>5. DOMAIN r = 1 .. target /\ \A i \in DOMAIN r : r[i] \in ToSet(s) /\ r[i].t = first
    BY <2>3, <2>4 DEF ToSet
  <2>6. first \in Int
    <3>1. 1 \in DOMAIN s
      BY <1>1, <2>1
    <3> QED
      BY <1>1, <3>1
  <2> HIDE DEF first
  <2>7. r \in Series
    BY <2>3, <2>5, <2>6 DEF Series, InTime
  <2>8. Spanned(ToSet(r), ToSet(s))
    <3>1. 1 \in DOMAIN r
      BY <2>5
    <3>2. r[1] \in ToSet(r) /\ r[1] \in ToSet(s)
      BY <2>5, <3>1 DEF ToSet
    <3>3. ASSUME \A p, q \in ToSet(s) : p.t = q.t => p.v = q.v, NEW p \in ToSet(s)
          PROVE  \E low, high \in ToSet(r) : low.v <= p.v /\ p.v <= high.v
      <4>1. p.v = r[1].v /\ p.v \in Int
        BY <1>3, <2>4, <3>2, <3>3
      <4>2. r[1].v <= p.v /\ p.v <= r[1].v
        BY <4>1
      <4> QED
        BY <3>2, <4>2
    <3> QED
      BY <3>3 DEF Spanned
  <2>9. Len(r) <= target
    BY <2>3
  <2> QED
    BY <2>3, <2>7, <2>8, <2>9 DEF r
<1>7. CASE Len(s) > target /\ ~(span <= 0)
  <2>1. 1 \in DOMAIN s /\ n \in DOMAIN s
    BY <1>1, <1>7
  <2>2. first \in Int /\ span \in Int /\ span > 0
    <3>1. s[1].t \in Int /\ s[n].t \in Int
      BY <1>1, <2>1
    <3> QED
      BY <1>7, <3>1
  <2>3. count \in Nat /\ count > 0 /\ 2 * count <= target
    OBVIOUS
  <2> HIDE DEF first, span, count
  <2> DEFINE bk == [p \in ToSet(s) |-> bucket(p)]
  <2>4. ASSUME NEW p \in ToSet(s)
        PROVE  bk[p] = bucket(p) /\ bucket(p) = Slot(p.t, first, span, count)
    BY DEF Slot, bucket
  <2>5. Bucketed(parts, s, count, bk)
    <3> HIDE DEF bk
    <3>1. \A p \in ToSet(s) : bk[p] \in 0 .. count - 1
      <4>1. ASSUME NEW p \in ToSet(s) PROVE bk[p] \in 0 .. count - 1
        <5> DEFINE x == p.t
        <5>1. x \in Int /\ x <= x
          BY <1>3
        <5> HIDE DEF x
        <5>2. Slot(x, first, span, count) \in 0 .. count - 1
          BY <2>2, <2>3, <5>1, SlotGrows
        <5> QED
          BY <2>4, <5>2 DEF x
      <4> QED
        BY <4>1
    <3>2. ASSUME NEW p \in ToSet(s), NEW q \in ToSet(s), p.t <= q.t PROVE bk[p] <= bk[q]
      <4> DEFINE x == p.t
                 y == q.t
      <4>1. x \in Int /\ y \in Int /\ x <= y
        BY <1>3, <3>2
      <4> HIDE DEF x, y
      <4>2. Slot(x, first, span, count) <= Slot(y, first, span, count)
        BY <2>2, <2>3, <4>1, SlotGrows
      <4> QED
        BY <2>4, <4>2 DEF x, y
    <3>3. parts = [b \in 1 .. count |-> Ends(Keeping(s, BucketOf(s, bk, b)))]
      <4>1. ASSUME NEW b \in 1 .. count PROVE BucketOf(s, bk, b) = {p \in ToSet(s) : bucket(p) = b - 1}
        BY <2>4 DEF BucketOf
      <4> QED
        BY <4>1 DEF parts
    <3> QED
      BY <2>3, <3>1, <3>2, <3>3 DEF Bucketed
  <2> HIDE DEF bk
  <2>6. PICK a : a = FlattenSeq(parts)
    OBVIOUS
  <2>7. /\ a \in Series /\ ToSet(a) \subseteq ToSet(s) /\ Len(a) <= 2 * count
        /\ Spanned(ToSet(a), ToSet(s))
    BY <2>5, <2>6, BucketsKept
  <2>8. a \in Seq(Samples) /\ Len(a) \in Nat
    BY <2>7, SeriesItems
  <2>9. Len(a) <= target
    BY <2>3, <2>7, <2>8
  <2>10. r = SubSeq(a, 1, IF Len(a) < target THEN Len(a) ELSE target)
    <3>1. s # <<>> /\ ~(Len(s) <= target) /\ ~(span <= 0) /\ target >= 3 /\ target # 0 /\ span > 0
      BY <1>1, <1>7, <2>2
    <3> QED
      BY <1>1, <1>2, <1>7, <2>2, <2>6, <3>1
  <2>11. (IF Len(a) < target THEN Len(a) ELSE target) = Len(a)
    BY <2>8, <2>9
  <2>12. r = a
    <3>1. r = SubSeq(a, 1, Len(a))
      BY <2>10, <2>11
    <3>2. SubSeq(a, 1, Len(a)) = a
      BY <2>8
    <3> QED
      BY <3>1, <3>2
  <2> QED
    BY <2>7, <2>9, <2>12 DEF r
<1> QED
  <2>1. Len(s) <= target \/ Len(s) > target
    BY <1>1
  <2> QED
    BY <1>4, <1>5, <1>6, <1>7, <2>1

-----------------------------------------------------------------------------
(* The channels built on each other.                                       *)

\* What a channel means depends on its sources only.
LEMMA MeansTheSame ==
  ASSUME NEW def, def.kind \in Kinds, NEW s, NEW z, NEW p,
         s[def.src[1]] = z[def.src[1]], def.kind = "binary-op" => s[def.src[2]] = z[def.src[2]],
         Meaning(def, s, p)
  PROVE  Meaning(def, z, p)
<1>1. PICK f : f = Finite(s[def.src[1]])
  OBVIOUS
<1>2. f = Finite(z[def.src[1]])
  BY <1>1
<1> DEFINE at == {i \in DOMAIN f : f[i].t = p.t}
           count(i) == Lesser(i, Greater(1, def.window))
<1>3. CASE def.kind = "moving-average"
  <2>1. Meaning(def, s, p) = \E i \in at : p.v = SumTo(f, i, count(i)) \div count(i)
    BY <1>1, <1>3 DEF Meaning
  <2>2. Meaning(def, z, p) = \E i \in at : p.v = SumTo(f, i, count(i)) \div count(i)
    BY <1>2, <1>3 DEF Meaning
  <2> QED
    BY <2>1, <2>2
<1>4. CASE def.kind = "derivative"
  <2> DEFINE says == \E i \in at : i > 1 /\ f[i - 1].t < p.t /\ p.v = (f[i].v - f[i - 1].v) \div (f[i].t - f[i - 1].t)
  <2>1. Meaning(def, s, p) = says
    BY <1>1, <1>4 DEF Meaning
  <2>2. Meaning(def, z, p) = says
    BY <1>2, <1>4 DEF Meaning
  <2> QED
    BY <2>1, <2>2
<1>5. CASE def.kind = "integral"
  <2>1. Meaning(def, s, p) = \E i \in at : p.v = AreaTo(f, i)
    BY <1>1, <1>5 DEF Meaning
  <2>2. Meaning(def, z, p) = \E i \in at : p.v = AreaTo(f, i)
    BY <1>2, <1>5 DEF Meaning
  <2> QED
    BY <2>1, <2>2
<1>6. CASE def.kind = "binary-op"
  <2>1. PICK g : g = Finite(s[def.src[2]])
    OBVIOUS
  <2>2. g = Finite(z[def.src[2]])
    BY <1>6, <2>1
  <2> DEFINE heldL == {i \in DOMAIN f : f[i].t <= p.t}
             heldR == {i \in DOMAIN g : g[i].t <= p.t}
             says == heldL # {} /\ heldR # {} /\ p.v = ApplyBinaryOp(f[Max(heldL)].v, g[Max(heldR)].v, def.op)
  <2>3. Meaning(def, s, p) = says
    BY <1>1, <1>6, <2>1 DEF Meaning
  <2>4. Meaning(def, z, p) = says
    BY <1>2, <1>6, <2>2 DEF Meaning
  <2> QED
    BY <2>3, <2>4
<1>7. CASE def.kind = "abs"
  <2>1. Meaning(def, s, p) = (p.v >= 0 /\ \E i \in at : f[i].v \in {p.v, -p.v})
    BY <1>1, <1>7 DEF Meaning
  <2>2. Meaning(def, z, p) = (p.v >= 0 /\ \E i \in at : f[i].v \in {p.v, -p.v})
    BY <1>2, <1>7 DEF Meaning
  <2> QED
    BY <2>1, <2>2
<1>8. CASE def.kind = "scale-offset"
  <2>1. Meaning(def, s, p) = \E i \in at : p.v = def.scale * f[i].v + def.offset
    BY <1>1, <1>8 DEF Meaning
  <2>2. Meaning(def, z, p) = \E i \in at : p.v = def.scale * f[i].v + def.offset
    BY <1>2, <1>8 DEF Meaning
  <2> QED
    BY <2>1, <2>2
<1> QED
  BY <1>3, <1>4, <1>5, <1>6, <1>7, <1>8 DEF Kinds

\* Series by their keys.
SeriesByKey(known) == \A k \in DOMAIN known : known[k] \in Series

\* The points a channel may lie at: those of its sources that are known.
SourceStamps(def, known) == UNION {Stamps(known[key]) : key \in ToSet(def.src) \cap DOMAIN known}

\* A channel is computed as its kind means it, from sources that are all known.
LEMMA ComputedIsTrue ==
  ASSUME NEW known, SeriesByKey(known), NEW def \in Definitions, Len(def.src) = SourceCount(def.kind)
  PROVE  LET c == ComputeDerived(def, known)
         IN /\ c \in Series /\ (~ ToSet(def.src) \subseteq DOMAIN known => c = <<>>)
            /\ \A k \in DOMAIN c : Meaning(def, known, c[k])
            /\ Stamps(c) \subseteq SourceStamps(def, known)
<1>1. PICK c : c = ComputeDerived(def, known)
  OBVIOUS
<1>2. /\ def.src \in Seq(SeriesKeys \cup DerivedKeys) /\ def.kind \in Kinds /\ def.window \in Int
      /\ def.op \in Ops /\ def.scale \in Int /\ def.offset \in Int
  BY DEF Definitions, Sources
<1>3. SourceCount(def.kind) \in {1, 2} /\ DOMAIN def.src = 1 .. SourceCount(def.kind)
  BY <1>2 DEF SourceCount
<1>4. ToSet(def.src) = {def.src[n] : n \in 1 .. SourceCount(def.kind)}
  BY <1>3 DEF ToSet
<1> DEFINE says == /\ c \in Series /\ (~ ToSet(def.src) \subseteq DOMAIN known => c = <<>>)
                   /\ \A k \in DOMAIN c : Meaning(def, known, c[k])
                   /\ Stamps(c) \subseteq SourceStamps(def, known)
<1>0. SUFFICES says
  BY <1>1
<1>5. CASE \E n \in 1 .. SourceCount(def.kind) : def.src[n] \notin DOMAIN known
  <2>1. c = <<>>
    BY <1>1, <1>5 DEF ComputeDerived
  <2>2. c \in Series /\ DOMAIN c = {} /\ Stamps(c) = {}
    BY <2>1 DEF Series, InTime, Stamps
  <2> QED
    BY <1>1, <2>1, <2>2
<1>6. CASE ~ \E n \in 1 .. SourceCount(def.kind) : def.src[n] \notin DOMAIN known
  <2>1. \A n \in 1 .. SourceCount(def.kind) :
          def.src[n] \in ToSet(def.src) \cap DOMAIN known /\ known[def.src[n]] \in Series
    BY <1>4, <1>6 DEF SeriesByKey
  <2>2. ToSet(def.src) \subseteq DOMAIN known
    BY <1>4, <1>6
  <2>3. PICK left : left = known[def.src[1]]
    OBVIOUS
  <2>4. PICK f : f = Finite(left)
    OBVIOUS
  <2>5. f \in Series /\ Stamps(f) \subseteq SourceStamps(def, known)
    <3>1. 1 \in 1 .. SourceCount(def.kind)
      BY <1>3
    <3>2. left \in Series /\ Stamps(left) \subseteq SourceStamps(def, known)
      BY <2>1, <2>3, <3>1 DEF SourceStamps
    <3> QED
      BY <2>4, <3>2, SeriesFinite
  <2>6. ASSUME NEW r, c = r, r \in Series, Stamps(r) \subseteq SourceStamps(def, known),
               \A k \in DOMAIN r : Meaning(def, known, r[k])
        PROVE  says
    BY <2>2, <2>6
  <2> DEFINE at(p) == {i \in DOMAIN f : f[i].t = p.t}
  <2>7. Finite(left) \in Series
    BY <2>4, <2>5
  <2>10. CASE def.kind = "moving-average"
    <3>1. PICK size : size = Greater(1, def.window)
      OBVIOUS
    <3>2. size \in Nat /\ size >= 1 /\ size = IF def.window >= 1 THEN def.window ELSE 1
      BY <1>2, <3>1 DEF Greater
    <3>3. PICK r : r = MovingAverage(left, size)
      OBVIOUS
    <3>4. c = r
      BY <1>1, <1>6, <2>3, <2>10, <3>2, <3>3 DEF ComputeDerived
    <3>5. /\ r \in Series /\ Stamps(r) \subseteq Stamps(f)
          /\ \A k \in DOMAIN r : /\ k \in DOMAIN f /\ f[k].t = r[k].t
                                 /\ r[k].v = SumTo(f, k, Lesser(k, size)) \div Lesser(k, size)
      BY <2>4, <2>7, <3>2, <3>3, AverageIsTrue
    <3>6. ASSUME NEW k \in DOMAIN r PROVE Meaning(def, known, r[k])
      <4>1. Meaning(def, known, r[k]) =
              \E i \in at(r[k]) : r[k].v = SumTo(f, i, Lesser(i, size)) \div Lesser(i, size)
        BY <2>3, <2>4, <2>10, <3>1 DEF Meaning
      <4> QED
        BY <3>5, <4>1
    <3> QED
      BY <2>5, <2>6, <3>4, <3>5, <3>6
  <2>11. CASE def.kind = "derivative"
    <3>1. PICK r : r = Derivative(left)
      OBVIOUS
    <3>2. c = r
      BY <1>1, <1>6, <2>3, <2>11, <3>1 DEF ComputeDerived
    <3>3. /\ r \in Series /\ Stamps(r) \subseteq Stamps(f)
          /\ \A k \in DOMAIN r : \E i \in DOMAIN f :
               /\ f[i].t = r[k].t /\ i > 1 /\ f[i - 1].t < r[k].t
               /\ r[k].v = (f[i].v - f[i - 1].v) \div (f[i].t - f[i - 1].t)
      BY <2>4, <2>7, <3>1, DerivativeIsTrue
    <3>4. ASSUME NEW k \in DOMAIN r PROVE Meaning(def, known, r[k])
      <4>1. Meaning(def, known, r[k]) =
              \E i \in at(r[k]) : /\ i > 1 /\ f[i - 1].t < r[k].t
                                  /\ r[k].v = (f[i].v - f[i - 1].v) \div (f[i].t - f[i - 1].t)
        BY <2>3, <2>4, <2>11 DEF Meaning
      <4> QED
        BY <3>3, <4>1
    <3> QED
      BY <2>5, <2>6, <3>2, <3>3, <3>4
  <2>12. CASE def.kind = "integral"
    <3>1. PICK r : r = Integral(left)
      OBVIOUS
    <3>2. c = r
      BY <1>1, <1>6, <2>3, <2>12, <3>1 DEF ComputeDerived
    <3>3. /\ r \in Series /\ Stamps(r) \subseteq Stamps(f)
          /\ \A k \in DOMAIN r : \E i \in DOMAIN f : f[i].t = r[k].t /\ r[k].v = AreaTo(f, i)
      BY <2>4, <2>7, <3>1, IntegralIsTrue
    <3>4. ASSUME NEW k \in DOMAIN r PROVE Meaning(def, known, r[k])
      <4>1. Meaning(def, known, r[k]) = \E i \in at(r[k]) : r[k].v = AreaTo(f, i)
        BY <2>3, <2>4, <2>12 DEF Meaning
      <4> QED
        BY <3>3, <4>1
    <3> QED
      BY <2>5, <2>6, <3>2, <3>3, <3>4
  <2>13. CASE def.kind = "abs"
    <3>1. PICK r : r = AbsValue(left)
      OBVIOUS
    <3>2. c = r
      BY <1>1, <1>6, <2>3, <2>13, <3>1 DEF ComputeDerived
    <3>3. /\ r \in Series /\ Stamps(r) \subseteq Stamps(f)
          /\ \A k \in DOMAIN r : /\ k \in DOMAIN f /\ f[k].t = r[k].t
                                 /\ r[k].v >= 0 /\ f[k].v \in {r[k].v, -r[k].v}
      BY <2>4, <2>7, <3>1, AbsIsTrue
    <3>4. ASSUME NEW k \in DOMAIN r PROVE Meaning(def, known, r[k])
      <4>1. Meaning(def, known, r[k]) = (r[k].v >= 0 /\ \E i \in at(r[k]) : f[i].v \in {r[k].v, -r[k].v})
        BY <2>3, <2>4, <2>13 DEF Meaning
      <4> QED
        BY <3>3, <4>1
    <3> QED
      BY <2>5, <2>6, <3>2, <3>3, <3>4
  <2>14. CASE def.kind = "scale-offset"
    <3>1. PICK r, by, add : r = ScaleOffset(left, by, add) /\ by = def.scale /\ add = def.offset
      OBVIOUS
    <3>2. c = r
      BY <1>1, <1>6, <2>3, <2>14, <3>1 DEF ComputeDerived
    <3>3. /\ r \in Series /\ Stamps(r) \subseteq Stamps(f)
          /\ \A k \in DOMAIN r : k \in DOMAIN f /\ f[k].t = r[k].t /\ r[k].v = by * f[k].v + add
      BY <1>2, <2>4, <2>7, <3>1, ScaledIsTrue
    <3>4. ASSUME NEW k \in DOMAIN r PROVE Meaning(def, known, r[k])
      <4>1. Meaning(def, known, r[k]) = \E i \in at(r[k]) : r[k].v = by * f[i].v + add
        BY <2>3, <2>4, <2>14, <3>1 DEF Meaning
      <4> QED
        BY <3>3, <4>1
    <3> QED
      BY <2>5, <2>6, <3>2, <3>3, <3>4
  <2>15. CASE def.kind = "binary-op"
    <3>1. PICK right : right = known[def.src[2]]
      OBVIOUS
    <3>2. PICK g : g = Finite(right)
      OBVIOUS
    <3>3. 2 \in 1 .. SourceCount(def.kind)
      BY <2>15 DEF SourceCount
    <3>4. right \in Series /\ Stamps(right) \subseteq SourceStamps(def, known)
      BY <2>1, <3>1, <3>3 DEF SourceStamps
    <3>5. g \in Series /\ Finite(right) \in Series /\ Stamps(g) \subseteq SourceStamps(def, known)
      BY <3>2, <3>4, SeriesFinite
    <3>6. PICK r, op : r = BinaryOp(left, right, op) /\ op = def.op
      OBVIOUS
    <3>7. c = r
      BY <1>1, <1>6, <2>3, <2>15, <3>1, <3>6 DEF ComputeDerived
    <3> DEFINE heldL(p) == {i \in DOMAIN f : f[i].t <= p.t}
               heldR(p) == {i \in DOMAIN g : g[i].t <= p.t}
    <3>8. /\ r \in Series /\ Stamps(r) \subseteq Stamps(f) \cup Stamps(g)
          /\ \A k \in DOMAIN r :
               /\ heldL(r[k]) # {} /\ heldR(r[k]) # {}
               /\ r[k].v = ApplyBinaryOp(f[Max(heldL(r[k]))].v, g[Max(heldR(r[k]))].v, op)
      BY <1>2, <2>4, <2>7, <3>2, <3>5, <3>6, BinaryIsTrue
    <3>9. ASSUME NEW k \in DOMAIN r PROVE Meaning(def, known, r[k])
      <4>1. Meaning(def, known, r[k]) =
              (/\ heldL(r[k]) # {} /\ heldR(r[k]) # {}
               /\ r[k].v = ApplyBinaryOp(f[Max(heldL(r[k]))].v, g[Max(heldR(r[k]))].v, op))
        BY <2>3, <2>4, <2>15, <3>1, <3>2, <3>6 DEF Meaning
      <4> QED
        BY <3>8, <4>1
    <3> QED
      BY <2>5, <2>6, <3>5, <3>7, <3>8, <3>9
  <2> QED
    BY <1>2, <2>10, <2>11, <2>12, <2>13, <2>14, <2>15 DEF Kinds
<1> QED
  BY <1>1, <1>5, <1>6

\* The channels built one after the other.
Built(f, known, defs) ==
  /\ f[0] = known /\ \A i \in DOMAIN defs : f[i] = WithDerived(f[i - 1], defs[i])
  /\ \A i \in 0 .. Len(defs) : SeriesByKey(f[i])

LEMMA BuildLoops ==
  ASSUME NEW known, SeriesByKey(known), known = [k \in DOMAIN known |-> known[k]],
         NEW defs \in Seq(Definitions), \A i \in DOMAIN defs : Len(defs[i].src) = SourceCount(defs[i].kind)
  PROVE  \E f : Built(f, known, defs) /\ BuildDerived(known, defs) = f[Len(defs)]
<1> DEFINE n == Len(defs)
           K == DOMAIN known \cup {DerivedKey(defs[i].id) : i \in DOMAIN defs}
           V == UNION {[D -> Series] : D \in SUBSET K}
           Turn(f) == [i \in 0 .. n |-> IF i = 0 THEN known ELSE WithDerived(f[i - 1], defs[i])]
           built == CHOOSE f : f = Turn(f)
           comb == [p \in (1 .. n) \X V |-> WithDerived(p[2], defs[p[1]])]
<1>1. n \in Nat /\ DOMAIN defs = 1 .. n /\ \A i \in 1 .. n : defs[i] \in Definitions
  OBVIOUS
<1>2. BuildDerived(known, defs) = built[n]
  BY DEF BuildDerived
<1>3. \A v \in V : SeriesByKey(v) /\ DOMAIN v \subseteq K
  BY DEF SeriesByKey
<1>4. known \in V
  <2>1. known \in [DOMAIN known -> Series] /\ DOMAIN known \in SUBSET K
    BY DEF SeriesByKey
  <2> QED
    BY <2>1
<1>5. ASSUME NEW i \in 1 .. n, NEW v \in V PROVE WithDerived(v, defs[i]) \in V
  <2>1. PICK d \in Definitions : d = defs[i]
    BY <1>1
  <2>2. Len(d.src) = SourceCount(d.kind) /\ SeriesByKey(v) /\ DOMAIN v \subseteq K
    BY <1>1, <1>3, <2>1
  <2>3. PICK c : c = ComputeDerived(d, v)
    OBVIOUS
  <2>4. c \in Series
    BY <2>2, <2>3, ComputedIsTrue
  <2>5. PICK key : key = DerivedKey(d.id)
    OBVIOUS
  <2>6. PICK D : D = DOMAIN v \cup {key}
    OBVIOUS
  <2>7. D \in SUBSET K
    BY <1>1, <2>1, <2>2, <2>5, <2>6
  <2>8. WithDerived(v, d) = [k \in D |-> IF k = key THEN c ELSE v[k]]
    BY <2>3, <2>5, <2>6 DEF WithDerived
  <2>9. \A k \in D : (IF k = key THEN c ELSE v[k]) \in Series
    BY <2>2, <2>4, <2>6 DEF SeriesByKey
  <2>10. WithDerived(v, d) \in [D -> Series]
    BY <2>8, <2>9
  <2> QED
    BY <2>1, <2>7, <2>10
<1> HIDE DEF V, K
<1>6. \A i \in 1 .. n, v \in V : comb[<<i, v>>] = WithDerived(v, defs[i])
  OBVIOUS
<1> HIDE DEF comb
<1>7. PICK f : f \in [0 .. n -> V] /\ f = Turn(f)
  <2> DEFINE m == n
  <2>1. LoopIn(V, m, known, comb)
    BY <1>1, <1>4, <1>5, <1>6 DEF LoopIn
  <2> HIDE DEF m, Turn
  <2>2. PICK f \in [0 .. m -> V] : f = Looped(f, m, known, comb)
    BY <2>1, LoopExists
  <2>3. m = n
    BY DEF m
  <2>4. f = [i \in 0 .. n |-> IF i = 0 THEN known ELSE comb[<<i, f[i - 1]>>]]
    BY <2>2, <2>3 DEF Looped
  <2>5. ASSUME NEW i \in 0 .. n
        PROVE  f[i] = IF i = 0 THEN known ELSE WithDerived(f[i - 1], defs[i])
    <3>1. f[i] = IF i = 0 THEN known ELSE comb[<<i, f[i - 1]>>]
      BY <2>4
    <3>2. i # 0 => i \in 1 .. n /\ i - 1 \in 0 .. n
      BY <1>1
    <3>3. i # 0 => f[i - 1] \in V
      BY <2>2, <2>3, <3>2
    <3> QED
      BY <1>6, <3>1, <3>2, <3>3
  <2>6. f = [i \in 0 .. n |-> f[i]]
    BY <2>4
  <2>7. f = Turn(f)
    BY <2>5, <2>6 DEF Turn
  <2> QED
    BY <2>2, <2>3, <2>7
<1>8. built = Turn(built)
  BY <1>7
<1>9. PICK g : g = built
  OBVIOUS
<1>10. g = Turn(g)
  BY <1>8, <1>9
<1>11. g[0] = known /\ \A i \in 1 .. n : g[i] = WithDerived(g[i - 1], defs[i])
  BY <1>1, <1>10
<1>12. \A i \in 0 .. n : g[i] \in V
  <2>1. \A i \in 1 .. n : g[i - 1] \in V => g[i] \in V
    BY <1>5, <1>11
  <2>2. g[0] \in V
    BY <1>4, <1>11
  <2> HIDE DEF n
  <2> QED
    BY <1>1, <2>1, <2>2, LoopValues
<1>13. Built(g, known, defs)
  BY <1>1, <1>3, <1>11, <1>12 DEF Built
<1> QED
  BY <1>2, <1>9, <1>13

\* After so many turns the channels of so many definitions are there, each as it was
\* computed in its turn.
BuiltTo(f, known, defs, m) ==
  /\ DOMAIN f[m] = DOMAIN known \cup {DerivedKey(defs[i].id) : i \in 1 .. m}
  /\ \A k \in DOMAIN known : f[m][k] = known[k]
  /\ \A i \in 1 .. m : f[m][DerivedKey(defs[i].id)] = ComputeDerived(defs[i], f[i - 1])

\* Definitions have numbers of their own, larger than those of the channels they use.
LEMMA NumbersApart ==
  ASSUME NEW defs \in Seq(Definitions), Numbered(defs)
  PROVE  \A i, j \in DOMAIN defs :
           /\ DerivedKey(defs[i].id) = DerivedKey(defs[j].id) => i = j
           /\ DerivedKey(defs[j].id) \in ToSet(defs[i].src) => j < i
           /\ DerivedKey(defs[i].id) \notin SeriesKeys
<1>1. ASSUME NEW i \in DOMAIN defs PROVE Last(defs[i].id) \in Nat
  <2>1. defs[i] \in Definitions
    OBVIOUS
  <2>2. PICK k : k = Last(defs[i].id)
    OBVIOUS
  <2>3. defs[i].id \in Seq(Nat) /\ defs[i].id = <<k>>
    BY <2>1, <2>2 DEF Numbered, Definitions
  <2> QED
    BY <2>2, <2>3
<1>2. DOMAIN defs \subseteq Nat
  OBVIOUS
<1>3. \A i, j \in DOMAIN defs : i < j => Last(defs[i].id) < Last(defs[j].id)
  BY DEF Numbered
<1>4. ASSUME NEW i \in DOMAIN defs, NEW j \in DOMAIN defs, DerivedKey(defs[i].id) = DerivedKey(defs[j].id)
      PROVE  i = j
  <2>1. defs[i].id = defs[j].id
    BY <1>4 DEF DerivedKey
  <2> QED
    BY <1>1, <1>2, <1>3, <2>1
<1>5. ASSUME NEW i \in DOMAIN defs, NEW j \in DOMAIN defs, DerivedKey(defs[j].id) \in ToSet(defs[i].src)
      PROVE  j < i
  <2>1. DerivedKey(defs[j].id).derived /\ DerivedKey(defs[j].id).name = defs[j].id
    BY DEF DerivedKey
  <2>2. Last(defs[j].id) < Last(defs[i].id)
    BY <1>5, <2>1 DEF Numbered
  <2> QED
    BY <1>1, <1>2, <1>3, <2>2
<1>6. \A i \in DOMAIN defs : DerivedKey(defs[i].id) \notin SeriesKeys
  BY DEF DerivedKey, SeriesKeys
<1> QED
  BY <1>4, <1>5, <1>6

LEMMA BuiltChannels ==
  ASSUME NEW known, DOMAIN known \subseteq SeriesKeys, NEW defs \in Seq(Definitions), Numbered(defs),
         NEW f, Built(f, known, defs)
  PROVE  \A m \in 0 .. Len(defs) : BuiltTo(f, known, defs, m)
<1> DEFINE n == Len(defs)
           e == [m \in 0 .. n |-> m]
           W == {m \in 0 .. n : BuiltTo(f, known, defs, m)}
<1>1. n \in Nat /\ DOMAIN defs = 1 .. n
  OBVIOUS
<1>2. f[0] = known /\ \A i \in 1 .. n : f[i] = WithDerived(f[i - 1], defs[i])
  BY <1>1 DEF Built
<1>3. BuiltTo(f, known, defs, 0)
  <2>1. PICK m : m = 0
    OBVIOUS
  <2>2. 1 .. m = {} /\ f[m] = known
    BY <1>2, <2>1
  <2>3. BuiltTo(f, known, defs, m)
    BY <2>2 DEF BuiltTo
  <2> QED
    BY <2>1, <2>3
<1>4. ASSUME NEW m \in 1 .. n, BuiltTo(f, known, defs, m - 1) PROVE BuiltTo(f, known, defs, m)
  <2>1. PICK a, d, key : a = f[m - 1] /\ d = defs[m] /\ key = DerivedKey(d.id)
    OBVIOUS
  <2>2. f[m] = [k \in DOMAIN a \cup {key} |-> IF k = key THEN ComputeDerived(d, a) ELSE a[k]]
    BY <1>2, <2>1 DEF WithDerived
  <2>3. /\ DOMAIN a = DOMAIN known \cup {DerivedKey(defs[i].id) : i \in 1 .. m - 1}
        /\ \A k \in DOMAIN known : a[k] = known[k]
        /\ \A i \in 1 .. m - 1 : a[DerivedKey(defs[i].id)] = ComputeDerived(defs[i], f[i - 1])
    BY <1>4, <2>1 DEF BuiltTo
  <2>4. key \notin DOMAIN known
    BY <1>1, <2>1, NumbersApart
  <2>5. \A i \in 1 .. m - 1 : i \in 1 .. n /\ DerivedKey(defs[i].id) # key
    <3>1. \A i \in 1 .. m - 1 : i \in 1 .. n /\ i # m
      BY <1>1
    <3> QED
      BY <1>1, <2>1, <3>1, NumbersApart
  <2>6. \A i \in 1 .. m : i = m \/ i \in 1 .. m - 1
    OBVIOUS
  <2>7. m \in 1 .. m /\ \A i \in 1 .. m - 1 : i \in 1 .. m
    OBVIOUS
  <2>8. {DerivedKey(defs[i].id) : i \in 1 .. m} = {DerivedKey(defs[i].id) : i \in 1 .. m - 1} \cup {key}
    BY <2>1, <2>6, <2>7
  <2>9. DOMAIN f[m] = DOMAIN known \cup {DerivedKey(defs[i].id) : i \in 1 .. m}
    BY <2>2, <2>3, <2>8
  <2>10. \A k \in DOMAIN known : f[m][k] = known[k]
    BY <2>2, <2>3, <2>4
  <2>11. ASSUME NEW i \in 1 .. m PROVE f[m][DerivedKey(defs[i].id)] = ComputeDerived(defs[i], f[i - 1])
    <3>1. CASE i = m
      BY <2>1, <2>2, <3>1
    <3>2. CASE i \in 1 .. m - 1
      <4>1. PICK q : q = DerivedKey(defs[i].id)
        OBVIOUS
      <4>2. q \in DOMAIN a /\ q # key
        BY <2>3, <2>5, <3>2, <4>1
      <4>3. f[m][q] = a[q]
        BY <2>2, <4>2
      <4> QED
        BY <2>3, <3>2, <4>1, <4>3
    <3> QED
      BY <2>6, <3>1, <3>2
  <2> QED
    BY <2>9, <2>10, <2>11 DEF BuiltTo
<1>5. e[0] \in W
  BY <1>1, <1>3
<1>6. \A m \in 1 .. n : e[m - 1] \in W => e[m] \in W
  BY <1>1, <1>4
<1> HIDE DEF W
<1>7. \A m \in 0 .. n : e[m] \in W
  <2> HIDE DEF e, n
  <2> QED
    BY <1>1, <1>5, <1>6, LoopValues
<1> QED
  BY <1>7 DEF W

\* A channel is empty without its sources, and says what its kind means where they are.
ChannelIsTrue(def, shown) ==
  LET c == shown[DerivedKey(def.id)]
  IN /\ ~ ToSet(def.src) \subseteq DOMAIN shown => c = <<>>
     /\ \A k \in DOMAIN c : Meaning(def, shown, c[k])
     /\ Stamps(c) \subseteq SourceStamps(def, shown)

\* Every channel says what its kind means of the series that are shown with it, in
\* whatever order channels were built on channels.
THEOREM ChannelsAreTrue ==
  ASSUME NEW known, SeriesByKey(known), known = [k \in DOMAIN known |-> known[k]],
         DOMAIN known \subseteq SeriesKeys, NEW defs \in Seq(Definitions), Numbered(defs)
  PROVE  LET shown == BuildDerived(known, defs)
         IN /\ SeriesByKey(shown)
            /\ DOMAIN shown = DOMAIN known \cup {DerivedKey(defs[i].id) : i \in DOMAIN defs}
            /\ \A k \in DOMAIN known : shown[k] = known[k]
            /\ \A i \in DOMAIN defs : ChannelIsTrue(defs[i], shown)
<1> DEFINE n == Len(defs)
<1>1. n \in Nat /\ DOMAIN defs = 1 .. n /\ n \in 0 .. n
  OBVIOUS
<1>2. \A i \in DOMAIN defs : Len(defs[i].src) = SourceCount(defs[i].kind)
  BY DEF Numbered
<1>3. PICK f : Built(f, known, defs) /\ BuildDerived(known, defs) = f[n]
  BY <1>2, BuildLoops
<1>4. \A m \in 0 .. n : BuiltTo(f, known, defs, m) /\ SeriesByKey(f[m])
  BY <1>3, BuiltChannels DEF Built
<1>5. PICK shown : shown = f[n]
  OBVIOUS
<1>6. /\ SeriesByKey(shown)
      /\ DOMAIN shown = DOMAIN known \cup {DerivedKey(defs[i].id) : i \in 1 .. n}
      /\ \A k \in DOMAIN known : shown[k] = known[k]
      /\ \A i \in 1 .. n : shown[DerivedKey(defs[i].id)] = ComputeDerived(defs[i], f[i - 1])
  BY <1>1, <1>4, <1>5 DEF BuiltTo
<1>7. ASSUME NEW i \in DOMAIN defs PROVE ChannelIsTrue(defs[i], shown)
  <2>1. PICK d : d = defs[i]
    OBVIOUS
  <2>2. d \in Definitions /\ Len(d.src) = SourceCount(d.kind) /\ i \in 1 .. n /\ i - 1 \in 0 .. n
    BY <1>1, <1>2, <2>1
  <2>3. PICK a, c : a = f[i - 1] /\ c = shown[DerivedKey(d.id)]
    OBVIOUS
  <2>4. c = ComputeDerived(d, a)
    BY <1>6, <2>1, <2>2, <2>3
  <2>5. SeriesByKey(a)
    BY <1>4, <2>2, <2>3
  <2>6. /\ ~ ToSet(d.src) \subseteq DOMAIN a => c = <<>>
        /\ \A k \in DOMAIN c : Meaning(d, a, c[k])
        /\ Stamps(c) \subseteq SourceStamps(d, a)
    BY <2>2, <2>4, <2>5, ComputedIsTrue
  <2>7. /\ DOMAIN a = DOMAIN known \cup {DerivedKey(defs[j].id) : j \in 1 .. i - 1}
        /\ \A k \in DOMAIN known : a[k] = known[k]
        /\ \A j \in 1 .. i - 1 : a[DerivedKey(defs[j].id)] = ComputeDerived(defs[j], f[j - 1])
    BY <1>4, <2>2, <2>3 DEF BuiltTo
  <2>8. \A j \in 1 .. i - 1 : j \in 1 .. n
    BY <1>1
  <2>9. DOMAIN a \subseteq DOMAIN shown /\ \A q \in DOMAIN a : a[q] = shown[q]
    <3>1. ASSUME NEW q \in DOMAIN a PROVE q \in DOMAIN shown /\ a[q] = shown[q]
      <4>1. CASE q \in DOMAIN known
        BY <1>6, <2>7, <4>1
      <4>2. ASSUME NEW j \in 1 .. i - 1, q = DerivedKey(defs[j].id)
            PROVE  q \in DOMAIN shown /\ a[q] = shown[q]
        BY <1>6, <2>7, <2>8, <4>2
      <4> QED
        BY <2>7, <4>1, <4>2
    <3> QED
      BY <3>1
  <2>10. ASSUME NEW q \in ToSet(d.src) \cap DOMAIN shown PROVE q \in DOMAIN a
    <3>1. CASE q \in DOMAIN known
      BY <2>7, <3>1
    <3>2. ASSUME NEW j \in 1 .. n, q = DerivedKey(defs[j].id) PROVE q \in DOMAIN a
      <4>1. j < i
        BY <1>1, <2>1, <2>10, <3>2, NumbersApart
      <4>2. j \in 1 .. i - 1
        BY <2>2, <4>1
      <4> QED
        BY <2>7, <3>2, <4>2
    <3> QED
      BY <1>6, <3>1, <3>2
  <2>11. ~ ToSet(d.src) \subseteq DOMAIN shown => c = <<>>
    BY <2>6, <2>9
  <2>12. ASSUME NEW k \in DOMAIN c PROVE Meaning(d, shown, c[k])
    <3>1. ToSet(d.src) \subseteq DOMAIN a
      <4>1. c # <<>>
        BY <2>12
      <4> QED
        BY <2>6, <4>1
    <3>2. d.src \in Seq(SeriesKeys \cup DerivedKeys) /\ d.kind \in Kinds
      BY <2>2 DEF Definitions, Sources
    <3>3. 1 \in DOMAIN d.src /\ (d.kind = "binary-op" => 2 \in DOMAIN d.src)
      BY <2>2, <3>2 DEF SourceCount
    <3>4. d.src[1] \in DOMAIN a /\ (d.kind = "binary-op" => d.src[2] \in DOMAIN a)
      BY <3>1, <3>3 DEF ToSet
    <3>5. a[d.src[1]] = shown[d.src[1]] /\ (d.kind = "binary-op" => a[d.src[2]] = shown[d.src[2]])
      BY <2>9, <3>4
    <3>6. PICK p : p = c[k] /\ Meaning(d, a, p)
      BY <2>6
    <3> QED
      BY <3>2, <3>5, <3>6, MeansTheSame
  <2>13. Stamps(c) \subseteq SourceStamps(d, shown)
    <3>1. SourceStamps(d, a) \subseteq SourceStamps(d, shown)
      BY <2>9 DEF SourceStamps
    <3> QED
      BY <2>6, <3>1
  <2> QED
    BY <2>1, <2>3, <2>11, <2>12, <2>13 DEF ChannelIsTrue
<1> QED
  BY <1>1, <1>3, <1>5, <1>6, <1>7

-----------------------------------------------------------------------------
(* What is fetched was asked of a recording, for fields that it has.        *)

Got(data) == data # Null => /\ data.rec \in Recordings
                            /\ \A k \in ToSet(data.keys) : k.name \in FieldsOf[data.rec]
Fetched(h) == {"shown", "overview"} \subseteq DOMAIN h /\ Got(h.shown.data) /\ Got(h.overview.data)
DataInv == Fetched(fetch)

LEMMA EffectsFetch ==
  ASSUME NEW h, Fetched(h), NEW s, NEW x, NEW sel
  PROVE  Fetched(Debounce(h, s, x)) /\ Fetched(ShowOverview(h, s, x, sel)) /\ Fetched(Ask(h, s, sel))
<1>1. Fetched(Debounce(h, s, x))
  BY DEF Debounce, Fetched
<1>2. Fetched(ShowOverview(h, s, x, sel))
  BY DEF ShowOverview, Fetched
<1>3. Fetched(Ask(h, s, sel))
  BY DEF Ask, Fetched, Nothing, Got
<1> QED
  BY <1>1, <1>2, <1>3

LEMMA SessionFetched == ASSUME DataInv, NEW s, SessionBecomes(s) PROVE DataInv'
<1>1. PICK x, sel : x = RangeAfter(s) /\ sel = Validate(selections, s)
  OBVIOUS
<1>2. PICK d, o, f : /\ d = Debounce(fetch, s, xRange) /\ o = ShowOverview(d, s, xRange, selections)
                     /\ f = Ask(o, s, selections)
  OBVIOUS
<1>3. Fetched(f)
  <2>1. Fetched(d)
    BY <1>2, EffectsFetch DEF DataInv
  <2>2. Fetched(o)
    BY <1>2, <2>1, EffectsFetch
  <2> QED
    BY <1>2, <2>2, EffectsFetch
<1>4. PICK e, g : e = (IF x = xRange THEN f ELSE Debounce(f, s, x)) /\ g = ShowOverview(e, s, x, sel)
  OBVIOUS
<1>5. Fetched(g)
  <2>1. Fetched(e)
    BY <1>3, <1>4, EffectsFetch
  <2> QED
    BY <1>4, <2>1, EffectsFetch
<1>6. Fetched(Ask(g, s, sel))
  BY <1>5, EffectsFetch
<1>7. fetch' = AskIfOthers(g, s, sel)
  BY <1>1, <1>2, <1>4 DEF SessionBecomes, SessionAndPageBecome, FetchBecomes, FetchFirst, FetchAgain
<1>8. fetch' = g \/ fetch' = Ask(g, s, sel)
  BY <1>7 DEF AskIfOthers
<1> QED
  BY <1>5, <1>6, <1>8 DEF DataInv

LEMMA SelectionFetched == ASSUME DataInv, NEW sel, SelectionsBecome(sel) PROVE DataInv'
<1>1. fetch' = fetch \/ fetch' = Ask(ShowOverview(fetch, session, xRange, sel), session, sel)
  BY DEF SelectionsBecome, FetchBecomes
<1>2. Fetched(ShowOverview(fetch, session, xRange, sel))
  BY EffectsFetch DEF DataInv
<1>3. Fetched(Ask(ShowOverview(fetch, session, xRange, sel), session, sel))
  BY <1>2, EffectsFetch
<1> QED
  BY <1>1, <1>3 DEF DataInv

LEMMA RangeFetched == ASSUME DataInv, NEW x, RangeBecomes(x) PROVE DataInv'
<1>1. fetch' = fetch \/ fetch' = ShowOverview(Debounce(fetch, session, x), session, x, selections)
  BY DEF RangeBecomes, FetchBecomes
<1>2. Fetched(Debounce(fetch, session, x))
  BY EffectsFetch DEF DataInv
<1>3. Fetched(ShowOverview(Debounce(fetch, session, x), session, x, selections))
  BY <1>2, EffectsFetch
<1> QED
  BY <1>1, <1>3 DEF DataInv

LEMMA TimerFetched == ASSUME DataInv, TimerFires PROVE DataInv'
<1>1. PICK h : h = [fetch EXCEPT !.timer = Null, !.window = fetch.timer]
  OBVIOUS
<1>2. fetch' = h \/ fetch' = Ask(h, session, selections)
  BY <1>1 DEF TimerFires, FetchBecomes
<1>3. Fetched(h)
  BY <1>1 DEF DataInv, Fetched
<1>4. Fetched(Ask(h, session, selections))
  BY <1>3, EffectsFetch
<1> QED
  BY <1>2, <1>3, <1>4 DEF DataInv

\* The answers are to what was asked for.
LEMMA AnswerFetched ==
  ASSUME IInv, CurrentInv, PageInv, DataInv, NEW failed, Answer(failed)
  PROVE  DataInv'
<1>1. PICK keys : keys = Keys(selections, session)
  OBVIOUS
<1>2. /\ session # Null
      /\ fetch.asked = <<[rec |-> session.rec, window |-> fetch.window, keys |-> keys,
                          signature |-> Signature(selections)]>>
  BY <1>1 DEF Answer, CurrentInv, FetchInv, AskedInv
<1>3. session.rec \in Recordings /\ \A k \in CandidateKeys(session) : k.name \in FieldsOf[session.rec]
  BY <1>2 DEF IInv, Sessions, CandidateKeys, Fields, SeriesKey
<1>4. ASSUME NEW k \in ToSet(keys) PROVE k \in CandidateKeys(session)
  <2>1. PICK T, names : names = Signature(selections) /\ T = SeriesKeys
    OBVIOUS
  <2>2. PICK wanted : wanted = CandidateKeys(session)
    OBVIOUS
  <2>3. keys = Keeping(names, wanted)
    BY <1>1, <2>1, <2>2 DEF Keys, Offered
  <2>4. names \in Seq(T)
    <3>1. selections \in Seq(Selections)
      BY DEF PageInv
    <3>2. ASSUME NEW i \in DOMAIN selections PROVE selections[i].key \in T
      <4>1. PICK x \in Selections : x = selections[i]
        BY <3>1
      <4> QED
        BY <2>1, <4>1 DEF Selections
    <3> QED
      BY <2>1, <3>1, <3>2 DEF Signature
  <2>5. \A i \in DOMAIN keys : keys[i] \in wanted
    BY <2>3, <2>4, KeepingSifts
  <2> QED
    BY <1>4, <2>2, <2>5 DEF ToSet
<1>5. PICK data, key : /\ data = [rec |-> session.rec, window |-> fetch.window, keys |-> keys, failed |-> failed]
                       /\ key = [window |-> fetch.window, keys |-> Signature(selections)]
  OBVIOUS
<1>6. PICK got : got = [data |-> data, key |-> key]
  OBVIOUS
<1>7. \/ fetch' = [fetch EXCEPT !.asked = <<>>, !.loading = FALSE, !.shown = got, !.overview = got]
      \/ fetch' = [fetch EXCEPT !.asked = <<>>, !.loading = FALSE, !.shown = got]
  <2>1. PICK asked : asked = fetch.asked[1]
    OBVIOUS
  <2>2. asked = [rec |-> session.rec, window |-> fetch.window, keys |-> keys, signature |-> Signature(selections)]
    BY <1>2, <2>1
  <2>3. [data |-> [rec |-> asked.rec, window |-> asked.window, keys |-> asked.keys, failed |-> failed],
         key |-> [window |-> asked.window, keys |-> asked.signature]] = got
    BY <1>5, <1>6, <2>2
  <2>4. fetch' = [fetch EXCEPT !.asked = <<>>, !.loading = FALSE, !.shown = got,
                    !.overview = IF asked.window.overview THEN got ELSE @]
    BY <2>1, <2>3 DEF Answer
  <2>5. CASE asked.window.overview
    BY <2>4, <2>5
  <2>6. CASE ~ asked.window.overview
    <3>1. {"shown", "overview"} \subseteq DOMAIN fetch
      BY DEF DataInv, Fetched
    <3> QED
      BY <2>4, <2>6, <3>1
  <2> QED
    BY <2>5, <2>6
<1>8. Got(data)
  BY <1>3, <1>4, <1>5 DEF Got
<1>9. got.data = data
  BY <1>6
<1>10. {"shown", "overview"} \subseteq DOMAIN fetch /\ Got(fetch.overview.data)
  BY DEF DataInv, Fetched
<1>11. \/ fetch'.shown = got /\ fetch'.overview = got
       \/ fetch'.shown = got /\ fetch'.overview = fetch.overview
  BY <1>7, <1>10
<1>12. {"shown", "overview"} \subseteq DOMAIN fetch'
  BY <1>7, <1>10
<1> QED
  BY <1>8, <1>9, <1>10, <1>11, <1>12 DEF DataInv, Fetched

LEMMA EmptyFetched == Fetched(NoFetch)
BY DEF Fetched, NoFetch, Nothing, Got

LEMMA NextFetched == IInv /\ CurrentInv /\ PageInv /\ DataInv /\ [Next]_vars => DataInv'
<1> SUFFICES ASSUME IInv, CurrentInv, PageInv, DataInv, [Next]_vars PROVE DataInv'
  OBVIOUS
<1>1. ASSUME UNCHANGED fetch PROVE DataInv'
  BY <1>1 DEF DataInv
<1>2. CASE Reload
  BY <1>2, EmptyFetched DEF Reload, DataInv
<1>3. ASSUME NEW rec, CloseSession \/ Grow \/ Open(rec) PROVE DataInv'
  BY <1>3, SessionFetched DEF CloseSession, Grow, Open
<1>4. ASSUME NEW a, NEW b, DoubleClick \/ ShiftWheel(a) \/ Drag(a, b) \/ Wheel(a, b) PROVE DataInv'
  BY <1>4, RangeFetched DEF DoubleClick, ShiftWheel, Drag, Wheel, CommitXRange
<1>5. ASSUME NEW sel, SelectionsBecome(sel) PROVE DataInv'
  BY <1>5, SelectionFetched
<1>6. ASSUME NEW defs, DerivedBecomes(defs) PROVE DataInv'
  BY <1>1, <1>6 DEF DerivedBecomes
<1>7. ASSUME NEW a, NEW b, NEW c,
             AddSeries(a) \/ AddDerived(a) \/ RemoveSeries(a) \/ Restyle(a, b, c) \/ Reorder(a, b)
      PROVE  DataInv'
  BY <1>5, <1>6, <1>7 DEF AddSeries, AddDerived, RemoveSeries, Restyle, Reorder
<1>8. CASE TimerFires
  BY <1>8, TimerFetched
<1>9. ASSUME NEW failed, Answer(failed) PROVE DataInv'
  BY <1>9, AnswerFetched
<1>10. ASSUME NEW r, StaleAnswer(r) \/ UNCHANGED vars PROVE DataInv'
  BY <1>1, <1>10 DEF StaleAnswer, vars
<1> QED
  BY <1>2, <1>3, <1>4, <1>7, <1>8, <1>9, <1>10 DEF Next

-----------------------------------------------------------------------------
(* What the panel shows.                                                   *)

\* The samples that lie in the window of a query.
SamplesIn(data, field) == {p \in ToSet(PointsOf[data.rec][field]) : InWindow(data, p)}

LEMMA QueriedIsTrue ==
  ASSUME NEW data, data.rec \in Recordings, NEW field \in FieldsOf[data.rec]
  PROVE  LET r == QueryPoints(data, field)
             all == SamplesIn(data, field)
         IN r \in Series /\ ToSet(r) \subseteq all /\ Len(r) <= MaxPoints /\ Spanned(ToSet(r), all)
<1>1. PICK points : points = PointsOf[data.rec][field]
  OBVIOUS
<1>2. points \in Series
  BY <1>1, PointsAssumption DEF Series, Samples, InTime
<1>3. PICK all, s : all = SamplesIn(data, field) /\ s = Keeping(points, all)
  OBVIOUS
<1>4. all \subseteq ToSet(points) /\ QueryPoints(data, field) = Downsample(s, MaxPoints)
  BY <1>1, <1>3 DEF SamplesIn, QueryPoints
<1>5. s \in Series /\ ToSet(s) = all
  BY <1>2, <1>3, <1>4, KeptSeries
<1>6. LET r == Downsample(s, MaxPoints)
      IN r \in Series /\ ToSet(r) \subseteq ToSet(s) /\ Len(r) <= MaxPoints /\ Spanned(ToSet(r), ToSet(s))
  BY <1>5, PointsAssumption, DownsampleKeepsEnds
<1> QED
  BY <1>3, <1>4, <1>5, <1>6

LEMMA RealIsTrue ==
  ASSUME DataInv, session \in Sessions \cup {Null}
  PROVE  LET real == RealSeries
             data == fetch.shown.data
         IN /\ SeriesByKey(real) /\ real = [k \in DOMAIN real |-> real[k]]
            /\ DOMAIN real \subseteq SeriesKeys
            /\ \A k \in DOMAIN real : real[k] # <<>> =>
                 /\ ToSet(real[k]) \subseteq SamplesIn(data, k.name) /\ Len(real[k]) <= MaxPoints
                 /\ Spanned(ToSet(real[k]), SamplesIn(data, k.name))
<1>1. PICK real, data, D : /\ real = RealSeries /\ data = fetch.shown.data
                           /\ D = KeySet(selections) \cap CandidateKeys(session)
  OBVIOUS
<1>2. real = [k \in D |-> IF data = Null THEN <<>>
                          ELSE IF k \in ToSet(data.keys) \ data.failed THEN QueryPoints(data, k.name) ELSE <<>>]
  BY <1>1 DEF RealSeries
<1>3. D \subseteq SeriesKeys /\ DOMAIN real = D
  BY <1>1, <1>2, KeysTyped
<1>4. real = [k \in DOMAIN real |-> real[k]]
  BY <1>2
<1>5. ASSUME NEW k \in D
      PROVE  /\ real[k] \in Series
             /\ real[k] # <<>> =>
                  /\ ToSet(real[k]) \subseteq SamplesIn(data, k.name) /\ Len(real[k]) <= MaxPoints
                  /\ Spanned(ToSet(real[k]), SamplesIn(data, k.name))
  <2>1. CASE real[k] = <<>>
    <3>1. <<>> \in Series
      BY DEF Series, InTime
    <3> QED
      BY <2>1, <3>1
  <2>2. CASE real[k] # <<>>
    <3>1. data # Null /\ k \in ToSet(data.keys) /\ real[k] = QueryPoints(data, k.name)
      BY <1>2, <2>2
    <3>2. data.rec \in Recordings /\ k.name \in FieldsOf[data.rec]
      BY <1>1, <3>1 DEF DataInv, Fetched, Got
    <3> QED
      BY <3>1, <3>2, QueriedIsTrue
  <2> QED
    BY <2>1, <2>2
<1> QED
  BY <1>1, <1>3, <1>4, <1>5 DEF SeriesByKey

\* Every row of the export is at a time of a column.
LEMMA RowsAreTrue ==
  ASSUME NEW columns \in Seq(Series)
  PROVE  \A row \in ToSet(CsvRows(columns, 0)) : \E c \in ToSet(columns) : row.time \in Stamps(c)
<1>1. PICK used : used = Keeping(columns, ToSet(columns) \ {<<>>})
  OBVIOUS
<1>2. PICK S : S = UNION {Stamps(used[i]) : i \in DOMAIN used}
  OBVIOUS
<1>3. PICK times : times = Ascending(S)
  OBVIOUS
<1>4. used \in Seq(Series) /\ \A k \in DOMAIN used : \E i \in DOMAIN columns : used[k] = columns[i]
  <2>1. PICK T, wanted : T = Series /\ wanted = ToSet(columns) \ {<<>>}
    OBVIOUS
  <2>2. columns \in Seq(T) /\ used = Keeping(columns, wanted)
    BY <1>1, <2>1
  <2>3. /\ used \in Seq(T)
        /\ \A k \in DOMAIN used : \E i \in DOMAIN columns : columns[i] \in wanted /\ used[k] = columns[i]
    BY <2>2, KeepingSifts
  <2> QED
    BY <2>1, <2>3
<1>5. IsFiniteSet(S) /\ S \subseteq Int
  BY <1>2, <1>4, AllStampsFinite
<1>6. times \in Seq(S)
  BY <1>3, <1>5, Ascends
<1>7. PICK rows : rows = CsvRows(columns, 0)
  OBVIOUS
<1>8. DOMAIN rows = DOMAIN times /\ \A k \in DOMAIN times : rows[k].time = times[k] - 0
  <2>1. Aligned(columns).times = times
    BY <1>1, <1>2, <1>3 DEF Aligned
  <2> QED
    BY <1>7, <2>1 DEF CsvRows
<1>9. ASSUME NEW row \in ToSet(rows) PROVE \E c \in ToSet(columns) : row.time \in Stamps(c)
  <2>1. PICK k \in DOMAIN times : row = rows[k]
    BY <1>8, <1>9 DEF ToSet
  <2>2. times[k] \in S
    BY <1>6, <2>1
  <2>3. row.time = times[k]
    <3>1. times[k] \in Int
      BY <1>5, <2>2
    <3> QED
      BY <1>8, <2>1, <3>1
  <2>4. PICK i \in DOMAIN used : times[k] \in Stamps(used[i])
    BY <1>2, <2>2
  <2>5. used[i] \in ToSet(columns)
    BY <1>4 DEF ToSet
  <2> QED
    BY <2>3, <2>4, <2>5
<1> QED
  BY <1>7, <1>9

\* The columns are series that are known.
LEMMA ColumnsKnown ==
  ASSUME selections \in Seq(Selections), derived \in Seq(Definitions), SeriesByKey(Snapshot),
         \A i \in DOMAIN derived : DerivedKey(derived[i].id) \in DOMAIN Snapshot
  PROVE  VisibleColumns \in Seq(Series)
<1>1. PICK known : known = Snapshot
  OBVIOUS
<1>2. PICK wanted, visible : /\ wanted = {x \in ToSet(selections) : x.visible /\ x.key \in DOMAIN known}
                             /\ visible = {d \in ToSet(derived) : d.visible}
  OBVIOUS
<1>3. PICK items, defs : items = Keeping(selections, wanted) /\ defs = Keeping(derived, visible)
  OBVIOUS
<1>4. PICK a, b : /\ a = [i \in DOMAIN items |-> known[items[i].key]]
                  /\ b = [i \in DOMAIN defs |-> known[DerivedKey(defs[i].id)]]
  OBVIOUS
<1>5. VisibleColumns = a \o b
  BY <1>1, <1>2, <1>3, <1>4 DEF VisibleColumns
<1>6. a \in Seq(Series)
  <2>1. items \in Seq(Selections) /\ \A k \in DOMAIN items : items[k] \in wanted
    <3> HIDE DEF Selections
    <3> QED
      BY <1>3, KeepingSifts
  <2>2. ASSUME NEW k \in DOMAIN items PROVE a[k] \in Series
    BY <1>1, <1>2, <1>4, <2>1 DEF SeriesByKey
  <2>3. a = [k \in DOMAIN items |-> a[k]]
    BY <1>4
  <2> QED
    BY <2>1, <2>2, <2>3, MadeSeq
<1>7. b \in Seq(Series)
  <2>1. defs \in Seq(Definitions) /\ \A k \in DOMAIN defs : \E i \in DOMAIN derived : defs[k] = derived[i]
    <3> HIDE DEF Definitions
    <3> QED
      BY <1>3, KeepingSifts
  <2>2. ASSUME NEW k \in DOMAIN defs PROVE b[k] \in Series
    BY <1>1, <1>4, <2>1 DEF SeriesByKey
  <2>3. b = [k \in DOMAIN defs |-> b[k]]
    BY <1>4
  <2> QED
    BY <2>1, <2>2, <2>3, MadeSeq
<1> QED
  BY <1>5, <1>6, <1>7

\* Whatever was selected, derived, zoomed and answered: the samples shown are samples
\* of the recording with the lowest and the highest of their window, the channels say
\* what they mean of the series shown with them, and rows are at times of columns.
THEOREM SeriesAreTrueAlways == Spec => []SeriesAreTrue
<1>1. IInv /\ PageInv /\ DataInv => SeriesAreTrue
  <2> SUFFICES ASSUME IInv, PageInv, DataInv PROVE SeriesAreTrue
    OBVIOUS
  <2> DEFINE real == RealSeries
             shown == BuildDerived(real, derived)
             data == fetch.shown.data
  <2>2. /\ session \in Sessions \cup {Null} /\ selections \in Seq(Selections)
        /\ derived \in Seq(Definitions) /\ Numbered(derived)
    BY DEF IInv, PageInv
  <2>3. /\ SeriesByKey(real) /\ real = [k \in DOMAIN real |-> real[k]] /\ DOMAIN real \subseteq SeriesKeys
        /\ \A k \in DOMAIN real : real[k] # <<>> =>
             /\ ToSet(real[k]) \subseteq SamplesIn(data, k.name) /\ Len(real[k]) <= MaxPoints
             /\ Spanned(ToSet(real[k]), SamplesIn(data, k.name))
    BY <2>2, RealIsTrue
  <2>4. /\ SeriesByKey(shown)
        /\ DOMAIN shown = DOMAIN real \cup {DerivedKey(derived[i].id) : i \in DOMAIN derived}
        /\ \A i \in DOMAIN derived : ChannelIsTrue(derived[i], shown)
    BY <2>2, <2>3, ChannelsAreTrue
  <2>5. Snapshot = shown
    BY DEF Snapshot
  <2>6. VisibleColumns \in Seq(Series)
    BY <2>2, <2>4, <2>5, ColumnsKnown
  <2>7. \A row \in ToSet(CsvRows(VisibleColumns, 0)) : \E c \in ToSet(VisibleColumns) : row.time \in Stamps(c)
    BY <2>6, RowsAreTrue
  <2>8. ASSUME NEW k \in {q \in DOMAIN real : real[q] # <<>>}
        PROVE  LET all == {p \in ToSet(PointsOf[data.rec][k.name]) : InWindow(data, p)}
                   got == ToSet(real[k])
               IN /\ got \subseteq all /\ Len(real[k]) <= MaxPoints
                  /\ (\A p, q \in all : p.t = q.t => p.v = q.v) =>
                       \A p \in all : \E low, high \in got : low.v <= p.v /\ p.v <= high.v
    BY <2>3 DEF SamplesIn, Spanned
  <2>9. ASSUME NEW i \in DOMAIN derived
        PROVE  LET s == shown[DerivedKey(derived[i].id)]
                   known == ToSet(derived[i].src) \subseteq DOMAIN shown
               IN /\ ~known => s = <<>>
                  /\ \A k \in DOMAIN s : Meaning(derived[i], shown, s[k])
                  /\ Stamps(s) \subseteq UNION {Stamps(shown[key]) : key \in ToSet(derived[i].src) \cap DOMAIN shown}
    BY <2>4 DEF SourceStamps, ChannelIsTrue
  <2> QED
    BY <2>7, <2>8, <2>9 DEF SeriesAreTrue
<1>2. Init => IInv /\ CurrentInv /\ PageInv /\ DataInv
  <2>1. Init => DataInv
    BY EmptyFetched DEF Init, DataInv
  <2> QED
    BY <2>1, InitInvariance, InitCurrent, OpenedPage
<1>3. (IInv /\ CurrentInv /\ PageInv /\ DataInv) /\ [Next]_vars => (IInv /\ CurrentInv /\ PageInv /\ DataInv)'
  <2> SUFFICES ASSUME IInv, CurrentInv, PageInv, DataInv, [Next]_vars
               PROVE  IInv' /\ CurrentInv' /\ PageInv' /\ DataInv'
    OBVIOUS
  <2>1. IInv'
    BY NextInvariance
  <2>2. CurrentInv'
    BY <2>1, NextCurrent
  <2> QED
    BY <2>1, <2>2, NextPage, NextFetched
<1> QED
  BY <1>1, <1>2, <1>3, PTL DEF Spec
=============================================================================
