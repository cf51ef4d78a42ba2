------------------------------ MODULE TimeSeries ------------------------------
(***************************************************************************)
(* The time series panel: the hook that selects, fetches and derives series*)
(* (plugins/timeseries/src/hooks/useTimeSeries.ts) with its url state      *)
(* (url-state.ts) and field catalog (field-catalog.ts), under the panel    *)
(* that holds the zoom (packages/robotscope-viewer/src/plugins/            *)
(* timeseries-column.tsx) and shows the plots (TimeSeriesDock.tsx,         *)
(* PlotCanvas.tsx).                                                        *)
(*                                                                         *)
(* An action is one event with everything React runs before the next one:  *)
(* the render, its effects in the order the code declares them, and the    *)
(* renders and effects those cause.  What stays pending between events is  *)
(* the debounce timer and the queries in flight.                           *)
(***************************************************************************)
EXTENDS SeriesMath, PlotCanvas

CONSTANTS
  NoParam,      \* the url has no ts parameter
  BadParam,     \* one that is not base64 or not JSON
  Recordings,   \* recordings and live sources
  OriginOf,     \* source and start of each: no engine sets a path
  FieldsOf,     \* the numeric fields each recording's topics offer, by label
  Preferred,    \* PREFERRED_KEYS, best first
  PointsOf,     \* the samples of each field of each recording
  SpanOf,       \* the end of each recording when it is opened
  Colors,       \* SERIES_COLORS
  MaxPoints,    \* MAX_SERIES_POINTS
  NewDerived,   \* bound: the derived channels the form is asked for
  Drags, Turns, \* bound: ranges dragged; pointer and next span of turns of the wheel
  InitialUrls,  \* bound: what the page's url may hold when it is opened
  MaxDerived,   \* bound: derived channels at a time
  MaxGrowth,    \* bound: how far a live session grows
  MaxEvents     \* bound: events but for timers and answers

\* What the panel keeps of a series and of a derived channel.
Kinds == {"moving-average", "derivative", "binary-op", "integral", "abs", "scale-offset"}
Ops   == {"add", "subtract", "multiply", "divide"}
SeriesKeys  == [derived : {FALSE}, name : Nat]
DerivedKeys == [derived : {TRUE}, name : Seq(Nat)]
Selections  == [key : SeriesKeys, visible : BOOLEAN, color : ToSet(Colors)]
Sources     == Seq(SeriesKeys \cup DerivedKeys)
Forms       == [kind : Kinds, src : Sources, window : Int, op : Ops, scale : Int, offset : Int]
Definitions == [id : Seq(Nat), kind : Kinds, src : Sources, window : Int, op : Ops, scale : Int,
                offset : Int, color : ToSet(Colors), visible : BOOLEAN]

Origins == {OriginOf[r] : r \in Recordings}
Windows == [origin : Origins, span : Nat, overview : BOOLEAN, from : Int, to : Int]

ASSUME SeriesAssumption ==
  /\ \A r \in Recordings : SpanOf[r] \in Nat
  /\ Drags \subseteq Int \X Int /\ Turns \subseteq Int \X Int
  /\ Null \notin [rec : Recordings, span : Nat] /\ Null \notin [min : Int, max : Int]
  /\ Null \notin Windows

\* The engines answer in the order of the recording, and with finite numbers.
ASSUME PointsAssumption ==
  /\ MaxPoints \in Nat /\ MaxPoints > 2
  /\ \A r \in Recordings : \A f \in FieldsOf[r] :
       /\ PointsOf[r][f] \in Seq([t : Int, v : Int])
       /\ \A i, j \in DOMAIN PointsOf[r][f] : i <= j => PointsOf[r][f][i].t <= PointsOf[r][f][j].t

VARIABLES
  session,     \* slice.session and slice.ingest: Null, or the recording and its span
  xRange,      \* the column's xRange
  scale,       \* plot.scales.x; Null while there is no session
  selections,  \* seriesSelections
  derived,     \* derivedDefs
  nextId,      \* nextDerivedIdRef
  restored,    \* restoredFromUrlRef
  url,         \* the page's ts parameter
  fetch,       \* fetchWindow, its timer, the query in flight and seriesState
  stale,       \* queries in flight whose effect was cleaned up
  events

pageVars == <<selections, derived, nextId, restored, url>>
vars == <<session, xRange, scale, pageVars, fetch, stale, events>>

SeriesKey(field) == [derived |-> FALSE, name |-> field]
KeySet(sel) == {sel[i].key : i \in DOMAIN sel}
Signature(sel) == [i \in DOMAIN sel |-> sel[i].key]  \* selectedKeysSignature
ColorsOf(items) == [i \in DOMAIN items |-> items[i].color]

\* The fields of the session's topics, and the one that the catalog lists first: the
\* best of the preferred ones, or else the first by its label.
Fields(s) == IF s = Null THEN {} ELSE FieldsOf[s.rec]
CandidateKeys(s) == {SeriesKey(f) : f \in Fields(s)}

DefaultField(s) ==
  LET liked == {i \in DOMAIN Preferred : Preferred[i] \in Fields(s)}
  IN IF liked # {} THEN Preferred[Min(liked)] ELSE Min(Fields(s))

\* Faulty variant: the colours are not taken up again when all are used.
NumberedColor(used) == Len(used) + 1

NextColor(used) ==
  LET free == Keeping(Colors, ToSet(Colors) \ ToSet(used))
  IN IF free # <<>> THEN free[1] ELSE Colors[(Len(used) % Len(Colors)) + 1]

-----------------------------------------------------------------------------
(* The url: each selection and definition becomes a short array or record, *)
(* and a parameter that does not decode as a whole is dropped as a whole.   *)

CompactSelection(x) == <<x.key, IF x.visible THEN 1 ELSE 0, x.color>>
CompactDerived(d) ==
  [i |-> d.id, k |-> d.kind, s |-> SubSeq(d.src, 1, SourceCount(d.kind)), w |-> d.window,
   o |-> d.op, sc |-> d.scale, of |-> d.offset, c |-> d.color, v |-> IF d.visible THEN 1 ELSE 0]

Encode(sel, defs) ==
  IF sel = <<>> /\ defs = <<>> THEN NoParam
  ELSE [s |-> [i \in DOMAIN sel |-> CompactSelection(sel[i])],
        d |-> [i \in DOMAIN defs |-> CompactDerived(defs[i])]]

DecodeDerived(c) ==
  [id |-> c.i, kind |-> c.k, src |-> c.s, window |-> c.w, op |-> c.o,
   scale |-> c.sc, offset |-> c.of, color |-> c.c, visible |-> c.v = 1]

Readable(u) ==
  /\ u \notin {NoParam, BadParam}
  /\ \A i \in DOMAIN u.s : Len(u.s[i]) = 3 /\ u.s[i][2] \in {0, 1}
  /\ \A i \in DOMAIN u.d : Len(u.d[i].s) = SourceCount(u.d[i].k) /\ u.d[i].v \in {0, 1}

DecodeSelections(u) ==
  IF ~Readable(u) THEN <<>>
  ELSE [i \in DOMAIN u.s |-> [key |-> u.s[i][1], visible |-> u.s[i][2] = 1, color |-> u.s[i][3]]]
DecodeDefs(u) == IF ~Readable(u) THEN <<>> ELSE [i \in DOMAIN u.d |-> DecodeDerived(u.d[i])]

\* Definitions as a page makes them: numbered in their order, each of as many sources
\* as its kind takes, none of which is a later channel.
Numbered(defs) ==
  /\ \A i \in DOMAIN defs :
       /\ defs[i].id = <<Last(defs[i].id)>> /\ Len(defs[i].src) = SourceCount(defs[i].kind)
       /\ \A key \in ToSet(defs[i].src) : key.derived => Last(key.name) < Last(defs[i].id)
  /\ \A i, j \in DOMAIN defs : i < j => Last(defs[i].id) < Last(defs[j].id)

\* What a page may write to its url.
CompactSelections == SeriesKeys \X {0, 1} \X ToSet(Colors)
CompactDefs == [i : Seq(Nat), k : Kinds, s : Sources, w : Int, o : Ops, sc : Int, of : Int,
                c : ToSet(Colors), v : {0, 1}]
Links == [s : Seq(CompactSelections), d : Seq(CompactDefs)]

ASSUME PageAssumption ==
  /\ Colors \in Seq(ToSet(Colors)) /\ Len(Colors) > 1
  /\ \A r \in Recordings : FieldsOf[r] \subseteq Nat
  /\ Preferred \in Seq(Nat) /\ NewDerived \subseteq Forms
  /\ NoParam \notin Links /\ BadParam \notin Links
  /\ \A u \in InitialUrls \ {NoParam, BadParam} : u \in Links /\ Numbered(DecodeDefs(u))
  /\ MaxEvents \in Nat

\* Faulty variant: the definitions are counted.
CountedId(defs) == Len(defs)

\* The number after the largest one that ends an id.
NextDerivedId(defs) ==
  LET suffixes == {Last(defs[i].id) : i \in DOMAIN defs}
  IN IF suffixes = {} THEN 1 ELSE Max(suffixes) + 1

UniqueDerivedId(base, defs) ==
  LET used == {defs[i].id : i \in DOMAIN defs}
  IN IF base \notin used THEN base
     ELSE Append(base, Min({n \in 2 .. Len(defs) + 2 : Append(base, n) \notin used}))

-----------------------------------------------------------------------------
(* The effects. *)

\* What a query is asked for: the whole session, or the zoomed part of it.  A window
\* names the session by its origin and its bounds.
BuildFetchWindow(s, x) ==
  IF s = Null THEN Null
  ELSE [origin |-> OriginOf[s.rec], span |-> s.span, overview |-> x = Null,
        from |-> IF x = Null THEN 0 ELSE Clamp(Lesser(x.min, x.max), 0, s.span),
        to   |-> IF x = Null THEN s.span ELSE Clamp(Greater(x.min, x.max), 0, s.span)]

RequestKey(window, sel) == [window |-> window, keys |-> Signature(sel)]
Nothing == [data |-> Null, key |-> RequestKey(Null, <<>>)]
NoFetch == [window |-> Null, timer |-> Null, asked |-> <<>>, loading |-> FALSE,
            shown |-> Nothing, overview |-> Nothing]

\* A new wish waits for the timer, unless no window was fetched yet.
Debounce(h, s, x) ==
  LET wish == BuildFetchWindow(s, x)
  IN IF wish = Null \/ h.window = Null THEN [h EXCEPT !.window = wish, !.timer = Null]
     ELSE [h EXCEPT !.timer = wish]

\* Back at the whole session, the overview fetched last is shown at once.
ShowOverview(h, s, x, sel) ==
  LET wish == BuildFetchWindow(s, x)
      key == RequestKey(wish, sel)
  IN IF wish # Null /\ x = Null /\ h.overview.key = key /\ h.shown.key # key
       THEN [h EXCEPT !.shown = h.overview] ELSE h

\* Of the selected keys, those that the session offers.
Offered(keys, s) == Keeping(keys, CandidateKeys(s))

\* The queries go to the open recording, for the window fetched last: until the
\* debounce is over, that may be a window of the recording before.
Ask(h, s, sel) ==
  LET keys == Offered(Signature(sel), s)
  IN IF s = Null \/ keys = <<>>
       THEN [h EXCEPT !.asked = <<>>, !.loading = FALSE, !.shown = Nothing, !.overview = Nothing]
     ELSE IF h.window = Null THEN [h EXCEPT !.asked = <<>>, !.loading = FALSE]
     ELSE [h EXCEPT !.loading = TRUE,
             !.asked = <<[rec |-> s.rec, window |-> h.window, keys |-> keys, signature |-> Signature(sel)]>>]

\* Selections of fields the session does not offer go; without any, the first
\* candidate is taken, but never in the place of what the url asked for.
Validate(sel, s) ==
  LET valid == Keeping(sel, {x \in ToSet(sel) : x.key \in CandidateKeys(s)})
  IN IF restored /\ Fields(s) = {} THEN sel
     ELSE IF valid # <<>> \/ Fields(s) = {} \/ restored THEN valid
     ELSE <<[key |-> SeriesKey(DefaultField(s)), color |-> Colors[1], visible |-> TRUE]>>

\* Every run of the fetch effect cleans up the one before it.
Superseded(h) == IF h.asked # fetch.asked THEN ToSet(fetch.asked) ELSE {}
FetchBecomes(h) == fetch' = h /\ stale' = stale \cup Superseded(h)

ScaleFor(s, x) == IF s = Null THEN Null ELSE PlotScale(x, s.span)

\* Faulty variant: the zoom outlives the recording it was made in.
RangeKept(s) == xRange

\* The plot fits the range to a session of the same origin; the column drops it
\* otherwise.
RangeAfter(s) ==
  IF s # Null /\ session # Null /\ OriginOf[s.rec] = OriginOf[session.rec]
    THEN NormalizeControlledXRange(xRange, s.span) ELSE Null

\* A new session object: the queries see it with the old range and selections
\* first, then the range and the selections that fit it.
FetchFirst(s) ==
  Ask(ShowOverview(Debounce(fetch, s, xRange), s, xRange, selections), s, selections)
FetchAgain(h, s, x, sel) ==
  ShowOverview(IF x = xRange THEN h ELSE Debounce(h, s, x), s, x, sel)
AskIfOthers(h, s, sel) == IF Signature(sel) = Signature(selections) THEN h ELSE Ask(h, s, sel)

SessionAndPageBecome(s, x, sel) ==
  /\ session' = s /\ xRange' = x /\ scale' = ScaleFor(s, x)
  /\ selections' = sel /\ url' = Encode(sel, derived)
  /\ FetchBecomes(AskIfOthers(FetchAgain(FetchFirst(s), s, x, sel), s, sel))
  /\ UNCHANGED <<derived, nextId, restored>>
SessionBecomes(s) == SessionAndPageBecome(s, RangeAfter(s), Validate(selections, s))

SelectionsBecome(sel) ==
  /\ selections' = sel /\ url' = Encode(sel, derived)
  /\ IF Signature(sel) = Signature(selections) THEN UNCHANGED <<fetch, stale>>
     ELSE FetchBecomes(Ask(ShowOverview(fetch, session, xRange, sel), session, sel))
  /\ UNCHANGED <<session, xRange, scale, derived, nextId, restored>>

DerivedBecomes(defs) ==
  /\ derived' = defs /\ url' = Encode(selections, defs)
  /\ UNCHANGED <<session, xRange, scale, selections, restored, fetch, stale>>

\* commitXRange, and the effects of the range it hands to the column.
RangeBecomes(x) ==
  /\ xRange' = x /\ scale' = ScaleFor(session, x)
  /\ IF x = xRange THEN UNCHANGED <<fetch, stale>>
     ELSE FetchBecomes(ShowOverview(Debounce(fetch, session, x), session, x, selections))
  /\ UNCHANGED <<session, pageVars>>
CommitXRange(r) == RangeBecomes(NormalizeControlledXRange(r, session.span))

\* What the engine answers, and the series the panel makes of the answer it shows.
InWindow(data, p) ==
  LET time == p.t + OriginOf[data.rec].start - data.window.origin.start
  IN data.window.from <= time /\ time <= data.window.to

QueryPoints(data, field) ==
  LET points == PointsOf[data.rec][field]
  IN Downsample(Keeping(points, {p \in ToSet(points) : InWindow(data, p)}), MaxPoints)

RealSeries ==
  LET data == fetch.shown.data
  IN [k \in KeySet(selections) \cap CandidateKeys(session) |->
        IF data = Null THEN <<>>
        ELSE IF k \in ToSet(data.keys) \ data.failed THEN QueryPoints(data, k.name) ELSE <<>>]

Snapshot == BuildDerived(RealSeries, derived)

\* The columns of the plot and of the export.
VisibleColumns ==
  LET known == Snapshot
      items == Keeping(selections, {x \in ToSet(selections) : x.visible /\ x.key \in DOMAIN known})
      defs == Keeping(derived, {d \in ToSet(derived) : d.visible})
  IN [i \in DOMAIN items |-> known[items[i].key]] \o
     [i \in DOMAIN defs |-> known[DerivedKey(defs[i].id)]]

HasPlot == session # Null /\ ~(ToSet(VisibleColumns) \subseteq {<<>>})
Axes == [i \in DOMAIN Aligned(VisibleColumns).values |-> AxisOf(i - 1)]

-----------------------------------------------------------------------------
(* The events; a plot takes gestures only while it has something to draw. *)

Page(u) == [sel |-> DecodeSelections(u), defs |-> DecodeDefs(u),
            next |-> NextDerivedId(DecodeDefs(u)), restored |-> Readable(u)]

Init ==
  /\ \E u \in InitialUrls :
       /\ selections = Page(u).sel /\ derived = Page(u).defs /\ nextId = Page(u).next
       /\ restored = Page(u).restored /\ url = Encode(Page(u).sel, Page(u).defs)
  /\ session = Null /\ xRange = Null /\ scale = Null
  /\ fetch = NoFetch /\ stale = {} /\ events = 0

Event == events < MaxEvents /\ events' = events + 1

\* The page is loaded again: only the url is left.
Reload ==
  /\ Event /\ session' = Null /\ xRange' = Null /\ scale' = Null
  /\ selections' = Page(url).sel /\ derived' = Page(url).defs /\ nextId' = Page(url).next
  /\ restored' = Page(url).restored /\ url' = Encode(Page(url).sel, Page(url).defs)
  /\ fetch' = NoFetch /\ stale' = {}

Open(rec) == Event /\ SessionBecomes([rec |-> rec, span |-> SpanOf[rec]])
CloseSession == Event /\ session # Null /\ SessionBecomes(Null)

\* A live session is a new object with a later end after every update.
Grow ==
  /\ Event /\ session # Null /\ session.span < SpanOf[session.rec] + MaxGrowth
  /\ SessionBecomes([session EXCEPT !.span = @ + 2])

Drag(lo, hi) == Event /\ CommitXRange(XRange(lo, hi))
DoubleClick == Event /\ CommitXRange(Null)
Wheel(anchor, next) ==
  /\ Event /\ scale.max > scale.min
  /\ (next * (anchor - scale.min)) % (scale.max - scale.min) = 0
  /\ CommitXRange(Zoomed(scale, anchor, next))
ShiftWheel(by) == Event /\ CommitXRange(Panned(scale, by))

AddSeries(field) ==
  /\ Event /\ SeriesKey(field) \in CandidateKeys(session) \ KeySet(selections)
  /\ SelectionsBecome(Append(selections,
       [key |-> SeriesKey(field), visible |-> TRUE,
        color |-> NextColor(ColorsOf(selections) \o ColorsOf(derived))]))

\* The form offers what is selected; a source it lost falls back to the first.
AddDerived(input) ==
  LET known == KeySet(selections) \cup {DerivedKey(derived[i].id) : i \in DOMAIN derived}
      def == [id |-> UniqueDerivedId(<<nextId>>, derived), kind |-> input.kind,
              src |-> SubSeq(input.src, 1, SourceCount(input.kind)),
              window |-> input.window, op |-> input.op, scale |-> input.scale, offset |-> input.offset,
              color |-> NextColor(ColorsOf(selections) \o ColorsOf(derived)), visible |-> TRUE]
  IN /\ Event /\ Len(derived) < MaxDerived
     /\ Len(input.src) >= SourceCount(input.kind) /\ ToSet(def.src) \subseteq known
     /\ nextId' = nextId + 1 /\ DerivedBecomes(Append(derived, def))

Keyed(key) == {x \in ToSet(selections) : x.key = key}

RemoveSeries(key) ==
  /\ Event
  /\ \/ /\ key.derived
        /\ DerivedBecomes(Keeping(derived, {d \in ToSet(derived) : DerivedKey(d.id) # key}))
        /\ UNCHANGED nextId
     \/ /\ ~key.derived
        /\ SelectionsBecome(Keeping(selections, ToSet(selections) \ Keyed(key)))

\* The dragged series takes the place its target has without it.
Reorder(dragged, target) ==
  LET rest == Keeping(selections, ToSet(selections) \ Keyed(dragged))
      item == Keeping(selections, Keyed(dragged))[1]
      at == SelectInSeq(rest, LAMBDA x : x.key = target)
  IN /\ Event /\ dragged # target /\ {dragged, target} \subseteq KeySet(selections)
     /\ SelectionsBecome(InsertAt(rest, at, item))

\* setSeriesColor and toggleSeriesVisible change one item in its place.
Styled(x, color, flip) == [x EXCEPT !.color = IF color = Null THEN @ ELSE color,
                                    !.visible = IF flip THEN ~@ ELSE @]
Restyle(key, color, flip) ==
  /\ Event
  /\ \/ /\ key.derived /\ UNCHANGED nextId
        /\ DerivedBecomes([i \in DOMAIN derived |->
             IF DerivedKey(derived[i].id) = key THEN Styled(derived[i], color, flip) ELSE derived[i]])
     \/ /\ ~key.derived
        /\ SelectionsBecome([i \in DOMAIN selections |->
             IF selections[i].key = key THEN Styled(selections[i], color, flip) ELSE selections[i]])

\* The debounce is over: a window that is the one fetched last is not fetched.
TimerFires ==
  LET h == [fetch EXCEPT !.timer = Null, !.window = fetch.timer]
  IN /\ fetch.timer # Null
     /\ IF fetch.timer = fetch.window THEN fetch' = h /\ UNCHANGED stale
        ELSE FetchBecomes(Ask(h, session, selections))
     /\ UNCHANGED <<session, xRange, scale, pageVars, events>>

\* All queries of a run have settled; those that failed leave no series.
Answer(failed) ==
  LET asked == fetch.asked[1]
      got == [data |-> [rec |-> asked.rec, window |-> asked.window, keys |-> asked.keys,
                        failed |-> failed],
              key |-> [window |-> asked.window, keys |-> asked.signature]]
  IN /\ fetch.asked # <<>> /\ failed \subseteq ToSet(asked.keys)
     /\ fetch' = [fetch EXCEPT !.asked = <<>>, !.loading = FALSE, !.shown = got,
                    !.overview = IF asked.window.overview THEN got ELSE @]
     /\ UNCHANGED <<session, xRange, scale, pageVars, stale, events>>

\* Faulty variant: the effect does not ask whether it was cleaned up.
StaleAnswerShown(r) ==
  /\ r \in stale /\ stale' = stale \ {r}
  /\ fetch' = [fetch EXCEPT !.shown.data = [rec |-> r.rec, window |-> r.window, keys |-> r.keys, failed |-> {}]]
  /\ UNCHANGED <<session, xRange, scale, pageVars, events>>

\* A run whose effect was cleaned up is heard and ignored.
StaleAnswer(r) ==
  /\ r \in stale /\ stale' = stale \ {r}
  /\ UNCHANGED <<session, xRange, scale, pageVars, fetch, events>>

AllKeys == KeySet(selections) \cup {DerivedKey(derived[i].id) : i \in DOMAIN derived}

Next ==
  \/ Reload \/ CloseSession \/ Grow \/ TimerFires
  \/ \E rec \in Recordings : Open(rec)
  \/ /\ HasPlot /\ events < MaxEvents
     /\ \/ DoubleClick
        \/ \E r \in Drags : Drag(r[1], r[2])
        \/ \E w \in Turns : Wheel(w[1], w[2])
        \/ ShiftWheel(MinSpan)
  \/ \E f \in UNION {FieldsOf[r] : r \in Recordings} : AddSeries(f)
  \/ \E input \in NewDerived : AddDerived(input)
  \/ \E k \in AllKeys : RemoveSeries(k) \/ Restyle(k, Null, TRUE) \/ Restyle(k, Colors[2], FALSE)
  \/ \E j, k \in KeySet(selections) : Reorder(j, k)
  \/ \E failed \in {{}} \cup {{k} : k \in KeySet(selections)} : Answer(failed)
  \/ \E r \in stale : StaleAnswer(r)

Spec == Init /\ [][Next]_vars

-----------------------------------------------------------------------------
(* The properties. *)

\* The variables have their types.
TypeOK ==
  /\ session = Null \/ (session.rec \in Recordings /\ session.span \in Nat)
  /\ nextId \in Nat /\ restored \in BOOLEAN /\ events \in 0 .. MaxEvents
  /\ selections \in Seq(Selections) /\ derived \in Seq(Definitions)
  /\ fetch.loading \in BOOLEAN

Settled == session # Null /\ fetch.timer = Null /\ fetch.asked = <<>>
Fetchable == Offered(Signature(selections), session)

\* Once the debounce and the queries are over, "loading" is over and the panel
\* shows data asked for with the present selection: of the open recording, of all
\* its fields selected and for the range the plot is at, or else, when the plot is
\* zoomed, an overview.  Holds across any order of opens, zooms, selections and
\* late answers.  (The cached overview is not always of the open recording.)
SettledShowsCurrent ==
  Settled =>
    /\ ~fetch.loading
    /\ fetch.window = BuildFetchWindow(session, xRange)
    /\ IF Fetchable = <<>> THEN fetch.shown = Nothing
       ELSE /\ fetch.shown # Nothing
            /\ fetch.shown.key.keys = Signature(selections)
            /\ IF fetch.shown.data.window = fetch.window
                 THEN /\ fetch.shown.data.rec = session.rec
                      /\ fetch.shown.data.keys = Fetchable
                 ELSE /\ xRange # Null
                      /\ fetch.shown.data.window = BuildFetchWindow(session, Null)

\* "Zooming refetches just the visible window at full resolution" (README.md):
\* once settled, a zoomed plot shows what was queried for its own range.
ZoomShowsItsWindow ==
  Settled /\ xRange # Null /\ fetch.shown # Nothing =>
    fetch.shown.data.window = BuildFetchWindow(session, xRange)

\* The column's range is a proper part of the session, already normalised, and
\* the plot is at it: neither drags, wheel turns, growth nor another recording
\* leave the plot at another range than the one that is fetched and stored.
PlotShowsRange ==
  /\ (session = Null) => (xRange = Null)
  /\ (session # Null) => /\ NormalizeControlledXRange(xRange, session.span) = xRange
                         /\ scale = IF xRange = Null THEN FullXRange(session.span) ELSE xRange

\* The url always decodes to the selections and definitions of the page, so
\* that a reload loses none; and no definition uses a later one, although ids
\* are taken up again after removals and reloads.
PageSurvivesReload ==
  /\ DecodeSelections(url) = selections /\ DecodeDefs(url) = derived
  /\ \A i, j \in DOMAIN derived :
       /\ DerivedKey(derived[j].id) \in ToSet(derived[i].src) => j < i
       /\ derived[i].id = derived[j].id => i = j

\* The sum of the first n numbers, of the n values that end at the i-th point, and the
\* area under the points up to it.
Total(numbers, n) ==
  LET sum[k \in 0 .. n] == IF k = 0 THEN 0 ELSE sum[k - 1] + numbers[k]
  IN sum[n]
SumTo(f, i, n) == Total([k \in 1 .. n |-> f[i - n + k].v], n)
Strip(f, k) == IF k = 1 THEN 0 ELSE ((f[k].v + f[k - 1].v) * (f[k].t - f[k - 1].t)) \div 2
AreaTo(f, i) == Total([k \in 1 .. i |-> Strip(f, k)], i)

\* What each kind of channel means at a point p of it, said without a sweep.
Meaning(def, s, p) ==
  LET src(n) == Finite(s[def.src[n]])
      held(n) == {i \in DOMAIN src(n) : src(n)[i].t <= p.t}
      latest(n) == src(n)[Max(held(n))].v
      count(i) == Lesser(i, Greater(1, def.window))
      rise(f, i) == (f[i].v - f[i - 1].v) \div (f[i].t - f[i - 1].t)
      at == {i \in DOMAIN src(1) : src(1)[i].t = p.t}
  IN CASE def.kind = "moving-average" -> \E i \in at : p.v = SumTo(src(1), i, count(i)) \div count(i)
       [] def.kind = "derivative" -> \E i \in at : i > 1 /\ src(1)[i - 1].t < p.t /\ p.v = rise(src(1), i)
       [] def.kind = "integral" -> \E i \in at : p.v = AreaTo(src(1), i)
       [] def.kind = "binary-op" -> held(1) # {} /\ held(2) # {} /\ p.v = ApplyBinaryOp(latest(1), latest(2), def.op)
       [] def.kind = "abs" -> p.v >= 0 /\ \E i \in at : src(1)[i].v \in {p.v, -p.v}
       [] def.kind = "scale-offset" -> \E i \in at : p.v = def.scale * src(1)[i].v + def.offset

\* Derived channels say what their kind means at each of their points, which
\* lie at times of their sources; the samples shown of a field are
\* samples of the recording in the window, with its lowest and highest value
\* (of two values at one time, one is shown); a row of the export is at a time
\* of a column.
SeriesAreTrue ==
  LET data == fetch.shown.data
      real == RealSeries
      shown == BuildDerived(real, derived)
  IN session # Null =>
    /\ \A i \in DOMAIN derived :
         LET s == shown[DerivedKey(derived[i].id)]
             known == ToSet(derived[i].src) \subseteq DOMAIN shown
         IN /\ ~known => s = <<>>
            /\ \A k \in DOMAIN s : Meaning(derived[i], shown, s[k])
            /\ Stamps(s) \subseteq UNION {Stamps(shown[key]) : key \in ToSet(derived[i].src) \cap DOMAIN shown}
    /\ \A k \in {q \in DOMAIN real : real[q] # <<>>} :
         LET all == {p \in ToSet(PointsOf[data.rec][k.name]) : InWindow(data, p)}
             got == ToSet(real[k])
         IN /\ got \subseteq all /\ Len(real[k]) <= MaxPoints
            /\ (\A p, q \in all : p.t = q.t => p.v = q.v) =>
                 \A p \in all : \E low, high \in got : low.v <= p.v /\ p.v <= high.v
    /\ \A row \in ToSet(CsvRows(VisibleColumns, 0)) : \E c \in ToSet(VisibleColumns) : row.time \in Stamps(c)
===============================================================================
