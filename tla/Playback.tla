-------------------------------- MODULE Playback --------------------------------
(***************************************************************************)
(* Opening a recording in the viewer and moving through it: the store's    *)
(* openMcapFile, openRosbag2Folder, refreshInspection and setters          *)
(* (packages/robotscope-viewer/src/store/viewer-store.ts), its cache of    *)
(* sidecars (storage/sidecar-cache.ts), the playback of the timeline       *)
(* (shell/TimelineBar.tsx) and the incident explainer                      *)
(* (shell/IncidentExplainer.tsx).                                          *)
(*                                                                         *)
(* An action is what runs between two awaits, with the effects of the      *)
(* components that its changes re-render.  Recordings, engines and their   *)
(* answers are those of Recording, SceneModel and FailureRecipes.  The     *)
(* data on display is named by what it was loaded for: the operation that  *)
(* opened the recording, a time and a fixed frame.                         *)
(***************************************************************************)
EXTENDS SceneModel, FailureRecipes

CONSTANTS
  Files,        \* the recordings at hand, by id
  Corrupt,      \* those of which a query may throw, for a chunk that cannot be read
  Openings,     \* what the user opens: a file's id and the companion sidecar, or NoManifest
  Caches,       \* what the browser may hold of earlier visits
  Requests,     \* the recipe that the page's url asks for, or NoRequest
  NoRequest,
  FixedFrames,  \* the fixed frames that can be chosen
  Seeks,        \* bound: how far into a recording the user seeks
  TickTime,     \* what passes between two animation frames
  MaxOps,       \* bound: recordings opened
  MaxGestures,  \* bound: what the user does in between
  Explored      \* bound: the recordings in which the user does it

ASSUME PlaybackAssumption ==
  /\ \A o \in Openings : o.file \in DOMAIN Files
  /\ "map" \in FixedFrames /\ TickTime \in Nat \ {0} /\ Seeks \subseteq Nat
  /\ MaxOps \in Nat /\ MaxGestures \in Nat

\* A database's messages are in memory once it is open, and decoding never throws.
ASSUME CorruptAssumption ==
  \A f \in Corrupt : f \in DOMAIN Files /\ Files[f].format = "mcap"

\* What is decoded by a schema of transforms is a list of them.
TransformsTyped(value) ==
  LET all == value.transforms IN
  value \notin {NoBlob, Garbled} =>
    (value.schema \in {"Transform", "TFMessage"} =>
      all \in Seq(ToSet(all)) /\ \A t \in ToSet(all) : t.static \in BOOLEAN)

\* A recording is a sequence of parts with stamps that are not negative.  No two
\* channels of a part share an id; no two rows of a database do, and their ids have
\* room in a storage id.
WellFormed(file) ==
  /\ file.parts \in Seq(ToSet(file.parts))
  /\ \A part \in ToSet(file.parts) :
       /\ part.channels \in Seq(ToSet(part.channels)) /\ part.rows \in Seq(ToSet(part.rows))
       /\ \A c, d \in ToSet(part.channels) : c.id = d.id => c = d
       /\ \A row \in ToSet(part.rows) :
            /\ row.stamp \in Nat /\ TransformsTyped(row.value)
            /\ IF file.format = "mcap" THEN row.value # NoBlob
               ELSE /\ row.id \in 0 .. Shift - 1
                    /\ \A other \in ToSet(part.rows) : other.id = row.id => other = row
  /\ file.format # "folder" => Len(file.parts) = 1
  /\ file.format = "folder" =>
       /\ file.listed \in Seq(ToSet(file.listed)) /\ file.names \in Seq(ToSet(file.names))
       /\ Len(file.names) = Len(file.parts)

ASSUME FilesAssumption == \A f \in DOMAIN Files : WellFormed(Files[f])

VARIABLES
  cache,       \* the browser's database: fingerprint to sidecar
  ops,         \* the session operations; the last one is the current one
  ingest,      \* store.ingest and session: the operation, its engine and the bounds of it
  playhead,    \* currentTimeNs
  playing,     \* isPlaying
  fixedFrame,
  shown,       \* what tfTree, rawMessage and sceneSnapshot were loaded for
  armed,       \* the 150 ms refreshTimer is running
  loads,       \* refreshes that are loading; the fresh one has refreshRequestId
  loading,     \* inspectLoading and sceneLoading, which are always set together
  markers,     \* recipeMarkers
  incidents,   \* what the explainer memoizes of them
  indexing,    \* recipeIndexLoading
  requested,   \* the url's incident
  selected,    \* selectedId of the explainer
  explanation, \* what it shows, or nothing
  explaining,  \* its loading
  explains,    \* explainIncident calls that are running; a cancelled one is not live
  gestures     \* what the user has done so far

askVars     == <<armed, loads, loading>>
explainVars == <<explanation, explaining, explains>>
incidentVars == <<requested, selected, explainVars>>
markerVars  == <<markers, incidents>>
vars == <<cache, ops, ingest, playhead, playing, fixedFrame, shown, askVars, markerVars,
          indexing, incidentVars, gestures>>

Init ==
  /\ cache \in Caches /\ requested \in Requests
  /\ ops = <<>> /\ ingest = <<>> /\ shown = <<>>
  /\ playhead = 0 /\ playing = FALSE /\ fixedFrame = "map"
  /\ armed = FALSE /\ loads = {} /\ loading = FALSE
  /\ markers = <<>> /\ incidents = <<>> /\ indexing = FALSE
  /\ selected = <<>> /\ explanation = <<>> /\ explaining = FALSE /\ explains = {}
  /\ gestures = 0

\* The engine of a file that can be opened with a sidecar, the markers that its index
\* ends with, and their incidents.  They are tabulated for the sidecars that are at
\* hand from the start or are written with those: TLC then makes each of them once.
Openable == {f \in DOMAIN Files : Resolve(Files[f]) # <<>>}

Written(f, sidecar) == ManifestOf(EngineOf(Files[f], sidecar), Fingerprint(Files[f]))

Manifests ==
  {NoManifest} \cup {o.given : o \in Openings} \cup UNION {{c[k] : k \in DOMAIN c} : c \in Caches}
  \cup {Written(w[1], w[2]) : w \in {<<f, NoManifest>> : f \in Openable}
           \cup {<<o.file, o.given>> : o \in {p \in Openings : p.file \in Openable}}}

Marked(found) == [markers |-> found, incidents |-> GroupRecipeMarkers(found)]

Engines  == [f \in Openable |-> [m \in Manifests |-> EngineOf(Files[f], m)]]
Markings == [f \in Openable |-> [m \in Manifests |-> Marked(RecipeMarkers(Engines[f][m]))]]

Tabulated(table, f, sidecar, anew) ==
  IF sidecar \in DOMAIN table[f] THEN table[f][sidecar] ELSE anew

EngineFor(f, sidecar) == Tabulated(Engines, f, sidecar, EngineOf(Files[f], sidecar))
MarkedFor(f, sidecar) ==
  Tabulated(Markings, f, sidecar, Marked(RecipeMarkers(EngineOf(Files[f], sidecar))))

Opened == ingest # <<>>
Engine == EngineFor(ingest[1].file, ingest[1].sidecar)

-----------------------------------------------------------------------------
(* Refreshing what is on display.                                          *)

Stale(all) == {[l EXCEPT !.fresh = FALSE] : l \in all}

\* Faulty variant: a load that is running keeps the right to be displayed.
RefreshBesides == armed' = TRUE /\ loading' = TRUE /\ UNCHANGED loads

\* refreshInspection: a new request supersedes the one that is waiting or loading.
RefreshInspection == armed' = TRUE /\ loads' = Stale(loads) /\ loading' = TRUE

\* setCurrentTimeNs
SetCurrentTime(t) == playhead' = t /\ RefreshInspection

TimerFires ==
  /\ armed /\ armed' = FALSE
  /\ loads' = loads \cup {[op |-> ingest[1].op, time |-> playhead, frame |-> fixedFrame,
                           fresh |-> TRUE]}
  /\ UNCHANGED <<cache, ops, ingest, playhead, playing, fixedFrame, shown, loading, markerVars,
                 indexing, incidentVars, gestures>>

Loaded(l) ==
  /\ l \in loads /\ loads' = loads \ {l}
  /\ IF l.fresh /\ l.op = ingest[1].op
       THEN shown' = [op |-> l.op, time |-> l.time, frame |-> l.frame] /\ loading' = FALSE
       ELSE UNCHANGED <<shown, loading>>
  /\ UNCHANGED <<cache, ops, ingest, playhead, playing, fixedFrame, armed, markerVars, indexing,
                 incidentVars, gestures>>

\* A query of the load that would be displayed throws: nobody hears of it, and no
\* flag is taken back.  Of another load it is as if it had answered.
RefreshFails(l) ==
  /\ l \in loads /\ loads' = loads \ {l}
  /\ l.fresh /\ l.op = ingest[1].op /\ ingest[1].file \in Corrupt
  /\ UNCHANGED <<cache, ops, ingest, playhead, playing, fixedFrame, shown, armed, loading,
                 markerVars, indexing, incidentVars, gestures>>

-----------------------------------------------------------------------------
(* The incident explainer.                                                 *)

IdOf(incident) == <<incident.stack, incident.recipe, incident.start>>

WithId(all, id) == Keeping(all, {i \in ToSet(all) : IdOf(i) = id})

\* Faulty variant: the effect does not clean up after itself.
ExplainBesides(in, incident) ==
  IF incident = <<>>
    THEN explanation' = <<>> /\ UNCHANGED <<explaining, explains>>
    ELSE /\ explains' = explains \cup
              {[op |-> in.op, marker |-> incident[1].marker, live |-> TRUE]}
         /\ explaining' = TRUE
         /\ explanation' = IF IdOf(incident[1]) = selected THEN explanation ELSE <<>>

Cancelled(all) == {[e EXCEPT !.live = FALSE] : e \in all}

\* The effect of another selected incident or ingest: it cancels the call that is
\* running.  Without an incident to explain the loading flag is left alone.
Explain(in, incident) ==
  IF incident = <<>>
    THEN explains' = Cancelled(explains) /\ explanation' = <<>> /\ UNCHANGED explaining
    ELSE /\ explains' = Cancelled(explains) \cup
              {[op |-> in.op, marker |-> incident[1].marker, live |-> TRUE]}
         /\ explaining' = TRUE
         /\ explanation' = IF IdOf(incident[1]) = selected THEN explanation ELSE <<>>

\* The effects of new markers.  A selected incident that is gone is replaced by the
\* requested one, which moves the playhead, or else by the first.
MarkersBecome(new, all) ==
  LET found == FindIncident(all, requested)
      next  == IF found # <<>> THEN found[1] ELSE all[1]
  IN /\ markers' = new /\ incidents' = all
     /\ IF all = <<>> \/ WithId(all, selected) # <<>>
          THEN /\ Explain(ingest[1], WithId(all, selected))
               /\ UNCHANGED <<selected, playhead, askVars>>
          ELSE /\ selected' = IdOf(next)
               /\ Explain(ingest[1], WithId(all, selected'))
               /\ IF found # <<>> THEN SetCurrentTime(next.start)
                                  ELSE UNCHANGED <<playhead, askVars>>

IndexBecomes(marked) == MarkersBecome(marked.markers, marked.incidents)

\* chooseIncident.  What is on display stays until the new explanation is there.
ChooseIncident(incident) ==
  /\ selected' = IdOf(incident) /\ requested' = incident.recipe
  /\ SetCurrentTime(incident.start)
  /\ IF selected = selected' THEN UNCHANGED explainVars
     ELSE /\ explains' = Cancelled(explains) \cup
               {[op |-> ingest[1].op, marker |-> WithId(incidents, selected')[1].marker,
                 live |-> TRUE]}
          /\ explaining' = TRUE /\ UNCHANGED explanation

\* A call that was cancelled is heard and ignored; one that fails explains nothing.
Explained(e, fails) ==
  /\ e \in explains /\ explains' = explains \ {e}
  /\ fails => ingest[1].file \in Corrupt
  /\ IF ~e.live THEN UNCHANGED <<explanation, explaining>>
     ELSE /\ explaining' = FALSE
          /\ explanation' = IF fails THEN <<>> ELSE <<[op |-> e.op, marker |-> e.marker]>>
  /\ UNCHANGED <<cache, ops, ingest, playhead, playing, fixedFrame, shown, askVars, markerVars,
                 indexing, requested, selected, gestures>>

-----------------------------------------------------------------------------
(* Opening a recording.                                                    *)

IsCurrent(n) == n = Len(ops)

OpBecomes(n, op) == ops' = [ops EXCEPT ![n] = op]

\* An operation that has ended keeps nothing.
Ended(n, step) == OpBecomes(n, [step |-> step])

\* A superseded operation notices at its next check, closes what it has opened and
\* changes nothing else.
Superseded(n) ==
  /\ ~IsCurrent(n) /\ Ended(n, "superseded")
  /\ UNCHANGED <<ingest, playhead, playing, fixedFrame, shown, askVars, markerVars, indexing,
                 incidentVars, gestures>>

\* beginSessionOperation, then the previous ingest is closed and the file read.
Open(o) ==
  /\ Len(ops) < MaxOps
  /\ ops' = Append(ops, [file |-> o.file, step |-> "cache", sidecar |-> o.given,
                         frame |-> fixedFrame])
  /\ armed' = FALSE /\ loads' = Stale(loads) /\ loading' = TRUE
  /\ UNCHANGED <<cache, ingest, playhead, playing, fixedFrame, shown, markerVars, indexing,
                 incidentVars, gestures>>

\* The cache is asked only when no companion was given; it may fail, which is the
\* same as finding nothing.  Only a sidecar with the file's fingerprint is kept.
ReadCache(n, fails) ==
  LET fingerprint == Fingerprint(Files[ops[n].file])
      found == IF ops[n].sidecar # NoManifest THEN ops[n].sidecar
               ELSE IF fails THEN NoManifest ELSE Load(cache, fingerprint)
      kept == IF found = NoManifest THEN NoManifest
              ELSE IF Valid(found, fingerprint) THEN found ELSE NoManifest
  IN /\ ops[n].step = "cache" /\ UNCHANGED cache
     /\ \/ Superseded(n)
        \/ /\ IsCurrent(n)
           /\ OpBecomes(n, [ops[n] EXCEPT !.step = "build", !.sidecar = kept])
           /\ UNCHANGED <<ingest, playhead, playing, fixedFrame, shown, askVars, markerVars,
                          indexing, incidentVars, gestures>>

\* openMcap, openRosbag2, openRosbag2Folder; the last fails when a listed database
\* is not there.
Build(n) ==
  LET file == Files[ops[n].file] IN
  /\ ops[n].step = "build" /\ UNCHANGED cache
  /\ \/ Superseded(n)
     \/ /\ IsCurrent(n)
        /\ IF Resolve(file) = <<>>
             THEN Ended(n, "failed") /\ loading' = FALSE
             ELSE OpBecomes(n, [ops[n] EXCEPT !.step = "save"]) /\ UNCHANGED loading
        /\ UNCHANGED <<ingest, playhead, playing, fixedFrame, shown, armed, loads, markerVars,
                       indexing, incidentVars, gestures>>

\* The sidecar is written, unless the database refuses; then the recording becomes
\* the store's.  The previous recording's markers stay.
InstallEngine(n, engine, fails) ==
  LET fingerprint == Fingerprint(Files[ops[n].file])
      new == [op |-> n, file |-> ops[n].file, sidecar |-> ops[n].sidecar,
              start |-> engine.start, end |-> engine.end]
  IN /\ cache' = IF fails THEN cache ELSE Save(cache, fingerprint, ManifestOf(engine, fingerprint))
     /\ \/ Superseded(n)
        \/ /\ IsCurrent(n)
           /\ OpBecomes(n, [ops[n] EXCEPT !.step = "load", !.frame = fixedFrame])
           /\ ingest' = <<new>> /\ playhead' = engine.start /\ playing' = FALSE
           /\ Explain(new, WithId(incidents, selected))
           /\ UNCHANGED <<fixedFrame, shown, askVars, markerVars, indexing, requested, selected,
                          gestures>>

Install(n, fails) ==
  ops[n].step = "save" /\ InstallEngine(n, EngineFor(ops[n].file, ops[n].sidecar), fails)

\* loadViewerData of an open, which has no refreshRequestId; a query may throw, and
\* an open that is current takes the flags back then.  Else the index of the recipes
\* begins, with the effects of no markers.
OpenLoaded(n, fails) ==
  /\ ops[n].step = "load" /\ UNCHANGED cache
  /\ fails => ops[n].file \in Corrupt
  /\ \/ Superseded(n)
     \/ /\ IsCurrent(n) /\ fails /\ Ended(n, "failed") /\ loading' = FALSE
        /\ UNCHANGED <<ingest, playhead, playing, fixedFrame, shown, armed, loads, markerVars,
                       indexing, incidentVars, gestures>>
     \/ /\ IsCurrent(n) /\ ~fails
        /\ OpBecomes(n, [ops[n] EXCEPT !.step = "index"])
        /\ shown' = [op |-> n, time |-> ingest[1].start, frame |-> ops[n].frame]
        /\ indexing' = TRUE /\ loading' = FALSE
        /\ markers' = <<>> /\ incidents' = <<>> /\ Explain(ingest[1], <<>>)
        /\ UNCHANGED <<ingest, playhead, playing, fixedFrame, armed, loads, requested, selected,
                       gestures>>

\* Faulty variant: the index does not ask whether its operation was superseded.
IndexedAnyway(n, fails) ==
  /\ ops[n].step = "index" /\ UNCHANGED cache
  /\ fails => ops[n].file \in Corrupt
  /\ Ended(n, "done") /\ indexing' = FALSE
  /\ IF fails THEN UNCHANGED <<playhead, askVars, markerVars, selected, explainVars>>
     ELSE IndexBecomes(MarkedFor(ops[n].file, ops[n].sidecar))
  /\ UNCHANGED <<ingest, playing, fixedFrame, shown, requested, gestures>>

\* indexFailureRecipeMarkers of an open, detached from it.  Superseded, it leaves
\* recipeIndexLoading as it is.
Indexed(n, fails) ==
  /\ ops[n].step = "index" /\ UNCHANGED cache
  /\ fails => ops[n].file \in Corrupt
  /\ \/ Superseded(n)
     \/ /\ IsCurrent(n) /\ indexing' = FALSE
        /\ IF fails
             THEN /\ Ended(n, "failed")
                  /\ UNCHANGED <<playhead, askVars, markerVars, selected, explainVars>>
             ELSE /\ Ended(n, "done")
                  /\ IndexBecomes(MarkedFor(ingest[1].file, ingest[1].sidecar))
        /\ UNCHANGED <<ingest, playing, fixedFrame, shown, requested, gestures>>

-----------------------------------------------------------------------------
(* What the user does in between, and the animation frames.                *)

Gesture ==
  /\ Opened /\ ingest[1].file \in Explored
  /\ gestures < MaxGestures /\ gestures' = gestures + 1

\* The slider of the timeline, which ends where the recording does.
Seek(t) ==
  /\ Gesture /\ t <= ingest[1].end /\ SetCurrentTime(t)
  /\ UNCHANGED <<cache, ops, ingest, playing, fixedFrame, shown, markerVars, indexing, incidentVars>>

SetFixedFrame(f) ==
  /\ Gesture /\ fixedFrame' = f /\ RefreshInspection
  /\ UNCHANGED <<cache, ops, ingest, playhead, playing, shown, markerVars, indexing, incidentVars>>

\* setPlaying of the play button
TogglePlaying ==
  /\ Gesture /\ playing' = ~playing
  /\ UNCHANGED <<cache, ops, ingest, playhead, fixedFrame, shown, askVars, markerVars, indexing,
                 incidentVars>>

Choose(incident) ==
  /\ Gesture /\ ChooseIncident(incident)
  /\ UNCHANGED <<cache, ops, ingest, playing, fixedFrame, shown, markerVars, indexing>>

\* Faulty variant: playback goes on at the end of the recording.
TickOn ==
  LET next == Min({ingest[1].end, playhead + TickTime}) IN
  /\ playing /\ SetCurrentTime(next) /\ UNCHANGED playing
  /\ UNCHANGED <<cache, ops, ingest, fixedFrame, shown, markerVars, indexing, incidentVars, gestures>>

\* tick: an animation frame of the playback, which every one of them refreshes.
Tick ==
  LET next == Min({ingest[1].end, playhead + TickTime}) IN
  /\ playing /\ SetCurrentTime(next) /\ playing' = (next < ingest[1].end)
  /\ UNCHANGED <<cache, ops, ingest, fixedFrame, shown, markerVars, indexing, incidentVars, gestures>>

-----------------------------------------------------------------------------

\* What happens without the user.
Async ==
  \/ Tick \/ TimerFires
  \/ \E l \in loads : Loaded(l) \/ RefreshFails(l)
  \/ \E e \in explains, fails \in BOOLEAN : Explained(e, fails)
  \/ \E n \in DOMAIN ops :
       \/ Build(n)
       \/ \E fails \in BOOLEAN :
            ReadCache(n, fails) \/ Install(n, fails) \/ OpenLoaded(n, fails) \/ Indexed(n, fails)

User ==
  \/ \E o \in Openings : Open(o)
  \/ \E s \in Seeks : Seek(ingest[1].start + s)
  \/ \E f \in FixedFrames \ {fixedFrame} : SetFixedFrame(f)
  \/ TogglePlaying
  \/ \E i \in DOMAIN incidents : Choose(incidents[i])

Next == Async \/ User

\* A timer fires, an animation frame comes, and an awaited call answers or throws.
Fairness == WF_vars(Async)

Spec == Init /\ [][Next]_vars /\ Fairness

-----------------------------------------------------------------------------
(* The properties.                                                         *)

\* The variables have their types.
TypeOK ==
  /\ Len(ops) <= MaxOps /\ gestures \in 0 .. MaxGestures
  /\ \A n \in DOMAIN ops :
       \/ ops[n].step \in {"done", "failed", "superseded"}
       \/ /\ ops[n].step \in {"cache", "build", "save", "load", "index"}
          /\ ops[n].file \in DOMAIN Files /\ ops[n].frame \in FixedFrames
  /\ Opened => ingest[1].op \in DOMAIN ops
  /\ playhead \in Nat
  /\ {playing, armed, loading, indexing, explaining} \subseteq BOOLEAN
  /\ armed \/ playing => Opened
  /\ Cardinality({l \in loads : l.fresh}) <= 1
  /\ Cardinality({e \in explains : e.live}) <= 1

\* All rows of a topic whose messages an engine can hand out, in order of stamp.
RowsOf(engine, topic) ==
  UNION {{r \in ToSet(engine.parts[n].rows) :
            /\ r.value # NoBlob
            /\ \E c \in ToSet(engine.parts[n].channels) : c.id = r.channel /\ c.topic = topic} :
         n \in DOMAIN engine.parts}

Exact(engine) ==
  \A n \in DOMAIN engine.parts : \A r \in ToSet(engine.parts[n].rows) : Number(r.stamp) = r.stamp

\* The message an engine hands out is one of the topic's, and no other is nearer.
\* An MCAP file whose stamps are rounded may have none at the rounded stamp.
NearestIsNearest(engine, topic, time) ==
  LET got  == MessageNear(engine, topic, time)
      rows == RowsOf(engine, topic)
      away(r) == Distance(Number(r.stamp), time)
  IN /\ rows # {} /\ (engine.source = "rosbag2" \/ Exact(engine)) => got # <<>>
     /\ got # <<>> =>
          \E r \in rows : /\ Number(r.stamp) = got[1].time
                          /\ got[1].decoded = Decode(got[1].schema, r.value)
                          /\ \A q \in rows : away(r) <= away(q)

AllTransforms(engine) == ToSet(TransformsOf(engine.parts, engine.source))

\* Between two frames an engine answers with the latest transform that is not newer
\* than the time asked for, and with a static one at any time.
LatestTransform(engine, parent, child, time) ==
  LET all == {t \in AllTransforms(engine) : t.parent = parent /\ t.child = child}
      got == LookupTransform(engine.tf, parent, child, time)
      old == {t \in all : t.time <= time}
  IN parent # child =>
       IF \E t \in all : t.static THEN got # <<>> /\ got[1] \in all /\ got[1].static
       ELSE IF old = {} THEN got = <<>>
       ELSE got # <<>> /\ got[1] \in old /\ \A t \in old : t.time <= got[1].time

\* Every frame of the scene is where its parent and the transform between them put
\* it, and the fixed frame is at the origin.
FramesAgree(engine, fixed, time) ==
  LET placed == FramePositions(engine.tf, fixed, time)
      tree == Snapshot(engine.tf, time)
      edge(f) == LookupTransform(engine.tf, tree[f].parent, f, time)[1]
  IN \A f \in DOMAIN placed :
       IF f = fixed THEN placed[f] = Identity
       ELSE /\ tree[f].parent \in DOMAIN placed
            /\ placed[f] = Compose(placed[tree[f].parent],
                                  [translation |-> edge(f).translation,
                                   rotation |-> edge(f).rotation])

Topics(engine) == {t.topic : t \in engine.topics}
NoFilter == [paths |-> {}, kinds |-> {}, archetypes |-> {}, tags |-> {}]

\* Two engines of one file answer everything alike.
SameAnswers(engine, fresh, time) ==
  /\ \A topic \in Topics(fresh) :
       /\ MessageNear(engine, topic, time) = MessageNear(fresh, topic, time)
       /\ SeriesOf(engine, topic, "data", time, engine.end) =
            SeriesOf(fresh, topic, "data", time, fresh.end)
  /\ QueryEntities(engine, NoFilter, time) = QueryEntities(fresh, NoFilter, time)
  /\ \A f \in FixedFrames :
       /\ SceneAt(engine, f, time) = SceneAt(fresh, f, time)
       /\ Issues(Snapshot(engine.tf, time), f) = Issues(Snapshot(fresh.tf, time), f)

\* Of each file that can be opened: whether an engine that has indexed it answers
\* truly, and whether one with each sidecar answers alike.
Moments(engine) == (engine.start - 1) .. (engine.end + 1)

TruthfulEngine(engine) ==
  LET pairs == {<<t.parent, t.child>> : t \in AllTransforms(engine)}
  IN \A time \in Moments(engine) :
       /\ \A topic \in Topics(engine) : NearestIsNearest(engine, topic, time)
       /\ \A p \in pairs : LatestTransform(engine, p[1], p[2], time)
       /\ \A frame \in FixedFrames : FramesAgree(engine, frame, time)

AlikeEngines(engine, fresh) ==
  /\ engine.start = fresh.start /\ engine.end = fresh.end
  /\ engine = fresh \/ \A time \in Moments(fresh) : SameAnswers(engine, fresh, time)

TrueAnswers == [f \in Openable |-> TruthfulEngine(Engines[f][NoManifest])]

AnswersAlike ==
  [f \in Openable |-> [m \in Manifests |-> AlikeEngines(Engines[f][m], Engines[f][NoManifest])]]

\* A recording that becomes the store's answers every query with what the file holds
\* nearest to the time, or latest before it, and the same whether it was indexed
\* anew, or taken from a sidecar of the browser, of a companion file or of the
\* live recorder: files that share a name never share a sidecar.
AnswersAreTrue ==
  [][ingest' # ingest =>
       /\ TrueAnswers[ingest'[1].file]
       /\ AnswersAlike[ingest'[1].file][ingest'[1].sidecar]]_vars

\* The incidents of some markers are their runs: every marker is in one incident of
\* its recipe, and two of them are more than the join gap apart.
IncidentsAreRuns(all, runs) ==
  LET in(m) == {k \in DOMAIN runs :
                  /\ runs[k].stack = m.stack /\ runs[k].recipe = m.recipe
                  /\ runs[k].start <= m.time /\ m.time <= runs[k].end}
  IN /\ FoldLeft(LAMBDA sum, i : sum + i.count, 0, runs) = Len(all)
     /\ \A i \in DOMAIN all : Cardinality(in(all[i])) = 1
     /\ \A i, j \in DOMAIN all :
          /\ all[i].stack = all[j].stack /\ all[i].recipe = all[j].recipe
          /\ i < j /\ all[j].time - all[i].time <= 2 * Step
          => in(all[i]) = in(all[j])
     /\ \A j, k \in DOMAIN runs :
          /\ j < k /\ runs[j].stack = runs[k].stack
          /\ runs[j].recipe = runs[k].recipe
          => runs[k].start - runs[j].end > 2 * Step

SamplesOf(engine) ==
  [t \in {engine.start + k * Step : k \in 0 .. Samples(engine)} |-> MarkersAt(engine, t)]

SampleMarkers == [f \in Openable |-> SamplesOf(Engines[f][NoManifest])]

\* The timeline never gets the markers of another recording than the open one, in
\* whatever order opens, failures and the detached index finish: what is set is
\* empty or what the rows of the open file give at every sample, it is grouped
\* into runs, and at a sample of a recording that starts on one the banner names
\* exactly what is marked there.
MarkersAreTrue ==
  [][markers' # markers /\ markers' # <<>> =>
       LET file  == ingest'[1].file
           true  == SampleMarkers[file]
           start == Min(DOMAIN true)
           at(t) == SelectSeq(markers', LAMBDA m : m.time = t)
       IN /\ \A t \in DOMAIN true : at(t) = true[t]
          /\ \A k \in DOMAIN markers' : markers'[k].time \in DOMAIN true
          /\ IncidentsAreRuns(markers', incidents')
          /\ start % Step = 0 =>
               \A t \in DOMAIN true : ActiveRecipeMarkersAt(markers', t) = at(t)]_vars

\* Once no explanation is awaited, the one on display is of the selected incident, in
\* the recording that is open, with a fact for each symptom its marker matched.
ExplanationFits ==
  LET chosen == WithId(incidents, selected)
      facts == ExplainIncident(Engine, explanation[1].marker).facts
  IN ~explaining /\ explanation # <<>> =>
    /\ chosen # <<>> /\ explanation[1].op = ingest[1].op
    /\ explanation[1].marker = chosen[1].marker
    /\ {f.symptom : f \in ToSet(facts)} = ToSet(chosen[1].marker.symptoms)

Underway  == ops # <<>> /\ ops[Len(ops)].step \in {"cache", "build", "save", "load"}
Indexing  == ops # <<>> /\ ops[Len(ops)].step = "index"
OnDisplay == Opened /\ shown = [op |-> ingest[1].op, time |-> playhead, frame |-> fixedFrame]

\* A refresh is armed, or one loads that will be displayed.
Asked == armed \/ \E l \in loads : l.fresh /\ l.op = ingest[1].op

\* Outside of an open, what is asked for is given up only by a query that throws or
\* for a new open: no gesture, animation frame, effect, late answer or end of an
\* index leaves the display behind with nothing on its way.
OnlyFailuresForget ==
  [][Asked /\ ~Underway /\ ~Asked' /\ ~OnDisplay' =>
       Underway' \/ \E l \in loads : RefreshFails(l)]_vars

\* What is asked for outside of an open is displayed, at the latest when playback
\* has stopped, if the recording can be read.  Playback stops at the end of the
\* recording, and every open and every index that is not superseded ends.
InspectionCatchesUp ==
  /\ (armed /\ ~Underway /\ ingest[1].file \notin Corrupt) ~> (OnDisplay \/ Underway)
  /\ (playing \/ Underway \/ Indexing) ~> ~(playing \/ Underway \/ Indexing)
===============================================================================
