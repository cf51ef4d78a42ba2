# A TLA+ model of RobotScope

RobotScope is a browser viewer for robot data. It opens recordings (MCAP, rosbag2) or connects over a
WebSocket to a ROS 2 *agent*, which streams topics and accepts commands: publish a message, call a
service, send and cancel an action goal. This directory holds TLA+ specifications of the parts whose
correctness depends on order, timing and failure, and of the algorithms those parts rest on, the TLC
configurations that check them, and proofs that TLAPS checks.

`tlc -config MCLiveClient.cfg MCLiveClient` checks a configuration; `tlapm LiveClientProofs.tla` checks
the proofs of a module. `PROJECT.json` lists the runs, the source lines each definition stands for, the
hazards and the theorems.

## 1. Inventory

| component (source) | state | operations | what is hard | what makes it correct | modelled |
|---|---|---|---|---|---|
| Live client (`core/live/client.ts`, `open-live.ts`) | socket, handshake promise and timer, four request slots with timers, update timer and flag, recorder | connect, abort, publish/call/send/cancel, disconnect; socket events; timers | uncorrelated answers, late answers, closing with everything outstanding | every promise settles once; timers do not outlive their request; quiet after close | `LiveClient` |
| Agent action handlers (`agent/bridge.py`, `gateway.py`) | goal handle per action, action clients | send (with preempt), cancel; acceptance and outcome callbacks | nested spins on one thread, callbacks on another, handles popped by name | the handle is the pending goal's; acceptance before outcome; handlers return | `ActionGoals` |
| Agent stream (`bridge.py`, `gateway.py`) | channels, subscriptions, clients | topic scan, hand-over to the loop, broadcast, handshake, leave | two threads; a handshake of many sends | session first, channel before data, nothing missed, truthful statuses | `AgentStream` |
| Viewer store (`viewer-store.ts`, `session-operations.ts`) | ingest handle, session, displayed data, gateways, recording, refresh ids | open file/folder/URL, connect, disconnect, reset, refresh, record, stop, reload, live update, seek, fixed frame | asynchronous operations over one store, superseded at any await | the newest request owns the store; no handle leaks; no stale data; no consent carried over | `ViewerSession`, `Playback` |
| Live buffer and queries (`ingest-buffer.ts`, `message-store.ts`, `topic-time-index.ts`, `live-query-engine.ts`) | channels, two windows per topic, counts, bounds, revision, caches | session, channel, message, nearest, series | unordered and equal times, trimming twice, caches | windows hold the latest messages; caches never stale | `LiveIngest`, `TimeIndex`, `LatestWindow` |
| Recorder (`recorder.ts`, `sdk/python`) | writer, channel ids, chained promise | start, register, write, finish | repeated and unknown channels, a failed write | the file and its sidecar say the same | `Recording` |
| Command gateways (`*-gateway.ts`) | tracking of the last goal | fold progress updates | updates carry no goal id | tracking follows the goal sent last | no, next in the plan |
| TF buffer (`tf/*.ts`, `data/transforms.ts`) | samples per edge | add, look up, tree of a moment, chains | unsorted input, static and moving samples of one edge, cycles | latest sample before a time; composition | `TfTree` |
| MCAP engine, rosbag2, sidecars (`ingest/`, `storage/`) | index, transforms, cached sidecars | open, resolve a folder, merge, query | 64-bit times as doubles, sidecars of another recording, parts out of order | answers are the file's, with a sidecar or without | `Recording`, `TimeIndex` |
| Entity mapping and scene (`core/mapping`, `entity-*.ts`, `scene/`) | none | map topics, filter, materialise, build a scene | first rule that fits, frames that do not connect | the scene agrees with the transforms | `SceneModel` |
| Recipes and incidents (`failure-recipes/`, `incidents/`, `plugins/*/src`) | markers, incidents, explanation | sample, match, mark, look up, join, explain | two grids of sample times, detached indexing, late explanations | what is marked is what the rows give; an explanation fits its incident | `FailureRecipes`, `Playback` |
| Viewer shell (`shell/`) | playing, selected incident | play, seek, choose | animation frames against debounced loads | playback ends, the display catches up | `Playback` |
| Time series plugin (`plugins/timeseries`) | range, selection, derived channels, window, queries in flight, results, url | open, grow, drag, wheel, select, derive, reload | overlapping requests, effects that trigger effects, reused ids | the newest request is displayed; the range settles; a reload loses nothing | `SeriesMath`, `PlotCanvas`, `TimeSeries` |
| Byte decoders, three.js objects, panels, styles, demo generators | none, or what a render shows | pure functions | byte formats, geometry | - | no, see section 7 |

How they interact: the **agent**'s ROS thread hands channels, data and events to its asyncio loop
(`run_coroutine_threadsafe`); the loop sends them over WebSockets and runs command handlers, which call
back into the bridge and *block the loop* while they spin. The **client** parses what arrives, feeds the
**buffer** and the **recorder**, settles promises, and reports changes to the **store** by callback at
most every 100 ms. The store queries an **engine** (live or recorded; the same interface) and shows the
result; panels and the **shell** read the store and call it back from their effects. The user calls the
store's operations at any moment, also while an earlier one awaits.

## 2. Plan

Built, most important first:

1. `LiveClient`, with proofs: every command and the connection go through it.
2. `ActionGoals`, with proofs: the part of the agent that moves a robot.
3. `ViewerSession`, with proofs: the arbitration of the viewer's asynchronous operations.
4. `LiveIngest` implementing `LatestWindow`, with proofs: what all live queries rest on.
5. `AgentStream`, with proofs: the handshake against discovery.
6. `SeriesMath`, `PlotCanvas`, `TimeSeries`, with proofs: the debounced, cancellable requests of the plots.
7. `TimeIndex`, `TfTree`, `Recording`, `SceneModel`, `FailureRecipes`: the algorithms of a recording, and
   `Playback`, with proofs, which composes them under the store's asynchronous operations.

Left, in this order:

8. The viewer's tracking of goals (`action-gateway.ts:123-175`, `viewer-store.ts:663-701` and `971-1091`)
   composed with `ActionGoals` and the client's timeouts: what is shown against the goal sent last.
9. Markers of live sessions: merging, the cut at 180, and the playhead that samples them.
10. Proofs of the rest of `AnswersAreTrue`: a chain of frames, and the same answers with a sidecar as
    without.

## 3. The modules

### LiveClient (MCLiveClient, LiveClientProofs)
One `LiveAgentClient` and the agent's end of its socket. Each socket event, timer and public method is an
action: `Connect`, `Open`, `Abort`, `ConnectTimeout`, `SocketClosed`, `Call(k)`, `CallTimeout(k)`,
`Close`, `UpdateTimeout`, and one `Receive...` per kind of message. `Disconnect` is the operator that all
ways of closing share, as in the code. `slot[k]`/`timer[k]` are the pair of resolver and timeout that the
code keeps for each kind of request. `dirty` says that the buffer changed since the last session update, which a
session message does too, and `known` that a channel was announced since: the reset of a repeated session
notifies nobody, and messages of unknown channels are dropped, so a reset is reported with the next channel.
Requests have numbers in the model only: the protocol has none, and
`answered[r]` records whose answer settled request `r`. The agent handles the messages of a connection one
at a time and answers each exactly once, after any delay; it may stop, send a refused session, an error,
or unsolicited messages before and after the handshake.

### ActionGoals (MCActionGoals, ActionGoalsProofs)
One action name. `handler` is the command handler on the asyncio loop, suspended in a spin
(`cancelling`, `sending`) or between two calls; `active` is the entry of `_active_goal_handles`;
`Outcome(g)` is the result callback, which an executor may run in any spin; `Decide`, `AnswerCancel` and
`Finish` are the server. `queue` holds broadcasts scheduled from the callback; `Broadcast` runs only when
the loop is free. The three timeouts of the code are actions enabled at their spins.

### ViewerSession (MCViewerSession, ViewerSessionProofs)
The store as seen by its asynchronous operations. What runs between two awaits is one action and `pc`
says at which await each operation is suspended; `begin()` makes an operation current. `handle[o]` is
what became of the handle operation `o` opened (open, closed by the viewer, lost with its agent).
`shown`, `session`, `gates`, `consent` and `liveRecording` are tied to the handle they came from.
`Refresh`/`RefreshTimer`/`Refreshed` is the debounced inspection; `Update`/`Updated` a live update;
`StartRecording`, `StopRecording`, `Saved`, `Reload` the recording and its reload.

### LiveIngest, TimeIndex, Sifting and LatestWindow (MCLiveIngest, TimeIndexProofs, LiveIngestProofs)
`ResetSession`, `RegisterChannel`, `Ingest` and `Ask` are the buffer's three operations and the engine's
queries, with insertion and trimming as in the code and the bisections of `TimeIndex`; a message is its time and, as identity,
its rank of arrival. `LatestWindow` is the promise: each topic shows the `Limit` latest messages of those
received since the session began, later arrivals being later at equal times. `HoldsTheLatest` is the
refinement, the window being the set of the store's messages. The bisections are functions that recur over
the pair of bounds, and `Sifting` defines the filter, by recursion too, of which the library's `SelectSeq`
says nothing to the prover;
`MCLiveIngest` also compares each with its definition by quantifiers over all sorted windows of up to five
entries.

### AgentStream (MCAgentStream, AgentStreamProofs)
The topic scan (`ScanStarts`, `Subscribe`, `Announce`, `ScanEnds`) on the ROS thread, the queue `jobs` of
what it handed to the loop, `Broadcast` and `EmitStatus` on the loop, and each viewer's handshake, one
action per send. `missed[v]` are the channels broadcast while the viewer's handshake was past its list
and before it joined: the window of finding 4. A scan that raises leaves its thread `dead`.

### SeriesMath, PlotCanvas and TimeSeries (MCTimeSeries, TimeSeriesProofs)
`SeriesMath` are pure functions: downsampling by buckets, the derived channels (moving average,
derivative, integral, absolute value, scaling, a binary operation over aligned samples), alignment of
columns, CSV rows, the value under the cursor. `PlotCanvas` is the arithmetic of the time axis: drags,
wheel turns and the normalisation of a range. `TimeSeries` is the hook and the column around it. One
action is an event with *all* renders and effects that React runs before the next one: a new session, for
instance, first runs the fetch effects with the old range and selections, then again with those that fit
it (`FetchFirst`, `FetchAgain`). What may lie between two events is the debounce timer (`TimerFires`), the
query in flight (`Answer`, to the open recording's engine, possibly for the window of the one before) and
the queries whose effect was cleaned up (`StaleAnswer`). `url` is the
page's parameter, written after every change; `Reload` starts anew from it.

### TfTree, Recording, SceneModel and FailureRecipes
Pure functions, all reached from `Playback`. `TfTree`: the samples of an edge, lookup, the tree of a
moment, poses in a fixed frame along a chain (a cycle ends it), and reported issues. `Recording`: the
index of an MCAP file, a database or a folder of databases, the sidecar that keeps an index, its
fingerprint and validity, queries over an index, and what the live recorder writes. `SceneModel`: the
mapping of topics to entities by declared metadata or the first rule that fits, filters, and the scene in
the fixed frame. `FailureRecipes`: the three plugins' profiles, views and symptoms, matching, sampled
markers, the banner's lookup, incidents and their explanation.

### Playback (MCPlayback, PlaybackProofs)
Opening a recording and moving through it. `ops` are the session operations of the store, at the await
given by `step`: `Open`, `ReadCache`, `Build`, `Install`, `OpenLoaded`, `Indexed`; each awaited call may
fail where the code handles it, and `Superseded` is what a replaced operation does at its next check.
`armed` and `loads` are the debounced inspection with its request ids, and `loading` the two indicators it sets.
A query may throw in the files of `Corrupt`: MCAP files, which are read on demand, with a part that opening
them with a sidecar need not read, or changed since. An open that meets it reports it; in a refresh nothing
catches it (`RefreshFails`). `Tick` is an animation frame, and
`markers`, `incidents`, `selected`, `explanation` what the explainer's effects make of an index.
Engines never change once built, so `EngineFor`, and `MarkedFor` (the markers its index ends with and
their incidents), are functions of a file and the sidecar it was opened with; `Engines` and `Markings` keep what
they give for the sidecars that may be at hand, so that the steps look up what the algorithms computed.
`ingest` is the store's `ingest` and `session`: besides the engine it keeps the session's bounds, by which the
timeline seeks and plays. Files are well-formed (`WellFormed`): their parts are lists of rows whose stamps are
not negative, as nanoseconds since 1970 are; the channels of a part differ in their ids, and so do the rows of
a rosbag2 database, whose ids have room in a storage id; and a message of an MCAP file has its data.

## 4. Runs

| run | instance | question and result |
|---|---|---|
| `live_client` | 2 kinds, 3 requests, 1 unsolicited message; 523 762 states | Promises settle exactly once and in the end; timers guard their own request; nothing is left after close; a wrong answer needs a timeout first; from the first channel of a session on every change is reported. Holds. |
| `action_goals` | 3 goals, 4 commands; 50 724 states | Handles, acceptances and outcomes stay in order; handlers return. Holds. |
| `action_preempt` | 2 goals, 3 commands | *Violated*, finding 1. |
| `viewer_session` | 3 operations, 3 requests, 1 refresh; 1 944 224 states | No leaks, no stale data, no inherited consent, no load overtakes a request. Holds. |
| `viewer_reload` | 3 operations, no refresh | *Violated*, finding 2. |
| `viewer_stop` | 1 operation | *Violated*, finding 3. |
| `live_ingest` | 2 topics, 1 channel, times {0, 1, 3}, windows of 2, caches of 1, 3 messages, 5 revisions, 2 queries; 191 756 states | Index and store agree, cached answers are current, bounds and counts cover the windows, `LatestWindow` is implemented. Holds. |
| `agent_stream` | 2 topics, 1 viewer, 2 data messages; 486 566 states | What a viewer is sent and in what order; channels arrive. Holds. |
| `agent_new_channels` | 1 topic, 1 viewer, no data | *Violated*, finding 4. |
| `time_series` | 3 recordings, two with their origin and bounds in common, every kind of derived channel, 3 pages, 4 events; 151 524 states | Once all is quiet the panel shows what was asked last; range, scale and window agree; a reload loses nothing; derived channels mean what their kind says. Holds. |
| `time_series_zoom` | the same | *Violated*, finding 5. |
| `playback` | 6 recordings of every format, two with a part that cannot be read, 2 opens, 1 gesture; 145 343 states | Answers are the file's whatever sidecar was used; markers are the open recording's; an explanation fits its incident; only a query that throws or a new open gives up what is asked for, and the display catches up where no query throws. Holds. |

Why the bounds are enough. *live_client*: a mismatched answer needs a request that timed out, its
successor, and one of another kind beside them: three requests of two kinds; one unsolicited message is
enough to interleave with any answer. *action_goals*: the goal that runs, its replacement and one more
after that; the fourth command cancels any of them. *viewer_session*: a source that is installed, one that
replaces it and one that overtakes both, each operation of any kind. *live_ingest*: a window of two
overflows at the third message, which may be earlier than, equal to or later than the others; a cache of
one evicts at the second query; the times leave a gap so that a tie and an unequal distance both occur.
Two topics share the one channel id after it is announced again, and may be swapped (symmetry: no property
of the run distinguishes them and none is a liveness property). *agent_stream*: one topic before and one
during the handshake; viewers do not interact except through the set of clients. *time_series*: four
events open a recording, zoom, change a selection or a recording, and zoom back, with any timer and answer
in between; the wheel reaches below the minimal span and beyond the session; the algebra of the series is
also checked, by assumptions of `MCTimeSeries`, against plain definitions over all series of up to three
points. *playback*: a recording that is replaced while it loads, indexes or explains needs two opens, and
the later one is any file: one that shares its name with an earlier visit's (`run`, `rerun`), one the
recorder wrote with its own sidecar (`live`), a database, a folder whose parts come out of order and one
that lacks a part. Gestures are taken in two recordings only (`Explored`): the store does the same in all.
`Grain`, the spacing of doubles at the size of today's stamps, is 2 instead of 256, and steps, leads and
ages are scaled with it. Every bound is a CONSTANT that appears in a guard. Deadlock is not checked because
each system may really stop: a closed client, a spent bound, a viewer that nobody uses.

**Fairness.** `LiveClient`: timers are the event loop's and fire (weak fairness of the three timer
actions); nothing is assumed of the agent, the network or the user, so `CallsSettle` and `ConnectSettles`
rest on the timeouts alone. `ActionGoals`: the handler's own steps and the timeouts of its spins; nothing
of the server. `AgentStream`: the loop runs what it is handed; a viewer may stall its handshake for ever.
`Playback`: what runs without the user goes on: the refresh timer fires, animation frames come, and reads
of local files and of the browser's database answer or throw (one weak fairness over all of them: the event
loop runs whatever is due); nothing of the user. That a read answers is not assumed, so of a file in `Corrupt`
`InspectionCatchesUp` promises no display: a refresh that throws is not tried again. `OnlyFailuresForget` says
of every file that nothing else loses it. `ViewerSession`, `LiveIngest` and `TimeSeries` state
safety only: an await on a socket or a query need not return.

## 5. Proofs

Each component's proofs rest on one inductive invariant, with a lemma per action, for every value of the
constants, and draws its theorems from it.

* **LiveClientProofs** assumes `ClientAssumption` (some kinds, natural bounds). None of the properties is
  inductive alone. `SlotInv` ties a slot to the one pending request of its kind and says that every later
  request of that kind was refused: it is what lets an answer or a timer find its request, and what makes
  `MismatchNeedsTimeout` inductive (an answer older than the pending request can only be of one that
  timed out). `WireInv` says that a request, then its answer, is on the wire at most once and is gone once
  an answer has been consumed: `AnswersNotShared` needs it. `UpdateInv` couples the coalescing flag to its
  timer, and a change to the flag once a channel is known, and `StartInv` says what holds before `connect()`. Proved: `TypeOK`, `ClosedIsQuiescent`,
  `TimerGuardsItsSlot`, `MismatchNeedsTimeout`, `DirtyIsScheduled`, `SettledForever`, and `AnswersNotShared`, which
  no run checks.
* **ActionGoalsProofs** assumes `GoalsAssumption`. `GoalInv` says that goals not sent yet are unknown to
  everyone, that a handler still sending has not tracked its goal and keeps the place of the handle free,
  and that one that cancels works on the stored handle unless an outcome has taken it. `WireInv` says that
  every tracked goal's acceptance is on the wire or about to be written by the handler, and that only
  tracked goals have an outcome queued; as nothing is broadcast while the handler runs, the order on the
  wire follows. Proved: `TypeOK`, `HandleIsPending`, `AcceptedBeforeOutcome`,
  `SentWhileFree` (no run), `HandleLeavesForAReason`.
* **ViewerSessionProofs** assumes `ViewerAssumption`. The argument is about the operation that is current:
  while it has not installed its handle, the store's handle is not open (so nothing leaks when it is
  replaced), no live session is on display and the gateways are off (so no switch can be turned on for the
  wrong agent), and once it is loading the store's handle is its own (`SourceInv`). An operation that has
  opened nothing is not referred to by the store (`OpInv`). `TransitionInv` strengthens
  `ClosedOnlyInTransition`: it excludes the operation that is loading, whose handle only a finished
  recording closes. All beginnings of an operation are instances of one lemma, `BeginInv`. Proved:
  `TypeOK`, `NoHandleLeaks`, `GatesNeedConsent`, `ClosedOnlyInTransition`, `OwnerInstalls`,
  `DataFromInstalled`, `LoadsYield`: every property of the run and one more.
* **AgentStreamProofs** assumes `StreamAssumption`. `JobsInv` and `QueueInv` describe what waits for the
  loop: the channels announced and not broadcast yet, in order, and data only behind its channel. `ViewerInv`
  says for each step of a handshake what the viewer has been sent: statuses alone, then the session, no data
  before it joins; a client has every channel that was broadcast or missed it. `Order` is the order on the
  wire that the properties state. A second invariant carries `StatusIsRight`: a count may be stale
  when it reaches a client, but then a channel is still on its way, whose status will be newer (`Behind`); a
  stale count in the queue has a channel behind it (`StatusQueue`), and the handshake's last count covers the
  channels it sent (`HandshakeInv`), so that a viewer that joins with a stale one has missed a channel
  (`JoinsRight`). Proved: `TypeOK`, `SessionComesFirst`, `DataFollowsChannel`, `StatusIsRight`.
* **TimeIndexProofs** proves of the recursive helpers what they compute, for sequences of any length.
  That a recursive function exists is taken from the library's theorem on well-founded recursion, over the
  length of a prefix for the filter and over the gap between the two bounds for the bisections; each fact is
  then shown by looking at the least case that would contradict it. Proved: `KeepingSifts` (the wanted items,
  all of them, in order), `PositionIsCut` (where a message is inserted), `NearestFound` (the entry found is
  nearest).
* **LiveIngestProofs** assumes `IngestAssumption` (among others, finitely many topics: the timeline's bounds are
  over all of them). `CoherenceInv` says that neither the caches nor the last
  answer are ahead of the buffer's revision, and that what they hold at it is what a search would find now:
  every change of a window raises the revision (`ChangeIsSeen`), and an eviction only forgets. `WindowInv`
  says that each window is sorted, ties by arrival, and is the latest of what was received for its topic
  (`InsertedIsNewest`: one insertion and one trim keep that), and that bounds and counts cover it. A search of
  a sorted window finds what its definition asks for (`RangeFound`, `NearestFound`), which turns what
  `CoherenceInv` says of searches into what `AnswersAreCurrent` says by quantifiers. Proved: all the
  invariants of the run (`TypeOK`, `IndexMatchesStore`, `AnswersAreCurrent`, `StatsCoverWindows`), the
  refinement `HoldsTheLatest`, and that no cache outgrows its limit.
* **TimeSeriesProofs** assumes `CanvasAssumption`, `SeriesAssumption`, `PageAssumption` and
  `PointsAssumption` (engines answer in the order of the recording and with finite numbers, and a plot may have
  more than two points). `NormalizingSettles` is the
  arithmetic fact: a normalised range is a part of the session, as wide as the minimal span where there is
  room, and is its own normal form. With it `PlotShowsRange` is inductive once the variables have their
  types: no effect hands another range on than the one it was given. `FetchInv` is about the queries, for
  any session, range and selection they were last told of: what is wished for is fetched or waits for the
  timer (`WishInv`), the query in flight is for the window fetched last and the present selection
  (`AskedInv`), and what is shown while none is in flight is what was asked last or the cached overview
  (`ShownInv`). Each effect (`Debounce`, `ShowOverview`, `Ask`) keeps it or, like `Ask`, restores it, so that
  it survives the chain of effects of a new session. `PageInv` is about the page and its url: the url is what
  the page's items are written to, and definitions are numbered in their order, below `nextId` and above the
  channels they use (`Numbered`). What is written reads back (`LinkReadsBack`), so a reload changes nothing and
  numbers on from the largest id; a channel may only be made of what is there, so no definition ever uses a
  later one. `PageAssumption` says of the urls a page is opened with that they are links: the parameter is
  absent, unreadable, or one that a page wrote. `WrittenLinks` shows that what a page writes is such a link;
  of links edited by hand nothing is claimed. `DataInv` says that what is shown was asked of a recording for
  fields that it has. The rest is about the numbers. A moving average is a difference of totals
  (`WindowTotal`), an integral the total of its strips (`SweptArea`), and the two cursors of a binary
  operation stand at the last points up to a time (`CursorHolds`): each lemma `...IsTrue` turns a sweep into
  what `Meaning` says of its points without one. Decimation keeps the lowest and the highest of each bucket
  (`EndsKept`), buckets are in the order of time (`SlotGrows`), so the joined buckets are a series with the ends
  of the window (`BucketsKept`, `DownsampleKeepsEnds`). Definitions are numbered in their order, so a channel
  takes no other's place and a source keeps the value a channel was computed from (`BuiltTo`,
  `ChannelsAreTrue`). Integers stand for doubles here: rounding and overflow are outside of the model. Proved:
  `TypeOK`, `PlotShowsRange`, `SettledShowsCurrent`, `PageSurvivesReload`, `SeriesAreTrue`.

* **PlaybackProofs** assumes `PlaybackAssumption`, `FilesAssumption` (recordings are well-formed),
  `StepAssumption`, `GrainAssumption` and `ShiftAssumption` (the distance of samples, the grain of doubles and
  the room of a storage id are positive). Well-formed means of a part that no two channels share an id and,
  of a database, that no two rows do and that ids have room below the shift, as SQLite's primary keys have (a
  message of an MCAP file has no such id, and always has data); it
  says nothing of the order of rows, nor that a row's channel exists. Its first half is about the algorithms. Whatever engine is sampled, its index consists of markers of the three
  stacks' recipes, and grouping it makes incidents whose first marker is one of them. Incidents are runs
  (`RunsOf`, `IncidentsRunOn`): markers are sorted, so a new one is never earlier than the end of an incident
  there is, and joins or follows the latest of its recipe. Evidence is listed for
  every symptom of every recipe, so the facts shown are those of the marker's symptoms (`FactsMatch`).
  Rounding a stamp keeps the order of stamps (`NumberGrows`), so that a recording built of any readable
  files, with or without a sidecar, does not end before it starts and the playhead stays a time. The second
  half is the invariant. `OpsInv`: an operation past its build has a file that could be opened, and so has
  the store, whose session has bounds in order. `LoadsInv`: at most one load is fresh, and none while the debounce timer runs. `ExplainsInv` is
  what makes `ExplanationFits` inductive: at most one call of the explainer is live, the panel is waiting
  while there is one, and both what that call asks for and what was shown last are of the selected incident
  in the open recording. Each change of the recording, the index or the selection has to restore it, by
  cancelling the live call; a late answer of a cancelled one is then harmless. `AskedInv` is what
  `OnlyFailuresForget` needs: a fresh load of the open recording is for the playhead and the frame of now, since
  whatever changes them supersedes it, and no load is of an operation that has yet to install its recording, so
  that an installation makes no old load current. Proved: `TypeOK`, `ExplanationFits`, `OnlyFailuresForget`
  (`DisplayIsRemembered`), and `MarkersGrouped`: what the explainer lists are always the runs of the markers on
  the timeline.
  The last sections are about the buffer of transforms. After any transforms, in any order, a buffer
  `Reflects` them: one edge for each pair of frames, static if one of its transforms is, its samples sorted,
  and made of exactly the moving transforms where none is static (`BufferedReflects`). The search in a sorted edge
  therefore finds the latest transform by a time (`EdgeAnswers`, `BufferAnswers`), although transforms of one
  time keep the order they came in. A folder's parts are either read into one buffer or each into its own, which
  are then listed and imported. The import loses what a static edge had replaced, but still `Tells` as much:
  nothing that was not there, everything of a pair without a static transform, and a static one of a pair
  that has any (`ListTells`, `MergeTells`), which is enough for the same answers (`AnswerFromMore`). A
  recording that can be opened has only transforms of the form that this needs (`StoredTyped`, `RowTyped`,
  `PartRead`). Hence `LatestIsFound`, for every file, sidecar, pair of different frames and time (a lookup of a
  frame from itself is the origin and asks no buffer), and `TransformsAreLatestAlways` for the recording that
  is open; both are a part of `AnswersAreTrue`.
  So is the index of messages. Registering, adding, sorting and merging, in any order of rows and with rows
  whose channel is unknown, leave for each topic exactly the entries of its readable rows, sorted
  (`IndexOf`, by `PartIndexed`, `OneIndexed`, `PartsIndexed`), so a search finds the time of a row that no
  other is nearer than (`NearestEntry`). From there the two engines differ. A rosbag2 engine takes the payload
  by storage id, which is of one database and one row (`StorageIdSplits`, `PayloadFound`). An MCAP engine reads
  the file again from the rounded stamp to one nanosecond later: what it reads first is a row of that stamp,
  or else of the next one, and then the rounding of both is the same (`NumberOfNear`, `McapFinds`); where
  stamps are inexact it may read none. Hence `NearestIsFound`, for every file, topic and time, of an engine
  that has indexed the file itself.

Only model-checked: the liveness properties (`CallsSettle`, `ConnectSettles`, `HandlerReturns`,
`ChannelsArrive`, `InspectionCatchesUp`: the prover does not reason about fairness) and the rest of two
action properties that compare long computations with their meaning. Of `AnswersAreTrue`, that lookups of
transforms find the latest one and that a message is the nearest of its topic are proved; the composition
along a chain of frames and the same answers with a sidecar stay with TLC. Of `MarkersAreTrue`, that incidents are runs is proved, but
for their counts; that the index has every marker of the samples stays with TLC.

## 6. Findings

1. **A preempted goal's outcome drops its replacement's handle** (`bridge.py:409`): handles are popped by
   the action's name. The running goal can then be neither cancelled nor preempted, although
   `docs/action-gateway.md:36-37` offers both. Run `action_preempt`.
2. **The reload of a finished recording overrides a newer request** (`viewer-store.ts:1117`), against
   `session-operations.ts:1`. Run `viewer_reload`.
3. **A recording is lost when its agent goes away** (`client.ts:294`): the recorder is dropped, and the
   button that still reads Stop & Save saves nothing, against `docs/live-agent.md:42`. Run `viewer_stop`.
4. **A channel found during a handshake never reaches that viewer** (`gateway.py:203`), against
   `agent/README.md:59`. Run `agent_new_channels`.
5. **A zoom out and back in within the debounce shows the overview** (`useTimeSeries.ts:490`): the timer's
   window is compared with the one fetched last and not with what is on screen, which the way out replaced
   by the cached overview (of whichever recording has the same source and bounds); nothing is fetched, against `README.md:160` ("Zooming refetches just the visible
   window at full resolution"). Run `time_series_zoom`.

Two more disagreements that the models show and no run reports:

* **A refresh that throws leaves the loading indicators on** (`viewer-store.ts:1163`): its load is awaited in a
  detached function without a catch, so both flags stay set and the old data stays on display, without a
  message, against `tests/e2e/workflow.spec.mjs:164` ("a corrupt recording clears loading indicators and leaves
  a recoverable error"; the test's recording fails while it is opened).
  `InspectionCatchesUp` leaves such recordings out and `OnlyFailuresForget` allows this loss alone.
* **No banner in a recording that does not start on a sample step** (`index-recipes.ts:122`): the strip of the
  timeline and the banner look up the playhead rounded to a multiple of the step, while markers stand at the
  start plus multiples of it, against `README.md:174` ("The timeline footer shows **all stack recipes** at the
  playhead"). `MarkersAreTrue` promises the banner where the start is on a step.

Behaviour the models show that no text of the repository speaks against, and that no run reports:

* Decimation (`numeric-series.ts`) keeps one sample of a bucket whose lowest and highest value are of one
  time, the lowest: a spike that shares its stamp with another sample can vanish from a downsampled plot.
  `SeriesAreTrue` and `DownsampleKeepsEnds` promise the ends of a window only where no time has two values.
* The cached overview of the plots is named by source, path and bounds; no engine sets a path, and until
  the debounce is over a new recording is queried for the window of the one before. So after opening a
  recording of the same start and end while zoomed, zooming out shows the old one's overview until the
  next answer, and zooming back within the debounce leaves it there. `SettledShowsCurrent` promises the
  open recording's data for what was fetched, not for a cached overview on a zoomed plot.
* The load of an open carries no refresh id: a seek made meanwhile is overwritten by the data of the
  start, and an open that fails forgets the refresh it disarmed. `InspectionCatchesUp` leaves these out.
* Between the installation of a recording and its first data the previous recording's markers stay.
* `recipeIndexLoading` stays set when an index is superseded and the next open fails.
* A session message that is repeated empties the buffer and raises its revision without a notification or a
  scheduled update (`client.ts:159`): until its first channel the viewer goes on with the counts and bounds of
  before. `DirtyIsScheduled` promises an update from that channel on.
* MCAP files are read again around the rounded stamp of an indexed message: one whose own stamp was rounded
  by more than the read's window is not found. `sdk/python/README.md:42-46` tells that stamps of that size lose
  precision; `AnswersAreTrue` asks of a file with rounded stamps only that what is found is nearest as rounded.
* The viewer waits 5 s for an answer; the agent may take longer (5 s for a preempt's cancel and 5 s more
  for the server's reply), so a goal may be accepted after its request was reported as timed out.

## 7. Not modelled, and why

* The viewer's tracking of goals and the command gateways: next in the plan. So are the markers of live
  sessions.
* Byte formats (CDR, MCAP records, SQLite, YAML, Lanelet2, point clouds, images): pure decoding. A payload is
  a value of the model that a schema can decode or not. Files, IndexedDB, `fetch`, WebSockets, rclpy and
  uPlot are external: awaits that may succeed or fail, queues that keep order, callbacks that come at any
  time.
* Geometry beyond what is exact: rotations are half turns, so that composition needs no rounding; the
  three.js objects, the panels' drawing, colours of axes and statistics are left out.
* Doubles: stamps are rounded as doubles are (`Number`), values of series are integers fine enough for the
  divisions made.
* Wording: the status line, the text of an incident's report, messages. The forms of the command bar and
  the showcase only call the store, whose operations may run at any time here.
* The engines' caches of answers: recordings never change. The live engine's caches are in `LiveIngest`.
* The recorder's writes go to an in-memory buffer: a failing write, and the Python recorder, are left out.
* `playbackRate` is set by the store and read by nothing; entity visibility, hover and map settings change
  nothing else.
* The publish and cancel slots of the client have the code shape of the other two; TLC runs two kinds, and
  the proofs hold for any set of them.
