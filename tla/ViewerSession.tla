----------------------------- MODULE ViewerSession -----------------------------
(***************************************************************************)
(* Who owns the viewer: the source operations of the store                 *)
(* (packages/robotscope-viewer/src/store/viewer-store.ts) and              *)
(* SessionOperations (session-operations.ts) that arbitrates them.         *)
(*                                                                         *)
(* Every operation is an asynchronous function over one shared store.  An  *)
(* action below is what runs between two awaits.  begin() makes an         *)
(* operation current and aborts the previous one, which notices at its     *)
(* next check.  Operation n opens at most one handle, handle n.            *)
(*                                                                         *)
(* Of the store, the model keeps what ties it to a handle: ingest, session,*)
(* the source of the data on display, the gateway switches and the REC     *)
(* button.                                                                 *)
(***************************************************************************)
EXTENDS Naturals, FiniteSets

CONSTANTS
  MaxOps,       \* bound: operations begun, by the user or by another one
  MaxRequests,  \* bound: requests of the user for another source
  MaxRefreshes  \* bound: inspections refreshed by the user

ASSUME ViewerAssumption ==
  MaxOps \in Nat /\ MaxRequests \in Nat /\ MaxRefreshes \in Nat

VARIABLES
  begun,      \* operations begun so far; operation n is the n-th
  current,    \* the operation whose controller SessionOperations holds, or None
  kind,       \* what each operation is
  request,    \* the user's request that each operation serves
  pc,         \* the await each operation is suspended at
  handle,     \* what became of the handle each operation opened
  requests,   \* requests made so far
  ingest,     \* store.ingest: the operation that opened it, or None
  session,    \* store.session, likewise
  shown,      \* the handle the displayed scene, transforms and message came from
  failed,     \* the latest operation has failed and said so in the status line
  gates,      \* a command, service or action gateway is switched on
  consent,    \* the live handle the user switched it on for
  recording,  \* the live handles whose recorder is active
  liveRecording, \* store.liveRecording: the button reads "Stop & Save MCAP"
  stop,       \* the stopLiveRecording in progress
  refreshId,  \* refreshRequestId
  timer,      \* the request whose 150 ms refreshTimer is armed, or None
  loads,      \* refreshes that are loading: their request and their snapshot's ingest
  updates,    \* live session updates that are loading: the operation they belong to
  refreshed   \* refreshes made so far

opVars      == <<begun, current, kind, request, pc>>
handleVars  == <<handle, recording>>
switchVars  == <<gates, liveRecording>>
storeVars   == <<ingest, session, shown, switchVars>>
refreshVars == <<refreshId, timer>>
vars == <<opVars, handleVars, requests, storeVars, failed, consent, stop,
          refreshVars, loads, updates, refreshed>>

None  == 0
Ops   == 1 .. MaxOps
Kinds == {"file", "folder", "url", "live", "disconnect", "reload"}

NotStopping == [step |-> "none", from |-> None, request |-> 0]

Init ==
  /\ begun = 0 /\ current = None /\ requests = 0
  /\ kind = [o \in Ops |-> "none"]
  /\ request = [o \in Ops |-> 0]
  /\ pc = [o \in Ops |-> "none"]
  /\ handle = [o \in Ops |-> "none"]
  /\ ingest = None /\ session = None /\ shown = None
  /\ failed = FALSE /\ gates = FALSE /\ consent = None
  /\ recording = {} /\ liveRecording = FALSE /\ stop = NotStopping
  /\ refreshId = 0 /\ timer = None
  /\ loads = {} /\ updates = {} /\ refreshed = 0

-----------------------------------------------------------------------------
(* Beginning an operation.                                                 *)

IsCurrent(o)  == current = o
IsLive(o)     == o # None /\ kind[o] = "live"
Recorded      == {"file", "folder", "reload"}

\* begin() aborts the previous signal, and a live client closes when the signal
\* it was opened with fires, long after the operation that opened it ended.
Aborted == IF IsLive(current) /\ handle[current] = "open" THEN {current} ELSE {}

\* A client that closes drops its recorder.
Closing(hs) ==
  LET open == {o \in hs \ {None} : handle[o] = "open"} IN
  /\ handle' = [o \in Ops |-> IF o \in open THEN "closed" ELSE handle[o]]
  /\ recording' = recording \ open

\* Faulty variant: begin() does not store the controller it made.
ForgetsController(o) == UNCHANGED current

BecomesCurrent(o) == current' = o

\* beginSessionOperation() and the synchronous part of the operation.
Begin(k, r, first, closed) ==
  LET o == begun + 1 IN
  /\ begun < MaxOps
  /\ begun' = o /\ BecomesCurrent(o)
  /\ kind' = [kind EXCEPT ![o] = k]
  /\ request' = [request EXCEPT ![o] = r]
  /\ pc' = [pc EXCEPT ![o] = first]
  /\ Closing(Aborted \cup closed)
  /\ timer' = None /\ refreshId' = refreshId + 1
  /\ UNCHANGED <<consent, loads, updates, refreshed>>

Ask == requests < MaxRequests /\ requests' = requests + 1

OpenFile ==
  /\ Ask
  /\ Begin("file", requests + 1, "closing", {ingest})
  /\ failed' = FALSE
  /\ UNCHANGED <<storeVars, stop>>

\* A folder without metadata.yaml fails at once, before the previous handle closes.
OpenFolder ==
  /\ Ask
  /\ \/ Begin("folder", requests + 1, "reading", {ingest}) /\ failed' = FALSE
     \/ Begin("folder", requests + 1, "done", {}) /\ failed' = TRUE
  /\ UNCHANGED <<storeVars, stop>>

OpenUrl ==
  /\ Ask
  /\ Begin("url", requests + 1, "fetching", {})
  /\ failed' = FALSE
  /\ UNCHANGED <<storeVars, stop>>

\* Faulty variant: the switches of the previous connection stay on.
KeepGates == UNCHANGED gates

CloseGates == gates' = FALSE

\* The command bar offers Connect while the session is not live.
Connect ==
  /\ ~IsLive(session)
  /\ Ask
  /\ Begin("live", requests + 1, "closing", {ingest})
  /\ CloseGates
  /\ failed' = FALSE
  /\ UNCHANGED <<ingest, session, shown, liveRecording, stop>>

Disconnect ==
  /\ Ask
  /\ Begin("disconnect", requests + 1, "closing", {ingest})
  /\ failed' = FALSE
  /\ UNCHANGED <<storeVars, stop>>

Reset ==
  /\ Ask
  /\ Begin("disconnect", requests + 1, "done", {ingest})
  /\ ingest' = None /\ session' = None /\ shown' = None
  /\ gates' = FALSE /\ liveRecording' = FALSE
  /\ failed' = FALSE
  /\ UNCHANGED stop

-----------------------------------------------------------------------------
(* An operation resumes.                                                   *)

Goto(o, l) == pc' = [pc EXCEPT ![o] = l]
ElsewhereUnchanged ==
  UNCHANGED <<begun, current, kind, request, requests, consent, recording, stop,
              refreshVars, loads, updates, refreshed>>

\* The previous handle is closed; an operation that is no longer current stops.
Closed(o) ==
  /\ pc[o] = "closing"
  /\ IF ~IsCurrent(o)
       THEN Goto(o, "done") /\ UNCHANGED storeVars
       ELSE CASE kind[o] = "disconnect" ->
                   /\ Goto(o, "done")
                   /\ ingest' = None /\ session' = None /\ shown' = None
                   /\ liveRecording' = FALSE
                   /\ UNCHANGED gates
              [] kind[o] = "live" -> Goto(o, "opening") /\ UNCHANGED storeVars
              [] OTHER -> Goto(o, "reading") /\ UNCHANGED storeVars
  /\ UNCHANGED <<handle, failed>>
  /\ ElsewhereUnchanged

\* The file, or its sidecar in the cache, has been read.
Read(o) ==
  /\ pc[o] = "reading"
  /\ Goto(o, IF IsCurrent(o) THEN "opening" ELSE "done")
  /\ UNCHANGED <<handle, failed, storeVars>>
  /\ ElsewhereUnchanged

\* Faulty variant: a superseded operation forgets the handle it has opened.
ForgetHandle(o) == Goto(o, "done") /\ handle' = [handle EXCEPT ![o] = "open"]

CloseOwn(o) == Goto(o, "done") /\ handle' = [handle EXCEPT ![o] = "closed"]

\* openMcap, openRosbag2 or openLive has answered with a handle.
Opened(o) ==
  /\ pc[o] = "opening"
  /\ IF IsCurrent(o)
       THEN Goto(o, "opened") /\ handle' = [handle EXCEPT ![o] = "open"]
       ELSE CloseOwn(o)
  /\ UNCHANGED <<failed, storeVars>>
  /\ ElsewhereUnchanged

MayInstall(o) == IsCurrent(o)

\* The sidecar is saved and the session described: the handle is installed.
Install(o) ==
  /\ pc[o] = "opened"
  /\ IF MayInstall(o)
       THEN /\ ingest' = o /\ session' = o
            /\ gates' = (gates /\ kind[o] = "live")
            /\ liveRecording' = FALSE
            /\ Goto(o, "loading")
            /\ UNCHANGED <<handle, shown>>
       ELSE CloseOwn(o) /\ UNCHANGED storeVars
  /\ UNCHANGED failed
  /\ ElsewhereUnchanged

Loaded(o) ==
  /\ pc[o] = "loading"
  /\ shown' = IF IsCurrent(o) THEN o ELSE shown
  /\ Goto(o, "done")
  /\ UNCHANGED <<handle, failed, ingest, session, switchVars>>
  /\ ElsewhereUnchanged

\* Faulty variant: a failure is swallowed.
FailSilently(o) == UNCHANGED failed

\* Only a current operation reports its failure.
ReportFailure(o) == failed' = (failed \/ IsCurrent(o))

\* The catch clause.
Fail(o) ==
  /\ pc[o] \in {"reading", "opening", "loading", "fetching"}
  /\ Goto(o, "done")
  /\ ReportFailure(o)
  /\ UNCHANGED <<handle, storeVars>>
  /\ ElsewhereUnchanged

\* Faulty variant: a download that was superseded is opened all the same.
OpensAnyway(o) == TRUE

MayOpen(o) == IsCurrent(o)

\* The download has come: openMcapUrl goes on as openMcapFile.
Fetched(o) ==
  /\ pc[o] = "fetching"
  /\ IF MayOpen(o)
       THEN /\ begun < MaxOps
            /\ begun' = begun + 1 /\ BecomesCurrent(begun + 1)
            /\ kind' = [kind EXCEPT ![begun + 1] = "file"]
            /\ request' = [request EXCEPT ![begun + 1] = request[o]]
            /\ pc' = [pc EXCEPT ![o] = "done", ![begun + 1] = "closing"]
            /\ Closing(Aborted \cup {ingest})
            /\ timer' = None /\ refreshId' = refreshId + 1
       ELSE /\ Goto(o, "done")
            /\ UNCHANGED <<begun, current, kind, request, handleVars, refreshVars>>
  /\ UNCHANGED <<requests, storeVars, failed, consent, stop, loads, updates,
                 refreshed>>

-----------------------------------------------------------------------------
(* Recording, and the agent going away.                                    *)

\* The agent ends the connection: the client tears itself down, and no one
\* tells the store but for the connection's indicator.
AgentLeaves(o) ==
  /\ IsLive(o) /\ handle[o] = "open"
  /\ handle' = [handle EXCEPT ![o] = "lost"]
  /\ recording' = recording \ {o}
  /\ UNCHANGED <<opVars, requests, storeVars, failed, consent, stop,
                 refreshVars, loads, updates, refreshed>>

\* The command bar shows the button while the session is live.  The new
\* recorder is in place before another event is handled.
StartRecording ==
  /\ IsLive(session) /\ IsLive(ingest) /\ ~liveRecording
  /\ recording' = recording \cup {ingest}
  /\ liveRecording' = TRUE
  /\ UNCHANGED <<opVars, handle, requests, ingest, session, shown, gates, failed,
                 consent, stop, refreshVars, loads, updates, refreshed>>

\* The recorder finishes and the download is offered, one stop at a time; with no
\* recorder the button only springs back.
StopRecording ==
  /\ IsLive(session) /\ liveRecording
  /\ IF ingest \in recording
       THEN /\ stop = NotStopping
            /\ Ask
            /\ recording' = recording \ {ingest}
            /\ stop' = [step |-> "saving", from |-> ingest, request |-> requests + 1]
            /\ UNCHANGED liveRecording
       ELSE liveRecording' = FALSE /\ UNCHANGED <<recording, requests, stop>>
  /\ UNCHANGED <<opVars, handle, ingest, session, shown, gates, failed, consent,
                 refreshVars, loads, updates, refreshed>>

\* It ends here when saving fails or another handle is in the store; another
\* operation that is current does not stop it.
Saved ==
  /\ stop.step = "saving"
  /\ \/ stop' = NotStopping /\ liveRecording' = FALSE /\ UNCHANGED handleVars
     \/ /\ ingest # stop.from
        /\ stop' = NotStopping
        /\ UNCHANGED <<handleVars, liveRecording>>
     \/ /\ ingest = stop.from
        /\ stop' = [stop EXCEPT !.step = "caching"]
        /\ liveRecording' = FALSE
        /\ Closing({ingest})
  /\ UNCHANGED <<opVars, requests, ingest, session, shown, gates, failed, consent,
                 refreshVars, loads, updates, refreshed>>

\* The sidecar is cached: the recording is opened.
Reload ==
  /\ stop.step = "caching"
  /\ Begin("reload", stop.request, "closing", {ingest})
  /\ stop' = NotStopping
  /\ failed' = FALSE
  /\ UNCHANGED <<requests, storeVars>>

-----------------------------------------------------------------------------
(* What else writes the store: switches, refreshes and live updates.       *)

\* The command bar shows the switches while the session is live.
SwitchOn ==
  /\ IsLive(session)
  /\ gates' = TRUE /\ consent' = session
  /\ UNCHANGED <<opVars, handleVars, requests, ingest, session, shown,
                 liveRecording, failed, stop, refreshVars, loads, updates,
                 refreshed>>

SwitchOff ==
  /\ gates /\ IsLive(session)
  /\ CloseGates
  /\ UNCHANGED <<opVars, handleVars, requests, ingest, session, shown,
                 liveRecording, failed, consent, stop, refreshVars, loads,
                 updates, refreshed>>

Refresh ==
  /\ ingest # None /\ refreshed < MaxRefreshes
  /\ refreshed' = refreshed + 1
  /\ refreshId' = refreshId + 1 /\ timer' = refreshId + 1
  /\ UNCHANGED <<opVars, handleVars, requests, storeVars, failed, consent, stop,
                 loads, updates>>

RefreshTimer ==
  /\ timer # None
  /\ timer' = None
  /\ loads' = loads \cup {[id |-> timer, from |-> ingest]}
  /\ UNCHANGED <<opVars, handleVars, requests, storeVars, failed, consent, stop,
                 refreshId, updates, refreshed>>

\* Faulty variant: only the request is compared, not the snapshot's handle.
LatestRefresh(l) == l.id = refreshId

FreshLoad(l) == l.id = refreshId /\ l.from = ingest

Refreshed(l) ==
  /\ loads' = loads \ {l}
  /\ shown' = IF FreshLoad(l) THEN l.from ELSE shown
  /\ UNCHANGED <<opVars, handleVars, requests, ingest, session, switchVars,
                 failed, consent, stop, refreshVars, updates, refreshed>>

\* onSessionUpdate, up to its last await.
Update(o) ==
  /\ IsLive(o) /\ handle[o] = "open"
  /\ IsCurrent(o) /\ ingest = o
  /\ updates' = updates \cup {o}
  /\ session' = o
  /\ UNCHANGED <<opVars, handleVars, requests, ingest, shown, switchVars,
                 failed, consent, stop, refreshVars, loads, refreshed>>

Updated(o) ==
  /\ o \in updates
  /\ updates' = updates \ {o}
  /\ shown' = IF IsCurrent(o) /\ ingest = o THEN o ELSE shown
  /\ UNCHANGED <<opVars, handleVars, requests, ingest, session, switchVars,
                 failed, consent, stop, refreshVars, loads, refreshed>>

-----------------------------------------------------------------------------
Next ==
  \/ OpenFile \/ OpenFolder \/ OpenUrl \/ Connect \/ Disconnect \/ Reset
  \/ \E o \in Ops : Closed(o) \/ Read(o) \/ Opened(o) \/ Install(o) \/ Loaded(o)
                    \/ Fail(o) \/ Fetched(o) \/ Update(o) \/ Updated(o)
                    \/ AgentLeaves(o)
  \/ StartRecording \/ StopRecording \/ Saved \/ Reload
  \/ SwitchOn \/ SwitchOff
  \/ Refresh \/ RefreshTimer \/ \E l \in loads : Refreshed(l)

Spec == Init /\ [][Next]_vars

-----------------------------------------------------------------------------
(* Properties.                                                             *)

Points == {"none", "closing", "reading", "opening", "opened", "loading", "fetching", "done"}

\* The types of the variables.
TypeOK ==
  /\ begun \in 0 .. MaxOps /\ current = begun
  /\ requests \in 0 .. MaxRequests /\ refreshed \in 0 .. MaxRefreshes
  /\ kind \in [Ops -> Kinds \cup {"none"}]
  /\ request \in [Ops -> 0 .. MaxRequests]
  /\ pc \in [Ops -> Points]
  /\ handle \in [Ops -> {"none", "open", "closed", "lost"}]
  /\ {ingest, session, shown, consent} \subseteq {None} \cup 1 .. begun
  /\ failed \in BOOLEAN /\ gates \in BOOLEAN /\ liveRecording \in BOOLEAN
  /\ recording \subseteq Ops /\ updates \subseteq Ops
  /\ stop \in [step : {"none", "saving", "caching"}, from : {None} \cup Ops,
               request : 0 .. MaxRequests]
  /\ refreshId \in 0 .. MaxOps + MaxRefreshes
  /\ timer \in 0 .. refreshId
  /\ loads \subseteq [id : 0 .. refreshId, from : {None} \cup Ops]

Busy(o) == pc[o] \notin {"none", "done"}

\* No handle is forgotten: one that is open is the store's, or its operation
\* has still to install or close it.
NoHandleLeaks ==
  \A o \in Ops : handle[o] = "open" => ingest = o \/ pc[o] = "opened"

\* The store keeps a handle that the viewer itself closed only while the next
\* source is on its way, or after its failure was reported.
ClosedOnlyInTransition ==
  ingest # None /\ handle[ingest] = "closed" =>
    failed \/ stop.step = "caching" \/ (current # None /\ Busy(current))

\* A gateway is on for a live agent only if the user switched it on for that
\* agent: no consent is carried over to another connection.
GatesNeedConsent == gates /\ IsLive(ingest) => consent = ingest

\* Only the operation that owns the viewer changes its source.
OwnerInstalls == [][ingest' # ingest => ingest' \in {None, current'}]_vars

\* What is displayed is replaced only by what the installed handle gave.
DataFromInstalled == [][shown' # shown => shown' \in {None, ingest'}]_vars

\* A load never takes the viewer from a source the user asked for later.
LoadsYield ==
  [][current' # current /\ current # None /\ kind'[current'] # "reload" =>
       request'[current'] >= request[current]]_vars

\* session-operations.ts: "A newer source request owns the viewer; older async
\* work must stop updating it."  The same of every operation, the reload of a
\* finished recording included.
NewestRequestOwns ==
  [][current' # current /\ current # None =>
       request'[current'] >= request[current]]_vars

\* docs/live-agent.md: "Stop & Save MCAP - downloads MCAP + sidecar JSON and
\* reloads playback".  While the source stays, the button springs back only
\* after saving.
StopSaves ==
  [][liveRecording /\ ~liveRecording' /\ ingest' = ingest => stop.step = "saving"]_vars
=============================================================================
