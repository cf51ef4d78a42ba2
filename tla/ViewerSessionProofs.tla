-------------------------- MODULE ViewerSessionProofs --------------------------
(***************************************************************************)
(* Proofs of the safety properties of ViewerSession, for every number of   *)
(* operations, requests and refreshes.                                     *)
(*                                                                         *)
(* The argument is about the operation that is current.  While it has not  *)
(* installed its handle, the store's handle is not open and no live        *)
(* session is on display, so nothing is lost when it installs and no       *)
(* switch can be turned on meanwhile; an operation that is not current     *)
(* writes nothing but its own handle.                                      *)
(***************************************************************************)
EXTENDS ViewerSession, TLAPS

\* Where an operation that will open a handle has not installed it.
Early == {"closing", "reading", "opening", "opened"}

\* Operations are numbered as they begin; before it has opened a handle an
\* operation has none and the store cannot refer to it.
OpInv ==
  /\ \A o \in Ops : pc[o] = "none" <=> o > begun
  /\ \A o \in Ops : pc[o] \in {"none", "closing", "reading", "opening", "fetching"} =>
       handle[o] = "none" /\ ingest # o
  /\ \A o \in Ops : pc[o] = "opened" => ingest # o
  /\ \A o \in Ops : request[o] <= requests
  /\ stop.request <= requests
  /\ refreshId = begun + refreshed

\* What the current operation may rely on.
SourceInv ==
  /\ session = ingest
  /\ current # None =>
       /\ pc[current] \in Early /\ ingest # None => handle[ingest] # "open"
       /\ pc[current] = "opened" => handle[current] # "closed"
       /\ pc[current] = "loading" => ingest = current
       /\ kind[current] = "live" /\ pc[current] \in Early =>
            ~gates /\ ~IsLive(ingest)

\* ClosedOnlyInTransition, but for an operation that is loading: that one has
\* installed a handle which only a finished recording closes.
TransitionInv ==
  ingest # None /\ handle[ingest] = "closed" =>
    \/ failed \/ stop.step = "caching"
    \/ current # None /\ pc[current] \in Early \cup {"fetching"}

IInv == TypeOK /\ OpInv /\ SourceInv /\ NoHandleLeaks /\ GatesNeedConsent /\ TransitionInv

-----------------------------------------------------------------------------
(* Beginning an operation.                                                 *)

\* Closing handles only turns open ones into closed ones, and leaves none of
\* those it was asked to close open.
LEMMA ClosingCloses ==
  ASSUME TypeOK, NEW hs \in SUBSET ({None} \cup Ops), Closing(hs)
  PROVE  /\ handle' \in [Ops -> {"none", "open", "closed", "lost"}]
         /\ recording' \subseteq Ops
         /\ \A o \in Ops : \/ handle'[o] = handle[o]
                           \/ o \in hs /\ handle[o] = "open" /\ handle'[o] = "closed"
         /\ \A o \in Ops : o \in hs => handle'[o] # "open"
<1> DEFINE open == {o \in hs \ {None} : handle[o] = "open"}
<1>1. handle' = [o \in Ops |-> IF o \in open THEN "closed" ELSE handle[o]]
  BY DEF Closing
<1>2. recording' = recording \ open
  BY DEF Closing
<1>3. \A o \in Ops : o \in hs /\ handle[o] = "open" <=> o \in open
  BY ViewerAssumption DEF Ops, None
<1> HIDE DEF open
<1> QED BY <1>1, <1>2, <1>3 DEF TypeOK

\* What the operations have in common when they begin: the new operation's
\* entries and the handles it closes; a download that goes on as a file is done.
Starts(k, first, closed) ==
  LET o == begun + 1 IN
  /\ begun < MaxOps /\ begun' = o /\ current' = o
  /\ kind' = [kind EXCEPT ![o] = k]
  /\ request' = [request EXCEPT ![o] = request'[o]]
  /\ request'[o] \in 0 .. requests'
  /\ pc' \in [Ops -> Points] /\ pc'[o] = first
  /\ \A q \in Ops : q # o =>
       pc'[q] = pc[q] \/ (pc[q] = "fetching" /\ pc'[q] = "done")
  /\ Closing(Aborted \cup closed)
  /\ timer' = None /\ refreshId' = refreshId + 1
  /\ UNCHANGED <<consent, loads, updates, refreshed>>

\* The same with the store it leaves.
Begins(k, first, closed) ==
  /\ Starts(k, first, closed)
  /\ requests' \in requests .. MaxRequests /\ stop' \in {stop, NotStopping}
  /\ ingest' \in {None, ingest} /\ session' = ingest' /\ shown' \in {None, shown}
  /\ failed' \in BOOLEAN /\ gates' \in BOOLEAN /\ liveRecording' \in BOOLEAN
  /\ gates' => gates
  /\ first \in Early => closed = {ingest}
  /\ ingest' # ingest => closed = {ingest}
  /\ first = "done" /\ ingest' # None => failed'
  /\ stop' = stop \/ first # "done"  \/ ingest' = None
  /\ k = "live" => ~gates' /\ ~IsLive(ingest)

\* A new operation is current and owns nothing yet; the store's handle is
\* closed unless a download or a failure comes first.
LEMMA BeginInv ==
  ASSUME IInv, NEW k \in Kinds,
         NEW first \in {"closing", "reading", "fetching", "done"},
         NEW closed \in {{}, {ingest}}, Begins(k, first, closed)
  PROVE  IInv'
<1> DEFINE n == begun + 1
<1>1. n \in Ops /\ n # None /\ ingest # n /\ pc[n] = "none" /\ handle[n] = "none"
  BY ViewerAssumption DEF IInv, TypeOK, OpInv, Begins, Starts, Ops, None
<1>2. Aborted \cup closed \in SUBSET ({None} \cup Ops)
  BY ViewerAssumption DEF IInv, TypeOK, Aborted, Ops, IsLive, None
<1>3. /\ handle' \in [Ops -> {"none", "open", "closed", "lost"}]
      /\ recording' \subseteq Ops
      /\ \A o \in Ops : \/ handle'[o] = handle[o]
                        \/ /\ o \in Aborted \cup closed
                           /\ handle[o] = "open" /\ handle'[o] = "closed"
      /\ \A o \in Ops : o \in Aborted \cup closed => handle'[o] # "open"
  BY <1>2, ClosingCloses DEF IInv, Begins, Starts
<1>4. TypeOK'
  <2>1. kind' \in [Ops -> Kinds \cup {"none"}] /\ request' \in [Ops -> 0 .. MaxRequests]
    <3>1. kind' \in [Ops -> Kinds \cup {"none"}]
      BY <1>1 DEF IInv, TypeOK, Begins, Starts
    <3>2. request' \in [Ops -> 0 .. MaxRequests]
      BY <1>1, ViewerAssumption DEF IInv, TypeOK, Begins, Starts
    <3> QED BY <3>1, <3>2
  <2>2. /\ begun' \in 0 .. MaxOps /\ current' = begun'
        /\ {ingest', session', shown', consent'} \subseteq {None} \cup 1 .. begun'
        /\ refreshId' \in 0 .. MaxOps + MaxRefreshes
    BY ViewerAssumption DEF IInv, TypeOK, OpInv, Begins, Starts, None
  <2>3. /\ timer' \in 0 .. refreshId'
        /\ loads' \subseteq [id : 0 .. refreshId', from : {None} \cup Ops]
    BY ViewerAssumption DEF IInv, TypeOK, Begins, Starts, None
  <2>4. stop' \in [step : {"none", "saving", "caching"}, from : {None} \cup Ops,
                   request : 0 .. MaxRequests]
    BY ViewerAssumption DEF IInv, TypeOK, Begins, Starts, NotStopping
  <2> QED BY <1>3, <2>1, <2>2, <2>3, <2>4, ViewerAssumption DEF IInv, TypeOK, Begins, Starts
<1>5. OpInv'
  <2>1. \A o \in Ops : pc'[o] = "none" <=> o > begun'
    BY <1>1, ViewerAssumption DEF IInv, TypeOK, OpInv, Begins, Starts, Ops
  <2>2. \A o \in Ops : pc'[o] \in {"none", "closing", "reading", "opening", "fetching"} =>
          handle'[o] = "none" /\ ingest' # o
    BY <1>1, <1>3 DEF IInv, OpInv, Begins, Starts, None, Ops
  <2>3. \A o \in Ops : pc'[o] = "opened" => ingest' # o
    BY <1>1 DEF IInv, OpInv, Begins, Starts, None, Ops
  <2>4. \A o \in Ops : request'[o] <= requests'
    BY <1>1, <1>4, ViewerAssumption DEF IInv, TypeOK, OpInv, Begins, Starts
  <2>5. stop'.request <= requests'
    BY <1>4, ViewerAssumption DEF IInv, TypeOK, OpInv, Begins, Starts, NotStopping
  <2> QED BY <2>1, <2>2, <2>3, <2>4, <2>5 DEF IInv, TypeOK, OpInv, Begins, Starts
<1>6. ingest' # None => IsLive(ingest)' = IsLive(ingest)
  BY <1>1 DEF IInv, TypeOK, Begins, Starts, IsLive, Ops
<1>7. SourceInv'
  <2>1. first \in Early /\ ingest' # None => handle'[ingest'] # "open"
    BY <1>3, ViewerAssumption DEF IInv, TypeOK, Begins, Starts, Ops
  <2>2. k = "live" => ~gates' /\ ~IsLive(ingest)'
    BY <1>6 DEF Begins, Starts, IsLive, None
  <2> QED BY <1>1, <2>1, <2>2 DEF IInv, TypeOK, SourceInv, Begins, Starts, Early
<1>8. NoHandleLeaks'
  <2> SUFFICES ASSUME NEW o \in Ops, handle'[o] = "open"
               PROVE  ingest' = o \/ pc'[o] = "opened"
    BY DEF NoHandleLeaks
  <2>1. handle[o] = "open" /\ o # n
    BY <1>1, <1>3
  <2>2. CASE pc[o] = "opened"
    BY <2>1, <2>2 DEF Begins, Starts
  <2>3. CASE ingest = o
    BY <1>3, <2>1, <2>3 DEF Begins, Starts
  <2> QED BY <2>1, <2>2, <2>3 DEF IInv, NoHandleLeaks
<1>9. GatesNeedConsent'
  BY <1>6 DEF IInv, GatesNeedConsent, Begins, Starts, IsLive, None
<1>10. TransitionInv'
  BY <1>1 DEF IInv, TransitionInv, Begins, Starts, Early
<1> QED BY <1>4, <1>5, <1>7, <1>8, <1>9, <1>10 DEF IInv


\* Begin is an instance: the request it records has been made.
LEMMA BeginStarts ==
  ASSUME IInv, NEW k \in Kinds, NEW r \in 0 .. requests',
         NEW first \in Points, NEW closed, Begin(k, r, first, closed)
  PROVE  Starts(k, first, closed)
<1>1. begun + 1 \in Ops
  BY ViewerAssumption DEF IInv, TypeOK, Ops, Begin
<1>2. request' = [request EXCEPT ![begun + 1] = request'[begun + 1]]
      /\ request'[begun + 1] \in 0 .. requests'
  BY <1>1 DEF IInv, TypeOK, Begin
<1>3. /\ pc' \in [Ops -> Points] /\ pc'[begun + 1] = first
      /\ \A q \in Ops : q # begun + 1 => pc'[q] = pc[q]
  BY <1>1 DEF IInv, TypeOK, Begin
<1>4. /\ begun < MaxOps /\ begun' = begun + 1 /\ current' = begun + 1
      /\ kind' = [kind EXCEPT ![begun + 1] = k]
      /\ Closing(Aborted \cup closed)
      /\ timer' = None /\ refreshId' = refreshId + 1
      /\ UNCHANGED <<consent, loads, updates, refreshed>>
  BY DEF Begin, BecomesCurrent
<1> QED BY <1>2, <1>3, <1>4 DEF Starts

\* Opening a file: the previous handle closes.
LEMMA OpenFileInv == ASSUME IInv, OpenFile PROVE IInv'
<1>1. requests' \in requests .. MaxRequests /\ requests + 1 \in 0 .. requests'
  BY ViewerAssumption DEF IInv, TypeOK, OpenFile, Ask
<1>2. Starts("file", "closing", {ingest})
  BY <1>1, BeginStarts DEF OpenFile, Kinds, Points
<1>3. Begins("file", "closing", {ingest})
  BY <1>1, <1>2 DEF OpenFile, IInv, TypeOK, SourceInv, Begins, storeVars, switchVars, Early
<1> QED BY <1>3, BeginInv DEF Kinds

\* Opening a folder: without its metadata it fails before anything closes.
LEMMA OpenFolderInv == ASSUME IInv, OpenFolder PROVE IInv'
<1>1. requests' \in requests .. MaxRequests /\ requests + 1 \in 0 .. requests'
  BY ViewerAssumption DEF IInv, TypeOK, OpenFolder, Ask
<1>2. CASE Begin("folder", requests + 1, "reading", {ingest}) /\ failed' = FALSE
  <2>1. Starts("folder", "reading", {ingest})
    BY <1>1, <1>2, BeginStarts DEF Kinds, Points
  <2>2. Begins("folder", "reading", {ingest})
    BY <1>1, <1>2, <2>1 DEF OpenFolder, IInv, TypeOK, SourceInv, Begins, storeVars,
       switchVars, Early
  <2> QED BY <2>2, BeginInv DEF Kinds
<1>3. CASE Begin("folder", requests + 1, "done", {}) /\ failed' = TRUE
  <2>1. Starts("folder", "done", {})
    BY <1>1, <1>3, BeginStarts DEF Kinds, Points
  <2>2. Begins("folder", "done", {})
    BY <1>1, <1>3, <2>1 DEF OpenFolder, IInv, TypeOK, SourceInv, Begins, storeVars,
       switchVars, Early
  <2> QED BY <2>2, BeginInv DEF Kinds
<1> QED BY <1>2, <1>3 DEF OpenFolder

\* Opening a URL: nothing closes but an aborted live handle.
LEMMA OpenUrlInv == ASSUME IInv, OpenUrl PROVE IInv'
<1>1. requests' \in requests .. MaxRequests /\ requests + 1 \in 0 .. requests'
  BY ViewerAssumption DEF IInv, TypeOK, OpenUrl, Ask
<1>2. Starts("url", "fetching", {})
  BY <1>1, BeginStarts DEF OpenUrl, Kinds, Points
<1>3. Begins("url", "fetching", {})
  BY <1>1, <1>2 DEF OpenUrl, IInv, TypeOK, SourceInv, Begins, storeVars, switchVars, Early
<1> QED BY <1>3, BeginInv DEF Kinds

\* Connecting: the switches go off, and the session on display is not live.
LEMMA ConnectInv == ASSUME IInv, Connect PROVE IInv'
<1>1. requests' \in requests .. MaxRequests /\ requests + 1 \in 0 .. requests'
  BY ViewerAssumption DEF IInv, TypeOK, Connect, Ask
<1>2. Starts("live", "closing", {ingest})
  BY <1>1, BeginStarts DEF Connect, Kinds, Points
<1>3. Begins("live", "closing", {ingest})
  BY <1>1, <1>2 DEF Connect, CloseGates, IInv, TypeOK, SourceInv, Begins, Early
<1> QED BY <1>3, BeginInv DEF Kinds

\* Disconnecting.
LEMMA DisconnectInv == ASSUME IInv, Disconnect PROVE IInv'
<1>1. requests' \in requests .. MaxRequests /\ requests + 1 \in 0 .. requests'
  BY ViewerAssumption DEF IInv, TypeOK, Disconnect, Ask
<1>2. Starts("disconnect", "closing", {ingest})
  BY <1>1, BeginStarts DEF Disconnect, Kinds, Points
<1>3. Begins("disconnect", "closing", {ingest})
  BY <1>1, <1>2 DEF Disconnect, IInv, TypeOK, SourceInv, Begins, storeVars, switchVars, Early
<1> QED BY <1>3, BeginInv DEF Kinds

\* Resetting: the store is emptied at once.
LEMMA ResetInv == ASSUME IInv, Reset PROVE IInv'
<1>1. requests' \in requests .. MaxRequests /\ requests + 1 \in 0 .. requests'
  BY ViewerAssumption DEF IInv, TypeOK, Reset, Ask
<1>2. Starts("disconnect", "done", {ingest})
  BY <1>1, BeginStarts DEF Reset, Kinds, Points
<1>3. Begins("disconnect", "done", {ingest})
  BY <1>1, <1>2 DEF Reset, IInv, TypeOK, SourceInv, Begins, Early
<1> QED BY <1>3, BeginInv DEF Kinds

\* Reloading a finished recording.
LEMMA ReloadInv == ASSUME IInv, Reload PROVE IInv'
<1>1. /\ requests' = requests /\ stop.request \in 0 .. requests'
      /\ requests' \in requests .. MaxRequests
  BY ViewerAssumption DEF IInv, TypeOK, OpInv, Reload
<1>2. Starts("reload", "closing", {ingest})
  BY <1>1, BeginStarts DEF Reload, Kinds, Points
<1>3. Begins("reload", "closing", {ingest})
  BY <1>1, <1>2 DEF Reload, IInv, TypeOK, SourceInv, Begins, storeVars, switchVars, Early
<1> QED BY <1>3, BeginInv DEF Kinds

-----------------------------------------------------------------------------
(* The other steps.                                                        *)

\* A step that leaves the operations, the handles and the source alone.
LEMMA QuietInv ==
  ASSUME IInv, TypeOK', UNCHANGED <<opVars, handle, ingest, session, requests, failed>>,
         gates' => (gates /\ consent' = consent) \/ (IsLive(ingest) /\ consent' = ingest),
         stop.step = "caching" => stop'.step = "caching",
         stop'.request <= requests, refreshId' = begun + refreshed'
  PROVE  IInv'
<1> USE DEF opVars
<1>1. OpInv'
  BY DEF IInv, OpInv
<1>2. SourceInv'
  BY DEF IInv, SourceInv, IsLive
<1>3. NoHandleLeaks'
  BY DEF IInv, NoHandleLeaks
<1>4. GatesNeedConsent'
  BY DEF IInv, GatesNeedConsent, IsLive
<1>5. TransitionInv'
  BY DEF IInv, TransitionInv
<1> QED BY <1>1, <1>2, <1>3, <1>4, <1>5 DEF IInv

\* What an operation leaves alone when it resumes and changes no store.
RestUnchanged ==
  UNCHANGED <<begun, current, kind, request, requests, recording, storeVars, consent,
              stop, refreshVars, loads, updates, refreshed>>

\* An operation that is not current ends, and closes the handle it has opened.
LEMMA SupersededInv ==
  ASSUME IInv, NEW o \in Ops, o # current, pc[o] # "none", Goto(o, "done"),
         \/ handle' = handle /\ pc[o] # "opened"
         \/ handle' = [handle EXCEPT ![o] = "closed"] /\ pc[o] \in {"opening", "opened"},
         failed' = failed, RestUnchanged
  PROVE  IInv'
<1> USE DEF RestUnchanged, Goto, storeVars, switchVars, refreshVars
<1>1. TypeOK'
  BY DEF IInv, TypeOK, Points
<1>2. OpInv'
  BY DEF IInv, TypeOK, OpInv
<1>3. /\ \A q \in Ops : q # o => pc'[q] = pc[q] /\ handle'[q] = handle[q]
      /\ \A q \in Ops : handle'[q] = "open" => handle[q] = "open"
      /\ ingest # None => ingest \in Ops
      /\ current # None => current \in Ops
  BY ViewerAssumption DEF IInv, TypeOK, Ops, None
<1>4. SourceInv'
  BY <1>3 DEF IInv, SourceInv, IsLive
<1>5. NoHandleLeaks' /\ GatesNeedConsent'
  BY DEF IInv, TypeOK, NoHandleLeaks, GatesNeedConsent, IsLive
<1>6. TransitionInv'
  BY <1>3 DEF IInv, OpInv, TransitionInv
<1> QED BY <1>1, <1>2, <1>4, <1>5, <1>6 DEF IInv

\* The current operation goes on from one await to the next.
LEMMA GoesOnInv ==
  ASSUME IInv, NEW o \in Ops, o = current, pc[o] \in {"closing", "reading"},
         NEW l \in {"reading", "opening"}, Goto(o, l),
         handle' = handle, failed' = failed, RestUnchanged
  PROVE  IInv'
<1> USE DEF RestUnchanged, Goto, storeVars, switchVars, refreshVars
<1>1. TypeOK'
  BY DEF IInv, TypeOK, Points
<1>2. OpInv'
  BY DEF IInv, TypeOK, OpInv
<1>3. SourceInv'
  BY DEF IInv, TypeOK, SourceInv, IsLive, Early
<1>4. NoHandleLeaks' /\ GatesNeedConsent'
  BY DEF IInv, TypeOK, NoHandleLeaks, GatesNeedConsent, IsLive
<1>5. TransitionInv'
  BY DEF IInv, TypeOK, TransitionInv, Early, Ops, None
<1> QED BY <1>1, <1>2, <1>3, <1>4, <1>5 DEF IInv

\* The download has come: unless it was superseded, its file is opened.
LEMMA FetchedInv == ASSUME IInv, NEW o \in Ops, Fetched(o) PROVE IInv'
<1>1. CASE IsCurrent(o)
  <2>1. begun + 1 \in Ops /\ o # begun + 1 /\ begun < MaxOps
    BY <1>1, ViewerAssumption DEF IInv, TypeOK, Fetched, MayOpen, IsCurrent, Ops
  <2>2. request[o] \in 0 .. requests /\ requests' = requests
        /\ requests \in requests .. MaxRequests
    BY ViewerAssumption DEF IInv, TypeOK, OpInv, Fetched
  <2>3. request' = [request EXCEPT ![begun + 1] = request'[begun + 1]]
        /\ request'[begun + 1] \in 0 .. requests'
    BY <1>1, <2>1, <2>2 DEF IInv, TypeOK, Fetched, MayOpen
  <2>4. /\ pc' \in [Ops -> Points] /\ pc'[begun + 1] = "closing"
        /\ \A q \in Ops : q # begun + 1 =>
             pc'[q] = pc[q] \/ (pc[q] = "fetching" /\ pc'[q] = "done")
    <3>1. pc' = [pc EXCEPT ![o] = "done", ![begun + 1] = "closing"] /\ pc[o] = "fetching"
      BY <1>1 DEF Fetched, MayOpen
    <3>2. pc \in [Ops -> Points]
      BY DEF IInv, TypeOK
    <3> QED BY <2>1, <3>1, <3>2 DEF Points
  <2>5. Starts("file", "closing", {ingest})
    BY <1>1, <2>1, <2>3, <2>4 DEF Starts, Fetched, MayOpen, BecomesCurrent
  <2>6. Begins("file", "closing", {ingest})
    BY <2>2, <2>5 DEF Fetched, IInv, TypeOK, SourceInv, Begins, storeVars,
       switchVars, Early
  <2> QED BY <2>6, BeginInv DEF Kinds
<1>2. CASE ~IsCurrent(o)
  <2>1. pc' = [pc EXCEPT ![o] = "done"] /\ current # o
        /\ UNCHANGED <<begun, current, kind, request, handleVars, refreshVars, requests,
                      storeVars, failed, consent, stop, loads, updates, refreshed>>
    BY <1>2 DEF Fetched, MayOpen, IsCurrent, Goto
  <2>2. pc[o] = "fetching"
    BY DEF Fetched
  <2> QED BY <2>1, <2>2, SupersededInv DEF RestUnchanged, Goto, handleVars
<1> QED BY <1>1, <1>2

\* The previous handle is closed: a disconnect empties the store.
LEMMA ClosedInv == ASSUME IInv, NEW o \in Ops, Closed(o) PROVE IInv'
<1>1. CASE ~IsCurrent(o)
  BY <1>1, SupersededInv DEF Closed, ElsewhereUnchanged, RestUnchanged, IsCurrent
<1>2. CASE IsCurrent(o) /\ kind[o] # "disconnect"
  <2>1. \E l \in {"reading", "opening"} : Goto(o, l) /\ UNCHANGED storeVars
    BY <1>2 DEF Closed
  <2> QED BY <1>2, <2>1, GoesOnInv DEF Closed, ElsewhereUnchanged, RestUnchanged, IsCurrent
<1>3. CASE IsCurrent(o) /\ kind[o] = "disconnect"
  <2>1. /\ pc[o] = "closing" /\ pc' = [pc EXCEPT ![o] = "done"] /\ current = o
        /\ ingest' = None /\ session' = None /\ shown' = None /\ liveRecording' = FALSE
        /\ gates' = gates /\ handle' = handle /\ failed' = failed
    BY <1>3 DEF Closed, Goto, IsCurrent
  <2> USE DEF ElsewhereUnchanged, refreshVars
  <2>2. TypeOK'
    BY <2>1 DEF IInv, TypeOK, Closed, Points
  <2>3. OpInv'
    BY <2>1 DEF IInv, TypeOK, OpInv, Closed, Ops, None
  <2>4. SourceInv'
    BY <2>1 DEF IInv, TypeOK, SourceInv, Closed, Early
  <2>5. NoHandleLeaks'
    BY <2>1 DEF IInv, TypeOK, OpInv, SourceInv, NoHandleLeaks, Early, Ops, None
  <2>6. GatesNeedConsent' /\ TransitionInv'
    BY <2>1 DEF GatesNeedConsent, TransitionInv, IsLive
  <2> QED BY <2>2, <2>3, <2>4, <2>5, <2>6 DEF IInv
<1> QED BY <1>1, <1>2, <1>3

\* The file has been read.
LEMMA ReadInv == ASSUME IInv, NEW o \in Ops, Read(o) PROVE IInv'
<1>1. CASE IsCurrent(o)
  BY <1>1, GoesOnInv DEF Read, ElsewhereUnchanged, RestUnchanged, IsCurrent
<1>2. CASE ~IsCurrent(o)
  BY <1>2, SupersededInv DEF Read, ElsewhereUnchanged, RestUnchanged, IsCurrent
<1> QED BY <1>1, <1>2

\* A handle has been opened: it is the current operation's to install.
LEMMA OpenedInv == ASSUME IInv, NEW o \in Ops, Opened(o) PROVE IInv'
<1>1. CASE ~IsCurrent(o)
  BY <1>1, SupersededInv DEF Opened, CloseOwn, ElsewhereUnchanged, RestUnchanged, IsCurrent
<1>2. CASE IsCurrent(o)
  <2>1. /\ pc[o] = "opening" /\ pc' = [pc EXCEPT ![o] = "opened"] /\ current = o
        /\ handle' = [handle EXCEPT ![o] = "open"]
        /\ UNCHANGED <<failed, storeVars>>
    BY <1>2 DEF Opened, Goto, IsCurrent
  <2> USE DEF ElsewhereUnchanged, refreshVars, storeVars, switchVars
  <2>2. TypeOK'
    BY <2>1 DEF IInv, TypeOK, Opened, Points
  <2>3. OpInv'
    BY <2>1 DEF IInv, TypeOK, OpInv, Opened
  <2>4. SourceInv'
    BY <2>1 DEF IInv, TypeOK, OpInv, SourceInv, Opened, Early, IsLive
  <2>5. NoHandleLeaks' /\ GatesNeedConsent'
    BY <2>1 DEF IInv, TypeOK, NoHandleLeaks, GatesNeedConsent, Opened, IsLive
  <2>6. TransitionInv'
    BY <2>1 DEF IInv, TypeOK, OpInv, TransitionInv, Opened, Early, Ops, None
  <2> QED BY <2>2, <2>3, <2>4, <2>5, <2>6 DEF IInv
<1> QED BY <1>1, <1>2

\* The handle is installed: the one it replaces was closed before.
LEMMA InstallInv == ASSUME IInv, NEW o \in Ops, Install(o) PROVE IInv'
<1>1. CASE ~IsCurrent(o)
  BY <1>1, SupersededInv DEF Install, MayInstall, CloseOwn, ElsewhereUnchanged,
     RestUnchanged, IsCurrent
<1>2. CASE IsCurrent(o)
  <2>1. /\ pc[o] = "opened" /\ pc' = [pc EXCEPT ![o] = "loading"] /\ current = o
        /\ ingest' = o /\ session' = o /\ liveRecording' = FALSE
        /\ UNCHANGED <<handle, shown, failed>>
    BY <1>2 DEF Install, MayInstall, Goto, IsCurrent
  <2> USE DEF ElsewhereUnchanged, refreshVars
  <2>2. TypeOK'
    <3>1. gates' \in BOOLEAN
      BY <1>2 DEF Install, MayInstall
    <3>2. pc' \in [Ops -> Points] /\ o \in 1 .. begun
      BY <2>1, ViewerAssumption DEF IInv, TypeOK, OpInv, Points, Ops
    <3> QED BY <2>1, <3>1, <3>2 DEF IInv, TypeOK, Install
  <2>3. OpInv'
    BY <2>1 DEF IInv, TypeOK, OpInv, Install
  <2>4. SourceInv'
    BY <2>1 DEF IInv, TypeOK, SourceInv, Install, Early
  <2>5. NoHandleLeaks'
    BY <2>1 DEF IInv, TypeOK, SourceInv, NoHandleLeaks, Early, Ops, None
  <2>6. ~gates'
    <3>1. gates' => gates /\ kind[o] = "live"
      BY <1>2 DEF Install, MayInstall
    <3> QED BY <2>1, <3>1 DEF IInv, SourceInv, Early, Ops, None
  <2>7. GatesNeedConsent' /\ TransitionInv'
    BY <2>1, <2>6 DEF IInv, SourceInv, GatesNeedConsent, TransitionInv, Early, Ops, None
  <2> QED BY <2>2, <2>3, <2>4, <2>5, <2>7 DEF IInv
<1> QED BY <1>1, <1>2

\* The current operation ends, having installed its handle or having failed.
LEMMA EndedInv ==
  ASSUME IInv, NEW o \in Ops, o = current,
         pc[o] \in {"reading", "opening", "loading", "fetching"},
         pc' = [pc EXCEPT ![o] = "done"],
         handle' = handle, failed' \in BOOLEAN, failed => failed',
         pc[o] = "loading" \/ failed', shown' \in {shown, ingest},
         UNCHANGED <<ingest, session, gates, liveRecording>>, ElsewhereUnchanged
  PROVE  IInv'
<1> USE DEF ElsewhereUnchanged, refreshVars
<1>1. TypeOK'
  BY DEF IInv, TypeOK, Points
<1>2. OpInv'
  BY DEF IInv, TypeOK, OpInv
<1>3. SourceInv'
  BY DEF IInv, TypeOK, SourceInv, IsLive, Early
<1>4. NoHandleLeaks' /\ GatesNeedConsent'
  BY DEF IInv, TypeOK, NoHandleLeaks, GatesNeedConsent, IsLive
<1>5. TransitionInv'
  BY DEF IInv, TypeOK, TransitionInv, Early, Ops, None
<1> QED BY <1>1, <1>2, <1>3, <1>4, <1>5 DEF IInv

\* The data of the new source is on display.
LEMMA LoadedInv == ASSUME IInv, NEW o \in Ops, Loaded(o) PROVE IInv'
<1>1. CASE ~IsCurrent(o)
  BY <1>1, SupersededInv DEF Loaded, ElsewhereUnchanged, RestUnchanged, IsCurrent,
     storeVars, switchVars
<1>2. CASE IsCurrent(o)
  <2>1. /\ pc[o] = "loading" /\ pc' = [pc EXCEPT ![o] = "done"] /\ current = o
        /\ shown' = o /\ UNCHANGED <<handle, failed, ingest, session, switchVars>>
    BY <1>2 DEF Loaded, Goto, IsCurrent
  <2>2. ingest = o
    BY <2>1 DEF IInv, SourceInv, Ops, None
  <2>3. failed' \in BOOLEAN /\ (failed => failed')
    BY <2>1 DEF IInv, TypeOK
  <2>4. UNCHANGED <<handle, ingest, session, gates, liveRecording>> /\ ElsewhereUnchanged
    BY <2>1 DEF Loaded, switchVars
  <2>5. pc[o] = "loading" /\ pc' = [pc EXCEPT ![o] = "done"] /\ shown' = ingest
    BY <2>1, <2>2
  <2> QED BY <2>1, <2>3, <2>4, <2>5, EndedInv
<1> QED BY <1>1, <1>2

\* An operation fails; only a current one says so.
LEMMA FailInv == ASSUME IInv, NEW o \in Ops, Fail(o) PROVE IInv'
<1>1. /\ pc[o] \in {"reading", "opening", "loading", "fetching"} /\ Goto(o, "done")
      /\ handle' = handle /\ UNCHANGED storeVars
  BY DEF Fail
<1>2. failed' \in BOOLEAN /\ (failed => failed') /\ (IsCurrent(o) => failed')
      /\ (~IsCurrent(o) => failed' = failed)
  BY DEF Fail, ReportFailure, IInv, TypeOK
<1>3. CASE ~IsCurrent(o)
  BY <1>1, <1>2, <1>3, SupersededInv DEF Fail, ElsewhereUnchanged, RestUnchanged, IsCurrent
<1>4. CASE IsCurrent(o)
  BY <1>1, <1>2, <1>4, EndedInv DEF Fail, ElsewhereUnchanged, IsCurrent, Goto, storeVars, switchVars
<1> QED BY <1>3, <1>4

\* The agent ends the connection: its handle is lost, not closed.
LEMMA AgentLeavesInv == ASSUME IInv, NEW o \in Ops, AgentLeaves(o) PROVE IInv'
<1> USE DEF AgentLeaves, opVars, storeVars, switchVars, refreshVars
<1>1. TypeOK'
  BY DEF IInv, TypeOK
<1>2. OpInv'
  BY DEF IInv, TypeOK, OpInv
<1>3. ingest # None => ingest \in Ops
  BY ViewerAssumption DEF IInv, TypeOK, Ops, None
<1>4. current # None => current \in Ops
  BY ViewerAssumption DEF IInv, TypeOK, Ops, None
<1>5. SourceInv'
  BY <1>3, <1>4 DEF IInv, TypeOK, SourceInv, IsLive
<1>6. NoHandleLeaks' /\ GatesNeedConsent'
  BY DEF IInv, TypeOK, NoHandleLeaks, GatesNeedConsent, IsLive
<1>7. TransitionInv'
  BY <1>3 DEF IInv, TypeOK, TransitionInv
<1> QED BY <1>1, <1>2, <1>5, <1>6, <1>7 DEF IInv

\* Recording starts.
LEMMA StartRecordingInv == ASSUME IInv, StartRecording PROVE IInv'
<1>1. ingest \in Ops
  BY ViewerAssumption DEF StartRecording, IInv, TypeOK, IsLive, Ops, None
<1>2. TypeOK'
  BY <1>1 DEF StartRecording, IInv, TypeOK, opVars, refreshVars
<1> QED BY <1>2, QuietInv DEF StartRecording, IInv, TypeOK, OpInv, GatesNeedConsent,
           SourceInv, refreshVars

\* Recording stops.
LEMMA StopRecordingInv == ASSUME IInv, StopRecording PROVE IInv'
<1>1. CASE ingest \in recording
  <2>1. /\ stop = NotStopping /\ requests < MaxRequests /\ requests' = requests + 1
        /\ recording' = recording \ {ingest} /\ liveRecording' = liveRecording
        /\ stop' = [step |-> "saving", from |-> ingest, request |-> requests + 1]
        /\ UNCHANGED <<opVars, handle, ingest, session, shown, gates, failed, consent,
                      refreshVars, loads, updates, refreshed>>
    BY <1>1 DEF StopRecording, Ask
  <2> USE DEF opVars, refreshVars
  <2>2. TypeOK'
    BY <2>1, <1>1, ViewerAssumption DEF IInv, TypeOK
  <2>3. OpInv'
    BY <2>1, ViewerAssumption DEF IInv, TypeOK, OpInv
  <2>4. SourceInv' /\ NoHandleLeaks' /\ GatesNeedConsent'
    BY <2>1 DEF IInv, SourceInv, NoHandleLeaks, GatesNeedConsent, IsLive
  <2>5. TransitionInv'
    BY <2>1 DEF IInv, TransitionInv, NotStopping
  <2> QED BY <2>2, <2>3, <2>4, <2>5 DEF IInv
<1>2. CASE ingest \notin recording
  <2>1. TypeOK'
    BY <1>2 DEF StopRecording, IInv, TypeOK, opVars, refreshVars
  <2> QED BY <1>2, <2>1, QuietInv DEF StopRecording, IInv, TypeOK, OpInv, refreshVars
<1> QED BY <1>1, <1>2

\* The recording is saved; if its handle is still the store's, it closes.
LEMMA SavedInv == ASSUME IInv, Saved PROVE IInv'
<1>1. CASE handleVars' = handleVars /\ stop' = NotStopping
  <2>1. liveRecording' \in BOOLEAN
    BY <1>1 DEF Saved, IInv, TypeOK
  <2>2. stop' \in [step : {"none", "saving", "caching"}, from : {None} \cup Ops,
                   request : 0 .. MaxRequests]
    BY <1>1, ViewerAssumption DEF NotStopping
  <2>3. TypeOK'
    BY <1>1, <2>1, <2>2 DEF Saved, IInv, TypeOK, handleVars, opVars, refreshVars
  <2>4. stop.step # "caching"
    BY DEF Saved
  <2> QED BY <1>1, <2>3, <2>4, QuietInv DEF Saved, IInv, TypeOK, OpInv, handleVars, refreshVars,
             NotStopping
<1>2. CASE /\ ingest = stop.from /\ stop' = [stop EXCEPT !.step = "caching"]
           /\ liveRecording' = FALSE /\ Closing({ingest})
  <2>1. {ingest} \in SUBSET ({None} \cup Ops)
    BY ViewerAssumption DEF IInv, TypeOK, Ops, None
  <2>2. /\ handle' \in [Ops -> {"none", "open", "closed", "lost"}]
        /\ recording' \subseteq Ops
        /\ \A o \in Ops : \/ handle'[o] = handle[o]
                          \/ o = ingest /\ handle[o] = "open" /\ handle'[o] = "closed"
    BY <1>2, <2>1, ClosingCloses DEF IInv
  <2> USE DEF Saved, opVars, refreshVars
  <2>3. TypeOK'
    BY <1>2, <2>2 DEF IInv, TypeOK
  <2>4. stop'.step = "caching" /\ stop'.request = stop.request
    BY <1>2 DEF IInv, TypeOK
  <2>5. OpInv'
    BY <2>2, <2>4 DEF IInv, OpInv
  <2>6. /\ ingest # None => ingest \in Ops
        /\ current # None => current \in Ops
    BY ViewerAssumption DEF IInv, TypeOK, Ops, None
  <2>7. SourceInv'
    BY <2>2, <2>6 DEF IInv, OpInv, SourceInv, IsLive
  <2>8. NoHandleLeaks' /\ GatesNeedConsent' /\ TransitionInv'
    BY <2>2, <2>4 DEF IInv, NoHandleLeaks, GatesNeedConsent, TransitionInv, IsLive
  <2> QED BY <2>3, <2>5, <2>7, <2>8 DEF IInv
<1> QED BY <1>1, <1>2 DEF Saved, handleVars

\* The switches: one is turned on for the session on display.
LEMMA SwitchInv == ASSUME IInv, SwitchOn \/ SwitchOff PROVE IInv'
<1>1. CASE SwitchOn
  <2>1. TypeOK'
    BY <1>1 DEF SwitchOn, IInv, TypeOK, opVars, handleVars, refreshVars
  <2> QED BY <1>1, <2>1, QuietInv DEF SwitchOn, IInv, TypeOK, OpInv, SourceInv,
             handleVars, refreshVars
<1>2. CASE SwitchOff
  <2>1. TypeOK'
    BY <1>2 DEF SwitchOff, CloseGates, IInv, TypeOK, opVars, handleVars, refreshVars
  <2> QED BY <1>2, <2>1, QuietInv DEF SwitchOff, CloseGates, IInv, TypeOK, OpInv,
             handleVars, refreshVars
<1> QED BY <1>1, <1>2

\* Refreshes and updates.
LEMMA RefreshInv ==
  ASSUME IInv, Refresh \/ RefreshTimer \/ \E l \in loads : Refreshed(l)
  PROVE  IInv'
<1>1. TypeOK'
  <2>1. CASE Refresh
    BY <2>1, ViewerAssumption DEF Refresh, IInv, TypeOK, OpInv, opVars, handleVars, storeVars,
       switchVars
  <2>2. CASE RefreshTimer
    BY <2>2, ViewerAssumption DEF RefreshTimer, IInv, TypeOK, opVars, handleVars, storeVars,
       switchVars, Ops, None
  <2>3. CASE \E l \in loads : Refreshed(l)
    BY <2>3 DEF Refreshed, FreshLoad, IInv, TypeOK, opVars, handleVars, switchVars, refreshVars
  <2> QED BY <2>1, <2>2, <2>3
<1>2. refreshId' = begun + refreshed'
  BY ViewerAssumption DEF Refresh, RefreshTimer, Refreshed, IInv, TypeOK, OpInv, refreshVars
<1>3. UNCHANGED <<opVars, handle, ingest, session, requests, failed, gates, consent, stop>>
  BY DEF Refresh, RefreshTimer, Refreshed, handleVars, storeVars, switchVars
<1> QED BY <1>1, <1>2, <1>3, QuietInv DEF IInv, OpInv

\* Live updates write the session they belong to.
LEMMA UpdateInv ==
  ASSUME IInv, NEW o \in Ops, Update(o) \/ Updated(o)
  PROVE  IInv'
<1>1. session' = session
  BY DEF Update, Updated, IInv, SourceInv
<1>2. TypeOK'
  BY <1>1 DEF Update, Updated, IsCurrent, IInv, TypeOK, opVars, handleVars, switchVars, refreshVars
<1>3. UNCHANGED <<opVars, handle, ingest, requests, failed, gates, consent, stop,
                  refreshId, refreshed>>
  BY DEF Update, Updated, handleVars, switchVars, refreshVars
<1> QED BY <1>1, <1>2, <1>3, QuietInv DEF IInv, OpInv

-----------------------------------------------------------------------------
(* The invariant and what follows from it.                                 *)

\* Nothing has begun.
LEMMA InitInv == Init => IInv
<1> SUFFICES ASSUME Init PROVE IInv
  OBVIOUS
<1>1. TypeOK
  <2>1. /\ kind \in [Ops -> Kinds \cup {"none"}] /\ request \in [Ops -> 0 .. MaxRequests]
        /\ pc \in [Ops -> Points] /\ handle \in [Ops -> {"none", "open", "closed", "lost"}]
    BY ViewerAssumption DEF Init, Points
  <2>2. stop \in [step : {"none", "saving", "caching"}, from : {None} \cup Ops,
                  request : 0 .. MaxRequests]
    BY ViewerAssumption DEF Init, NotStopping
  <2>3. /\ refreshId \in 0 .. MaxOps + MaxRefreshes /\ timer \in 0 .. refreshId
        /\ begun \in 0 .. MaxOps /\ requests \in 0 .. MaxRequests
        /\ refreshed \in 0 .. MaxRefreshes
    BY ViewerAssumption DEF Init, None
  <2>4. /\ current = begun /\ ingest = None /\ session = None /\ shown = None
        /\ consent = None /\ failed = FALSE /\ gates = FALSE /\ liveRecording = FALSE
    BY DEF Init, None
  <2>5. recording = {} /\ updates = {} /\ loads = {}
    BY DEF Init
  <2> QED BY <2>1, <2>2, <2>3, <2>4, <2>5 DEF TypeOK
<1>2. OpInv
  BY ViewerAssumption DEF Init, OpInv, NotStopping, Ops, None
<1>3. SourceInv /\ NoHandleLeaks /\ GatesNeedConsent /\ TransitionInv
  BY DEF Init, SourceInv, NoHandleLeaks, GatesNeedConsent, TransitionInv
<1> QED BY <1>1, <1>2, <1>3 DEF IInv

\* Every step preserves the invariant: one case for each disjunct of Next.
LEMMA NextInv == IInv /\ [Next]_vars => IInv'
<1> SUFFICES ASSUME IInv, [Next]_vars PROVE IInv'
  OBVIOUS
<1>1. CASE OpenFile \/ OpenFolder \/ OpenUrl \/ Connect \/ Disconnect \/ Reset \/ Reload
  BY <1>1, OpenFileInv, OpenFolderInv, OpenUrlInv, ConnectInv, DisconnectInv,
     ResetInv, ReloadInv
<1>2. ASSUME NEW o \in Ops,
             Closed(o) \/ Read(o) \/ Opened(o) \/ Install(o) \/ Loaded(o) \/ Fail(o)
      PROVE  IInv'
  BY <1>2, ClosedInv, ReadInv, OpenedInv, InstallInv, LoadedInv, FailInv
<1>3. ASSUME NEW o \in Ops, Fetched(o) \/ Update(o) \/ Updated(o) \/ AgentLeaves(o)
      PROVE  IInv'
  BY <1>3, FetchedInv, UpdateInv, AgentLeavesInv
<1>4. CASE StartRecording \/ StopRecording \/ Saved
  BY <1>4, StartRecordingInv, StopRecordingInv, SavedInv
<1>5. CASE SwitchOn \/ SwitchOff
  BY <1>5, SwitchInv
<1>6. CASE Refresh \/ RefreshTimer \/ \E l \in loads : Refreshed(l)
  BY <1>6, RefreshInv
<1>7. CASE UNCHANGED vars
  <2>1. TypeOK'
    BY <1>7 DEF vars, IInv, TypeOK, opVars, handleVars, storeVars, switchVars, refreshVars
  <2>2. UNCHANGED <<opVars, handle, ingest, session, requests, failed, gates, consent, stop,
                    refreshId, refreshed>>
    BY <1>7 DEF vars, handleVars, storeVars, switchVars, refreshVars
  <2> QED BY <2>1, <2>2, QuietInv DEF IInv, OpInv
<1> QED BY <1>1, <1>2, <1>3, <1>4, <1>5, <1>6, <1>7 DEF Next

\* The inductive invariant holds of the viewer's operations, however they overlap.
THEOREM Invariance == Spec => []IInv
<1>1. Init => IInv
  BY InitInv
<1>2. IInv /\ [Next]_vars => IInv'
  BY NextInv
<1> QED BY <1>1, <1>2, PTL DEF Spec

\* Every variable of the store's operations stays in its set.
THEOREM TypeCorrect == Spec => []TypeOK
  BY Invariance, PTL DEF IInv

\* An open handle is the store's, or its operation has still to install or
\* close it, however many operations overtake each other (openMcapFile,
\* openRosbag2Folder and connectLiveAgent after each await).
THEOREM HandlesDoNotLeak == Spec => []NoHandleLeaks
  BY Invariance, PTL DEF IInv

\* No consent to send commands is carried over to another live agent
\* (connectLiveAgent switches the gateways off before it awaits).
THEOREM ConsentIsNotInherited == Spec => []GatesNeedConsent
  BY Invariance, PTL DEF IInv

\* The store refers to a handle that the viewer closed only in a transition,
\* or after the failure of one was reported.
THEOREM ClosedHandlesAreReplaced == Spec => []ClosedOnlyInTransition
<1>1. IInv => ClosedOnlyInTransition
  BY DEF IInv, TransitionInv, ClosedOnlyInTransition, Busy, Early
<1> QED BY <1>1, Invariance, PTL

\* Only the operation that owns the viewer changes its source.
THEOREM OwnersInstall == Spec => OwnerInstalls
<1>1. IInv /\ [Next]_vars => [ingest' # ingest => ingest' \in {None, current'}]_vars
  <2> SUFFICES ASSUME IInv, Next PROVE ingest' = ingest \/ ingest' \in {None, current'}
    BY DEF vars, storeVars
  <2> USE DEF storeVars, ElsewhereUnchanged
  <2>1. CASE OpenFile \/ OpenFolder \/ OpenUrl \/ Connect \/ Disconnect \/ Reset \/ Reload
    BY <2>1 DEF OpenFile, OpenFolder, OpenUrl, Connect, Disconnect, Reset, Reload
  <2>2. ASSUME NEW o \in Ops, Closed(o) PROVE ingest' = ingest \/ ingest' = None
    BY <2>2 DEF Closed
  <2>3. ASSUME NEW o \in Ops, Install(o)
        PROVE  ingest' = ingest \/ ingest' \in {None, current'}
    BY <2>3 DEF Install, MayInstall, IsCurrent
  <2>4. ASSUME NEW o \in Ops,
               \/ Read(o) \/ Opened(o) \/ Loaded(o) \/ Fail(o) \/ Fetched(o)
               \/ Update(o) \/ Updated(o) \/ AgentLeaves(o)
        PROVE  ingest' = ingest
    BY <2>4 DEF Read, Opened, Loaded, Fail, Fetched, Update, Updated, AgentLeaves
  <2>5. CASE \/ StartRecording \/ StopRecording \/ Saved \/ SwitchOn \/ SwitchOff
             \/ Refresh \/ RefreshTimer \/ \E l \in loads : Refreshed(l)
    BY <2>5 DEF StartRecording, StopRecording, Saved, SwitchOn, SwitchOff,
       Refresh, RefreshTimer, Refreshed
  <2> QED BY <2>1, <2>2, <2>3, <2>4, <2>5 DEF Next
<1> QED BY <1>1, Invariance, PTL DEF Spec, OwnerInstalls

\* What is displayed is replaced only by what the installed handle gave: a
\* refresh or a live update of an earlier source is dropped.
THEOREM DataIsTheSources == Spec => DataFromInstalled
<1>1. IInv /\ [Next]_vars => [shown' # shown => shown' \in {None, ingest'}]_vars
  <2> SUFFICES ASSUME IInv, Next PROVE shown' = shown \/ shown' \in {None, ingest'}
    BY DEF vars, storeVars
  <2> USE DEF storeVars, ElsewhereUnchanged
  <2>1. CASE OpenFile \/ OpenFolder \/ OpenUrl \/ Connect \/ Disconnect \/ Reset \/ Reload
    BY <2>1 DEF OpenFile, OpenFolder, OpenUrl, Connect, Disconnect, Reset, Reload
  <2>2. ASSUME NEW o \in Ops, Closed(o) \/ Install(o)
        PROVE  shown' = shown \/ shown' = None
    BY <2>2 DEF Closed, Install
  <2>3. ASSUME NEW o \in Ops, Loaded(o) PROVE shown' = shown \/ shown' = ingest'
    BY <2>3 DEF Loaded, IsCurrent, IInv, SourceInv, Ops, None
  <2>4. ASSUME NEW o \in Ops, Updated(o) PROVE shown' = shown \/ shown' = ingest'
    BY <2>4 DEF Updated
  <2>5. ASSUME NEW l \in loads, Refreshed(l) PROVE shown' = shown \/ shown' = ingest'
    BY <2>5 DEF Refreshed, FreshLoad
  <2>6. ASSUME NEW o \in Ops,
               \/ Read(o) \/ Opened(o) \/ Fail(o) \/ Fetched(o)
               \/ Update(o) \/ AgentLeaves(o)
        PROVE  shown' = shown
    BY <2>6 DEF Read, Opened, Fail, Fetched, Update, AgentLeaves
  <2>7. CASE \/ StartRecording \/ StopRecording \/ Saved \/ SwitchOn \/ SwitchOff
             \/ Refresh \/ RefreshTimer
    BY <2>7 DEF StartRecording, StopRecording, Saved, SwitchOn, SwitchOff,
       Refresh, RefreshTimer
  <2> QED BY <2>1, <2>2, <2>3, <2>4, <2>5, <2>6, <2>7 DEF Next
<1> QED BY <1>1, Invariance, PTL DEF Spec, DataFromInstalled

\* A load never takes the viewer from a source the user asked for later; only
\* the reload of a finished recording may (finding viewer_reload).
THEOREM LoadsYieldToRequests == Spec => LoadsYield
<1>1. IInv /\ [Next]_vars =>
        [current' # current /\ current # None /\ kind'[current'] # "reload" =>
           request'[current'] >= request[current]]_vars
  <2> SUFFICES ASSUME IInv, Next, current' # current, current # None,
                      kind'[current'] # "reload"
               PROVE  request'[current'] >= request[current]
    BY DEF vars, opVars
  <2>1. current \in Ops /\ request[current] <= requests /\ request[current] \in Nat
        /\ requests \in Nat /\ begun = current
    BY ViewerAssumption DEF IInv, TypeOK, OpInv, Ops, None
  <2>2. ASSUME NEW k, NEW first, NEW closed, Begin(k, requests + 1, first, closed)
        PROVE  request'[current'] >= request[current]
    <3>1. current' = begun + 1 /\ begun + 1 \in Ops
      BY <2>1, <2>2, ViewerAssumption DEF Begin, BecomesCurrent, Ops
    <3>2. request'[begun + 1] = requests + 1
      BY <2>2, <3>1 DEF Begin, IInv, TypeOK
    <3> QED BY <2>1, <3>1, <3>2
  <2>3. CASE OpenFile \/ OpenFolder \/ OpenUrl \/ Connect \/ Disconnect \/ Reset
    BY <2>2, <2>3 DEF OpenFile, OpenFolder, OpenUrl, Connect, Disconnect, Reset
  <2>4. ~Reload
    <3> SUFFICES ASSUME Reload PROVE FALSE
      OBVIOUS
    <3>1. current' = begun + 1 /\ begun + 1 \in Ops
      BY <2>1, ViewerAssumption DEF Reload, Begin, BecomesCurrent, Ops
    <3>2. kind'[begun + 1] = "reload"
      BY <3>1 DEF Reload, Begin, IInv, TypeOK
    <3> QED BY <3>1, <3>2
  <2>5. ASSUME NEW o \in Ops, Fetched(o) PROVE request'[current'] >= request[current]
    <3>1. o = current /\ begun + 1 \in Ops /\ current' = begun + 1
      BY <2>1, <2>5, ViewerAssumption DEF Fetched, MayOpen, IsCurrent, BecomesCurrent, Ops
    <3>2. request' = [request EXCEPT ![begun + 1] = request[o]]
      BY <2>5, <3>1 DEF Fetched, MayOpen, IsCurrent
    <3>3. request'[begun + 1] = request[current]
      BY <3>1, <3>2 DEF IInv, TypeOK
    <3> QED BY <2>1, <3>1, <3>3
  <2>6. ASSUME NEW o \in Ops,
               \/ Closed(o) \/ Read(o) \/ Opened(o) \/ Install(o) \/ Loaded(o) \/ Fail(o)
               \/ Update(o) \/ Updated(o) \/ AgentLeaves(o)
        PROVE  current' = current
    BY <2>6 DEF Closed, Read, Opened, Install, Loaded, Fail, Update, Updated, AgentLeaves,
       ElsewhereUnchanged, opVars
  <2>7. \/ StartRecording \/ StopRecording \/ Saved \/ SwitchOn \/ SwitchOff
        \/ Refresh \/ RefreshTimer \/ \E l \in loads : Refreshed(l)
        => current' = current
    BY DEF StartRecording, StopRecording, Saved, SwitchOn, SwitchOff,
       Refresh, RefreshTimer, Refreshed, opVars
  <2> QED BY <2>3, <2>4, <2>5, <2>6, <2>7 DEF Next
<1> QED BY <1>1, Invariance, PTL DEF Spec, LoadsYield
=============================================================================
