------------------------------ MODULE LiveIngest ------------------------------
(***************************************************************************)
(* The live ingest buffer (packages/robotscope-core/src/live/              *)
(* ingest-buffer.ts) with its two parallel windows, LiveMessageStore       *)
(* (message-store.ts) and TopicTimeIndex (storage/topic-time-index.ts), and*)
(* the caches of LiveQueryEngineImpl (live-query-engine.ts) on top.        *)
(*                                                                         *)
(* The agent's messages arrive in any order of their log times.  Both      *)
(* windows insert by bisection, drop the oldest entries beyond their limit *)
(* and are searched by bisection; the engine caches what it found until    *)
(* the buffer's revision changes.  A message is its log time and, as id,   *)
(* its rank of arrival; payloads and transforms are left out.              *)
(***************************************************************************)
EXTENDS Integers, Sequences, FiniteSets, SequencesExt, TimeIndex

CONSTANTS
  Topics,       \* topic names
  Channels,     \* channel ids
  Times,        \* log times
  MaxPerTopic,  \* DEFAULT_MAX_MESSAGES_PER_TOPIC
  MaxCached,    \* entries a query cache holds: 128 messages, 32 series
  Ranges,       \* bound: the time ranges that series are asked for, as pairs
  MaxMessages,  \* bound: messages received
  MaxRevision,  \* bound: changes of the buffer
  MaxQueries    \* bound: queries asked

ASSUME IngestAssumption ==
  /\ IsFiniteSet(Topics)
  /\ Times \subseteq Nat /\ Times # {} /\ Ranges \subseteq Times \X Times
  /\ MaxPerTopic \in Nat \ {0} /\ MaxCached \in Nat \ {0}
  /\ MaxMessages \in Nat /\ MaxRevision \in Nat /\ MaxQueries \in Nat

VARIABLES
  channelTopic,    \* channels: the topic of each channel, or NoTopic
  store,           \* messageStore.byTopic: the messages held, by log time
  index,           \* topicIndex.byTopic: their index entries
  topicCount,      \* topicStats: messages counted for each topic, Unlisted if absent
  start, end,      \* start_ns and end_ns
  hasBounds,
  messageCount,    \* message_count
  revision,
  received,        \* messages received so far, over all sessions
  asked,           \* queries asked so far
  cache,           \* rawMessageCache and numericSeriesCache, oldest key first
  cachedRevision,
  answer           \* the latest query, its answer, and the revision it was asked at

windowVars == <<store, index>>
statVars   == <<topicCount, start, end, hasBounds, messageCount>>
cacheVars  == <<cache, cachedRevision, answer, asked>>
vars == <<channelTopic, windowVars, statVars, revision, received, cacheVars>>

NoTopic  == "no topic"
Unlisted == -1
Ids      == 1 .. MaxMessages
Messages == [time : Times, id : Ids]

Near(t, at)        == [kind |-> "near", topic |-> t, from |-> at, to |-> at]
Series(t, from, to) == [kind |-> "series", topic |-> t, from |-> from, to |-> to]
Queries == {Near(t, at) : t \in Topics, at \in Times} \cup
           {Series(t, r[1], r[2]) : t \in Topics, r \in Ranges}
NotAsked == [query |-> "none", found |-> <<>>, revision |-> -1]

Init ==
  /\ channelTopic = [c \in Channels |-> NoTopic]
  /\ store = [t \in Topics |-> <<>>] /\ index = [t \in Topics |-> <<>>]
  /\ topicCount = [t \in Topics |-> Unlisted]
  /\ start = 0 /\ end = 0 /\ hasBounds = FALSE /\ messageCount = 0
  /\ revision = 0 /\ received = 0
  /\ cache = [near |-> <<>>, series |-> <<>>] /\ cachedRevision = -1
  /\ answer = NotAsked /\ asked = 0

-----------------------------------------------------------------------------
(* The windows.                                                            *)

\* Faulty variant: a full window drops its newest entry.
TrimNewest(entries) ==
  IF Len(entries) > MaxPerTopic THEN SubSeq(entries, 1, MaxPerTopic) ELSE entries

Trim(entries) ==
  IF Len(entries) > MaxPerTopic
    THEN SubSeq(entries, Len(entries) - MaxPerTopic + 1, Len(entries))
    ELSE entries

Inserted(entries, m) == Trim(InsertAt(entries, Position(entries, m.time) + 1, m))

FindRange(entries, from, to) ==
  Keeping(entries, {m \in ToSet(entries) : m.time >= from /\ m.time <= to})

-----------------------------------------------------------------------------
(* The agent's messages.                                                   *)

\* Faulty variant: a new session leaves the revision as it is.
SameRevision == UNCHANGED revision

NextRevision == revision' = revision + 1

\* resetSession: a session message, the first or a later one.
ResetSession ==
  /\ revision < MaxRevision
  /\ NextRevision
  /\ \E from \in Times, listed \in SUBSET Topics :
       /\ start' = from /\ end' = from
       /\ topicCount' = [t \in Topics |-> IF t \in listed THEN 0 ELSE Unlisted]
  /\ hasBounds' = FALSE /\ messageCount' = 0
  /\ channelTopic' = [c \in Channels |-> NoTopic]
  /\ store' = [t \in Topics |-> <<>>] /\ index' = [t \in Topics |-> <<>>]
  /\ UNCHANGED <<received, cacheVars>>

\* Faulty variant: a channel that is announced again starts counting anew.
CountAfresh(t) == 0

CountOnRegister(t) == IF topicCount[t] = Unlisted THEN 0 ELSE topicCount[t]

\* registerChannel: a new channel, one that is repeated, or an id used again.
RegisterChannel(c, t) ==
  /\ revision < MaxRevision
  /\ revision' = revision + 1
  /\ channelTopic' = [channelTopic EXCEPT ![c] = t]
  /\ topicCount' = [topicCount EXCEPT ![t] = CountOnRegister(t)]
  /\ UNCHANGED <<windowVars, start, end, hasBounds, messageCount, received, cacheVars>>

ExtendBounds(time) ==
  /\ start' = IF hasBounds /\ start < time THEN start ELSE time
  /\ end' = IF hasBounds /\ end > time THEN end ELSE time

\* Faulty variant: the index keeps arrival order, as offline indexing may.
IndexAppended(t, m) == [index EXCEPT ![t] = Trim(Append(@, m))]

IndexWith(t, m) == [index EXCEPT ![t] = Inserted(@, m)]

\* ingest: a message of a channel that is not known is ignored.
Ingest(c, time) ==
  LET t == channelTopic[c]
      m == [time |-> time, id |-> received + 1]
  IN
  /\ received < MaxMessages /\ revision < MaxRevision
  /\ received' = received + 1
  /\ IF t = NoTopic
       THEN UNCHANGED <<windowVars, statVars, revision>>
       ELSE /\ ExtendBounds(time) /\ hasBounds' = TRUE
            /\ index' = IndexWith(t, m)
            /\ store' = [store EXCEPT ![t] = Inserted(@, m)]
            /\ messageCount' = messageCount + 1
            /\ topicCount' = [topicCount EXCEPT ![t] = @ + 1]
            /\ revision' = revision + 1
  /\ UNCHANGED <<channelTopic, cacheVars>>

-----------------------------------------------------------------------------
(* Queries.                                                                *)

Find(q) ==
  IF q.kind = "near" THEN FindNearest(store[q.topic], q.from)
                     ELSE FindRange(store[q.topic], q.from, q.to)

\* refreshCaches
Fresh == IF cachedRevision = revision THEN cache ELSE [near |-> <<>>, series |-> <<>>]

\* An absent message is not cached; an absent series is.
Cacheable(q, found) == q.kind = "series" \/ found # <<>>

\* Faulty variant: no key is ever evicted.
RememberAll(entries, e) == Append(entries, e)

Remember(entries, e) ==
  IF Len(entries) < MaxCached THEN Append(entries, e) ELSE Append(Tail(entries), e)

\* getRawMessageNearTime and getNumericSeries
Ask(q) ==
  LET known == {e \in ToSet(Fresh[q.kind]) : e.query = q}
      found == IF known = {} THEN Find(q) ELSE (CHOOSE e \in known : TRUE).found
  IN
  /\ asked < MaxQueries
  /\ asked' = asked + 1
  /\ cachedRevision' = revision
  /\ cache' = IF known = {} /\ Cacheable(q, found)
                THEN [Fresh EXCEPT ![q.kind] = Remember(@, [query |-> q, found |-> found])]
                ELSE Fresh
  /\ answer' = [query |-> q, found |-> found, revision |-> revision]
  /\ UNCHANGED <<channelTopic, windowVars, statVars, revision, received>>

-----------------------------------------------------------------------------
Next ==
  \/ ResetSession
  \/ \E c \in Channels, t \in Topics : RegisterChannel(c, t)
  \/ \E c \in Channels, time \in Times : Ingest(c, time)
  \/ \E q \in Queries : Ask(q)

Spec == Init /\ [][Next]_vars

-----------------------------------------------------------------------------
(* Properties.                                                             *)

\* The types of the variables.
TypeOK ==
  /\ channelTopic \in [Channels -> Topics \cup {NoTopic}]
  /\ \A t \in Topics : store[t] \in Seq(Messages) /\ index[t] \in Seq(Messages)
  /\ \A t \in Topics : Len(store[t]) <= MaxPerTopic /\ Len(index[t]) <= MaxPerTopic
  /\ topicCount \in [Topics -> Nat \cup {Unlisted}]
  /\ start \in Times \cup {0} /\ end \in Times \cup {0} /\ hasBounds \in BOOLEAN
  /\ messageCount \in 0 .. received
  /\ revision \in 0 .. MaxRevision /\ received \in 0 .. MaxMessages
  /\ cachedRevision \in -1 .. revision /\ asked \in 0 .. MaxQueries
  /\ \A k \in {"near", "series"} : Len(cache[k]) <= MaxCached

\* The index, which sidecars are made of, and the store, which queries read,
\* hold the same messages in the same order although each trims itself.
IndexMatchesStore == index = store

\* An answer given at the buffer's present revision is what the store holds now,
\* cached or not: a message as near to the time asked for as any other, and
\* every message of the range asked for, in order of log time.
AnswersAreCurrent ==
  answer.revision = revision =>
    LET q == answer.query
        held == ToSet(store[q.topic])
    IN IF q.kind = "near"
         THEN /\ ToSet(answer.found) \subseteq held
              /\ held # {} <=> Len(answer.found) = 1
              /\ \A m \in held : Distance(answer.found[1].time, q.from) <=
                                 Distance(m.time, q.from)
         ELSE /\ ToSet(answer.found) =
                   {m \in held : m.time >= q.from /\ m.time <= q.to}
              /\ \A i, j \in DOMAIN answer.found :
                   i < j => answer.found[i].time <= answer.found[j].time

\* The session's statistics cover what is kept: the timeline's bounds contain every
\* message that can still be shown, and the per-topic counts add up to the total,
\* however channels are announced again or moved to another topic.
StatsCoverWindows ==
  /\ \A t \in Topics : \A m \in ToSet(store[t]) : hasBounds /\ start <= m.time /\ m.time <= end
  /\ messageCount = FoldSet(LAMBDA t, n : n + (IF topicCount[t] = Unlisted THEN 0 ELSE topicCount[t]),
                            0, Topics)

\* Bisecting and trimming one message at a time keeps the newest of them all.
Window == INSTANCE LatestWindow WITH window <- [t \in Topics |-> ToSet(store[t])]

HoldsTheLatest == Window!Spec
=============================================================================
