--------------------------- MODULE LiveIngestProofs ---------------------------
(***************************************************************************)
(* Proofs about the buffer's two windows and the query caches, for any     *)
(* topics, channels, times and bounds.                                     *)
(*                                                                         *)
(* First, whatever a search finds: every change of the buffer is seen by   *)
(* the caches, and the windows never part (IInv).  Then, what the windows  *)
(* hold: inserting by bisection and trimming keeps the newest messages, in *)
(* order (WindowInv), so that the buffer implements LatestWindow, and a    *)
(* search finds what was asked for.                                        *)
(***************************************************************************)
EXTENDS LiveIngest, TimeIndexProofs, FiniteSetTheorems, SequenceTheorems

Kinds == {"near", "series"}

\* Each cache is a sequence that holds no more than it may.
CachesOK ==
  /\ cache = [k \in Kinds |-> cache[k]]
  /\ \A k \in Kinds : (\E S : cache[k] \in Seq(S)) /\ Len(cache[k]) <= MaxCached

\* No cache and no answer is ahead of the buffer, and those of its revision
\* hold what a search finds now.
CoherenceInv ==
  /\ revision \in Nat
  /\ cachedRevision \in Int /\ cachedRevision <= revision
  /\ answer.revision \in Int /\ answer.revision <= revision
  /\ cachedRevision = revision =>
       \A k \in Kinds : \A e \in ToSet(cache[k]) : e.found = Find(e.query)
  /\ answer.revision = revision => answer.found = Find(answer.query)

IInv == IndexMatchesStore /\ CachesOK /\ CoherenceInv

\* The latest answer, if given at the present revision, is what a search of the
\* store finds now, whether it was cached or not.
AnswersAreFound == answer.revision = revision => answer.found = Find(answer.query)

\* The caches never grow past their limit.
CachesAreBounded == \A k \in {"near", "series"} : Len(cache[k]) <= MaxCached

-----------------------------------------------------------------------------
\* To remember an entry keeps a cache within its limit, and adds nothing else.
LEMMA RememberElements ==
  ASSUME NEW S, NEW s \in Seq(S), NEW e, Len(s) <= MaxCached
  PROVE  /\ \E T : Remember(s, e) \in Seq(T)
         /\ Len(Remember(s, e)) <= MaxCached
         /\ \A x \in ToSet(Remember(s, e)) : x \in ToSet(s) \/ x = e
<1> DEFINE T == S \cup {e}
<1>1. MaxCached \in Nat /\ MaxCached > 0
  BY IngestAssumption
<1>2. s \in Seq(T) /\ Len(s) \in Nat /\ e \in T
  OBVIOUS
<1>3. CASE Len(s) < MaxCached
  <2>1. Remember(s, e) = Append(s, e)
    BY <1>3 DEF Remember
  <2>2. /\ Append(s, e) \in Seq(T) /\ Len(Append(s, e)) = Len(s) + 1
        /\ \A i \in 1 .. Len(s) : Append(s, e)[i] = s[i]
        /\ Append(s, e)[Len(s) + 1] = e
    BY <1>2
  <2>3. \A i \in 1 .. Len(Append(s, e)) : i \in 1 .. Len(s) \/ i = Len(s) + 1
    BY <1>2, <2>2
  <2>4. DOMAIN s = 1 .. Len(s) /\ DOMAIN Append(s, e) = 1 .. Len(Append(s, e))
    BY <1>2, <2>2
  <2>5. \A x \in ToSet(Append(s, e)) : x \in ToSet(s) \/ x = e
    BY <2>2, <2>3, <2>4 DEF ToSet
  <2>6. Len(Append(s, e)) <= MaxCached
    BY <1>1, <1>2, <1>3, <2>2
  <2> QED
    BY <2>1, <2>2, <2>5, <2>6
<1>4. CASE ~ Len(s) < MaxCached
  <2> DEFINE r == Tail(s)
  <2>1. Remember(s, e) = Append(r, e)
    BY <1>4 DEF Remember
  <2>2. s # <<>> /\ Len(s) = MaxCached
    BY <1>1, <1>2, <1>4
  <2>3. /\ r \in Seq(T) /\ Len(r) \in Nat /\ Len(r) = Len(s) - 1
        /\ \A i \in 1 .. Len(r) : i + 1 \in 1 .. Len(s) /\ r[i] = s[i + 1]
    BY <1>2, <2>2
  <2> HIDE DEF r
  <2>4. /\ Append(r, e) \in Seq(T) /\ Len(Append(r, e)) = Len(r) + 1
        /\ \A i \in 1 .. Len(r) : Append(r, e)[i] = r[i]
        /\ Append(r, e)[Len(r) + 1] = e
    BY <1>2, <2>3
  <2>5. \A i \in 1 .. Len(Append(r, e)) : i \in 1 .. Len(r) \/ i = Len(r) + 1
    BY <2>3, <2>4
  <2>6. DOMAIN s = 1 .. Len(s) /\ DOMAIN Append(r, e) = 1 .. Len(Append(r, e))
    BY <1>2, <2>4
  <2>7. ASSUME NEW x \in ToSet(Append(r, e)) PROVE x \in ToSet(s) \/ x = e
    <3>1. PICK i \in 1 .. Len(Append(r, e)) : x = Append(r, e)[i]
      BY <2>6 DEF ToSet
    <3>2. CASE i \in 1 .. Len(r)
      <4>1. i + 1 \in DOMAIN s /\ x = s[i + 1]
        BY <2>3, <2>4, <2>6, <3>1, <3>2
      <4> QED
        BY <4>1 DEF ToSet
    <3>3. CASE i = Len(r) + 1
      BY <2>4, <3>1, <3>3
    <3> QED
      BY <2>5, <3>1, <3>2, <3>3
  <2>8. Len(Append(r, e)) <= MaxCached
    BY <1>1, <2>2, <2>3, <2>4
  <2> QED
    BY <2>1, <2>4, <2>7, <2>8
<1> QED
  BY <1>3, <1>4

\* An empty cache is one, and holds no entry.
LEMMA EmptyCache ==
  (\E S : <<>> \in Seq(S)) /\ Len(<<>>) <= MaxCached /\ ToSet(<<>>) = {}
<1>1. <<>> \in Seq(Nat)
  OBVIOUS
<1>2. Len(<<>>) <= MaxCached
  BY IngestAssumption
<1>3. ToSet(<<>>) = {}
  BY DEF ToSet
<1> QED
  BY <1>1, <1>2, <1>3

LEMMA InitInvariance == Init => IInv
<1> SUFFICES ASSUME Init PROVE IInv
  OBVIOUS
<1>1. IndexMatchesStore
  BY DEF Init, IndexMatchesStore
<1>2. \A k \in Kinds : cache[k] = <<>>
  BY DEF Init, Kinds
<1>3. CachesOK
  <2>1. cache = [k \in Kinds |-> cache[k]]
    BY DEF Init, Kinds
  <2> QED
    BY <1>2, <2>1, EmptyCache DEF CachesOK
<1>4. CoherenceInv
  <2>1. revision = 0 /\ cachedRevision = -1 /\ answer.revision = -1
    BY DEF Init, NotAsked
  <2> QED
    BY <2>1 DEF CoherenceInv
<1> QED
  BY <1>1, <1>3, <1>4 DEF IInv

\* A change of the buffer has a revision that no cache and no answer is of.
LEMMA ChangeIsSeen ==
  ASSUME CachesOK, CoherenceInv, revision' = revision + 1, UNCHANGED cacheVars
  PROVE  CachesOK' /\ CoherenceInv'
<1>1. UNCHANGED <<cache, cachedRevision, answer>>
  BY DEF cacheVars
<1>2. CachesOK'
  BY <1>1 DEF CachesOK
<1>3. /\ revision' \in Nat /\ cachedRevision' \in Int /\ answer'.revision \in Int
      /\ cachedRevision' < revision' /\ answer'.revision < revision'
  BY <1>1 DEF CoherenceInv
<1>4. CoherenceInv'
  BY <1>3 DEF CoherenceInv
<1> QED
  BY <1>2, <1>4

\* Nothing that the invariant speaks of changes.
LEMMA NoChange ==
  ASSUME IInv, UNCHANGED <<store, index, revision, cache, cachedRevision, answer>>
  PROVE  IInv'
<1>1. IndexMatchesStore' /\ CachesOK'
  BY DEF IInv, IndexMatchesStore, CachesOK
<1>2. \A q : Find(q)' = Find(q)
  BY DEF Find
<1>3. CoherenceInv'
  BY <1>2 DEF IInv, CoherenceInv
<1> QED
  BY <1>1, <1>3 DEF IInv

LEMMA ResetSessionInv == ASSUME IInv, ResetSession PROVE IInv'
<1>1. revision' = revision + 1 /\ UNCHANGED cacheVars /\ index' = store'
  BY DEF ResetSession, NextRevision
<1> QED
  BY <1>1, ChangeIsSeen DEF IInv, IndexMatchesStore

LEMMA RegisterChannelInv ==
  ASSUME IInv, NEW c \in Channels, NEW t \in Topics, RegisterChannel(c, t)
  PROVE  IInv'
<1>1. revision' = revision + 1 /\ UNCHANGED cacheVars /\ UNCHANGED <<store, index>>
  BY DEF RegisterChannel, windowVars
<1> QED
  BY <1>1, ChangeIsSeen DEF IInv, IndexMatchesStore

LEMMA IngestInv ==
  ASSUME IInv, NEW c \in Channels, NEW time \in Times, Ingest(c, time)
  PROVE  IInv'
<1>1. CASE channelTopic[c] = NoTopic
  <2>1. UNCHANGED <<store, index, revision, cache, cachedRevision, answer>>
    BY <1>1 DEF Ingest, windowVars, cacheVars
  <2> QED
    BY <2>1, NoChange
<1>2. CASE channelTopic[c] # NoTopic
  <2> DEFINE t == channelTopic[c]
             m == [time |-> time, id |-> received + 1]
  <2>1. /\ revision' = revision + 1 /\ UNCHANGED cacheVars
        /\ index' = [index EXCEPT ![t] = Inserted(index[t], m)]
        /\ store' = [store EXCEPT ![t] = Inserted(store[t], m)]
    BY <1>2 DEF Ingest, IndexWith
  <2>2. index' = store'
    BY <2>1 DEF IInv, IndexMatchesStore
  <2> QED
    BY <2>1, <2>2, ChangeIsSeen DEF IInv, IndexMatchesStore
<1> QED
  BY <1>1, <1>2

LEMMA AskInv == ASSUME IInv, NEW q \in Queries, Ask(q) PROVE IInv'
<1> DEFINE known == {e \in ToSet(Fresh[q.kind]) : e.query = q}
           found == IF known = {} THEN Find(q) ELSE (CHOOSE e \in known : TRUE).found
           entry == [query |-> q, found |-> found]
<1>1. /\ UNCHANGED <<store, index, revision>>
      /\ cachedRevision' = revision
      /\ cache' = IF known = {} /\ Cacheable(q, found)
                    THEN [Fresh EXCEPT ![q.kind] = Remember(Fresh[q.kind], entry)]
                    ELSE Fresh
      /\ answer' = [query |-> q, found |-> found, revision |-> revision]
  BY DEF Ask, windowVars
<1>2. \A x : Find(x)' = Find(x)
  BY <1>1 DEF Find
<1>3. q.kind \in Kinds
  BY DEF Queries, Near, Series, Kinds
<1>4. /\ Fresh = [k \in Kinds |-> Fresh[k]]
      /\ \A k \in Kinds : (\E S : Fresh[k] \in Seq(S)) /\ Len(Fresh[k]) <= MaxCached
      /\ \A k \in Kinds : \A e \in ToSet(Fresh[k]) : e.found = Find(e.query)
  <2>1. CASE cachedRevision = revision
    BY <2>1 DEF IInv, CachesOK, CoherenceInv, Fresh
  <2>2. CASE cachedRevision # revision
    <3>1. Fresh = [near |-> <<>>, series |-> <<>>]
      BY <2>2 DEF Fresh
    <3>2. \A k \in Kinds : Fresh[k] = <<>>
      BY <3>1 DEF Kinds
    <3>3. Fresh = [k \in Kinds |-> Fresh[k]]
      BY <3>1 DEF Kinds
    <3>4. \A k \in Kinds : (\E S : Fresh[k] \in Seq(S)) /\ Len(Fresh[k]) <= MaxCached
      BY <3>2, EmptyCache
    <3>5. \A k \in Kinds : ToSet(Fresh[k]) = {}
      BY <3>2, EmptyCache
    <3> HIDE DEF Fresh
    <3> QED
      BY <3>3, <3>4, <3>5
  <2> QED
    BY <2>1, <2>2
<1>5. found = Find(q)
  <2>1. CASE known # {}
    <3>1. (CHOOSE e \in known : TRUE) \in known
      BY <2>1
    <3>2. PICK e \in known : e = (CHOOSE x \in known : TRUE)
      BY <3>1
    <3>3. e.query = q /\ e.found = Find(e.query)
      BY <1>3, <1>4
    <3> QED
      BY <2>1, <3>2, <3>3
  <2> QED
    BY <2>1
<1> HIDE DEF known, found
<1>6. /\ cache' = [k \in Kinds |-> cache'[k]]
      /\ \A k \in Kinds : (\E S : cache'[k] \in Seq(S)) /\ Len(cache'[k]) <= MaxCached
      /\ \A k \in Kinds : \A e \in ToSet(cache'[k]) : e.found = Find(e.query)
  <2>1. CASE cache' = Fresh
    BY <1>4, <2>1
  <2>2. CASE cache' = [Fresh EXCEPT ![q.kind] = Remember(Fresh[q.kind], entry)]
    <3>1. /\ cache' = [k \in Kinds |-> cache'[k]]
          /\ cache'[q.kind] = Remember(Fresh[q.kind], entry)
          /\ \A k \in Kinds : k # q.kind => cache'[k] = Fresh[k]
      BY <1>3, <1>4, <2>2
    <3>2. PICK S : Fresh[q.kind] \in Seq(S)
      BY <1>3, <1>4
    <3>3. /\ \E T : cache'[q.kind] \in Seq(T)
          /\ Len(cache'[q.kind]) <= MaxCached
          /\ \A x \in ToSet(cache'[q.kind]) : x \in ToSet(Fresh[q.kind]) \/ x = entry
      BY <1>3, <1>4, <3>1, <3>2, RememberElements
    <3>4. entry.found = Find(entry.query)
      BY <1>5
    <3> HIDE DEF entry
    <3>5. \A e \in ToSet(cache'[q.kind]) : e.found = Find(e.query)
      BY <1>3, <1>4, <3>3, <3>4
    <3> QED
      BY <1>4, <3>1, <3>3, <3>5
  <2> QED
    BY <1>1, <2>1, <2>2
<1>7. CachesOK'
  BY <1>6 DEF CachesOK
<1>8. CoherenceInv'
  <2>1. answer'.revision = revision /\ answer'.query = q /\ answer'.found = found
    BY <1>1
  <2>2. revision' = revision /\ revision \in Nat
    BY <1>1 DEF IInv, CoherenceInv
  <2> QED
    BY <1>1, <1>2, <1>5, <1>6, <2>1, <2>2 DEF CoherenceInv
<1> QED
  BY <1>1, <1>7, <1>8 DEF IInv, IndexMatchesStore

LEMMA NextInvariance == IInv /\ [Next]_vars => IInv'
<1> SUFFICES ASSUME IInv, [Next]_vars PROVE IInv'
  OBVIOUS
<1>1. CASE UNCHANGED vars
  <2>1. UNCHANGED <<store, index, revision, cache, cachedRevision, answer>>
    BY <1>1 DEF vars, windowVars, cacheVars
  <2> QED
    BY <2>1, NoChange
<1>2. CASE ResetSession
  BY <1>2, ResetSessionInv
<1>3. ASSUME NEW c \in Channels, NEW t \in Topics, RegisterChannel(c, t) PROVE IInv'
  BY <1>3, RegisterChannelInv
<1>4. ASSUME NEW c \in Channels, NEW time \in Times, Ingest(c, time) PROVE IInv'
  BY <1>4, IngestInv
<1>5. ASSUME NEW q \in Queries, Ask(q) PROVE IInv'
  BY <1>5, AskInv
<1> QED
  BY <1>1, <1>2, <1>3, <1>4, <1>5 DEF Next

\* The windows and the caches are as IInv describes them in every reachable state.
THEOREM Invariance == Spec => []IInv
BY InitInvariance, NextInvariance, PTL DEF Spec

\* The index and the store hold the same messages of each topic, though each
\* inserts and trims on its own.
THEOREM IndexAndStoreAgree == Spec => []IndexMatchesStore
<1>1. IInv => IndexMatchesStore
  BY DEF IInv
<1> QED
  BY <1>1, Invariance, PTL

\* An answer given at the buffer's present revision is what a search would find
\* now: no cache outlives a message, a channel or a session.
THEOREM AnswersStayTrue == Spec => []AnswersAreFound
<1>1. IInv => AnswersAreFound
  BY DEF IInv, CoherenceInv, AnswersAreFound
<1> QED
  BY <1>1, Invariance, PTL

\* The caches never hold more than they may, however many queries are asked.
THEOREM CachesStayBounded == Spec => []CachesAreBounded
<1>1. IInv => CachesAreBounded
  BY DEF IInv, CachesOK, CachesAreBounded, Kinds
<1> QED
  BY <1>1, Invariance, PTL

-----------------------------------------------------------------------------
(* What the windows hold.                                                  *)

\* The entries of a window are in order of log time, of one time in order of arrival.
Ordered(s) == \A i, j \in 1 .. Len(s) : i < j => Window!Newer(s[j], s[i])

\* Times and ranks of arrival are numbers.
LEMMA MessageTypes == \A m \in Messages : m.time \in Nat /\ m.id \in Nat /\ m.time \in Times
<1> SUFFICES ASSUME NEW m \in Messages PROVE m.time \in Nat /\ m.id \in Nat /\ m.time \in Times
  OBVIOUS
<1>1. m.time \in Times /\ m.id \in 1 .. MaxMessages
  BY DEF Messages, Ids
<1>2. MaxMessages \in Nat /\ \A t \in Times : t \in Nat
  BY IngestAssumption
<1> QED
  BY <1>1, <1>2

\* The specification of the window counts as this one does.
LEMMA SameCardinality == \A S : Window!Cardinality(S) = Cardinality(S)
BY DEF Cardinality, Window!Cardinality

\* A window in order can be bisected.
LEMMA OrderedIsSorted ==
  ASSUME NEW s \in Seq(Messages), Ordered(s) PROVE Sorted(s)
<1>1. Len(s) \in Nat /\ \A i \in 1 .. Len(s) : s[i] \in Messages
  OBVIOUS
<1>2. \A i \in 1 .. Len(s) : s[i].time \in Int
  BY <1>1, MessageTypes
<1>3. \A i, j \in 1 .. Len(s) : i <= j => s[i].time <= s[j].time
  <2> SUFFICES ASSUME NEW i \in 1 .. Len(s), NEW j \in 1 .. Len(s), i <= j
               PROVE  s[i].time <= s[j].time
    OBVIOUS
  <2>1. CASE i = j
    BY <1>2, <2>1
  <2>2. CASE i < j
    BY <1>1, <1>2, <2>2 DEF Ordered, Window!Newer
  <2> QED
    BY <1>1, <2>1, <2>2
<1> QED
  BY <1>1, <1>2, <1>3 DEF Sorted

\* The elements of a sequence after the i-th, when none occurs twice.
LEMMA CountAfter ==
  ASSUME NEW S, NEW s \in Seq(S), \A i, j \in 1 .. Len(s) : i # j => s[i] # s[j],
         NEW i \in 0 .. Len(s)
  PROVE  LET T == {s[j] : j \in i + 1 .. Len(s)}
         IN IsFiniteSet(T) /\ Cardinality(T) = Len(s) - i
<1> DEFINE I == i + 1 .. Len(s)
           T == {s[j] : j \in I}
           f == [j \in I |-> s[j]]
<1>1. Len(s) \in Nat /\ i \in Nat /\ i <= Len(s)
  OBVIOUS
<1>2. IsFiniteSet(I) /\ Cardinality(I) = Len(s) - i
  <2>1. i + 1 \in Int /\ Len(s) \in Int
    BY <1>1
  <2>2. /\ IsFiniteSet(I)
        /\ Cardinality(I) = IF i + 1 > Len(s) THEN 0 ELSE Len(s) - (i + 1) + 1
    BY <2>1, FS_Interval
  <2> QED
    BY <1>1, <2>2
<1>3. f \in Bijection(I, T)
  <2>1. f \in [I -> T]
    OBVIOUS
  <2>2. \A a, b \in I : a # b => f[a] # f[b]
    BY <1>1
  <2>3. \A t \in T : \E a \in I : f[a] = t
    OBVIOUS
  <2> QED
    BY <2>1, <2>2, <2>3 DEF Bijection, Injection, IsInjective, Surjection
<1>4. ExistsBijection(I, T)
  BY <1>3 DEF ExistsBijection
<1> HIDE DEF I, T
<1>5. IsFiniteSet(T) /\ Cardinality(T) = Cardinality(I)
  BY <1>2, <1>4, FS_Bijection
<1> QED
  BY <1>2, <1>5 DEF T, I

\* In an ordered window the entries after one are those that are newer.
LEMMA NewerCount ==
  ASSUME NEW s \in Seq(Messages), Ordered(s), NEW i \in 1 .. Len(s)
  PROVE  Cardinality({n \in ToSet(s) : Window!Newer(n, s[i])}) = Len(s) - i
<1>1. /\ Len(s) \in Nat /\ DOMAIN s = 1 .. Len(s)
      /\ \A j \in 1 .. Len(s) : s[j].time \in Nat /\ s[j].id \in Nat
  <2>1. \A j \in 1 .. Len(s) : s[j] \in Messages
    OBVIOUS
  <2> QED
    BY <2>1, MessageTypes
<1>2. \A a, b \in 1 .. Len(s) : a # b => s[a] # s[b]
  <2> SUFFICES ASSUME NEW a \in 1 .. Len(s), NEW b \in 1 .. Len(s), a < b PROVE s[a] # s[b]
    BY <1>1
  <2>1. Window!Newer(s[b], s[a])
    BY DEF Ordered
  <2> QED
    BY <1>1, <2>1 DEF Window!Newer
<1>3. \A j \in 1 .. Len(s) : Window!Newer(s[j], s[i]) <=> j > i
  <2> SUFFICES ASSUME NEW j \in 1 .. Len(s) PROVE Window!Newer(s[j], s[i]) <=> j > i
    OBVIOUS
  <2>1. CASE j > i
    BY <2>1 DEF Ordered
  <2>2. CASE j = i
    BY <1>1, <2>2 DEF Window!Newer
  <2>3. CASE j < i
    <3>1. Window!Newer(s[i], s[j])
      BY <2>3 DEF Ordered
    <3> QED
      BY <1>1, <2>3, <3>1 DEF Window!Newer
  <2> QED
    BY <1>1, <2>1, <2>2, <2>3
<1>4. {n \in ToSet(s) : Window!Newer(n, s[i])} = {s[j] : j \in i + 1 .. Len(s)}
  <2>1. ASSUME NEW n \in ToSet(s), Window!Newer(n, s[i])
        PROVE  n \in {s[j] : j \in i + 1 .. Len(s)}
    <3>1. PICK j \in 1 .. Len(s) : n = s[j]
      BY <1>1 DEF ToSet
    <3>2. j \in i + 1 .. Len(s)
      BY <1>1, <1>3, <2>1, <3>1
    <3> QED
      BY <3>1, <3>2
  <2>2. ASSUME NEW j \in i + 1 .. Len(s)
        PROVE  s[j] \in ToSet(s) /\ Window!Newer(s[j], s[i])
    <3>1. j \in 1 .. Len(s) /\ j > i
      BY <1>1
    <3> QED
      BY <1>1, <1>3, <3>1 DEF ToSet
  <2> QED
    BY <2>1, <2>2
<1>5. i \in 0 .. Len(s)
  BY <1>1
<1> QED
  BY <1>2, <1>4, <1>5, CountAfter

\* To trim an ordered window is to keep the newest of its messages.
LEMMA TrimKeepsNewest ==
  ASSUME NEW s \in Seq(Messages), Ordered(s)
  PROVE  /\ Trim(s) \in Seq(Messages) /\ Len(Trim(s)) <= MaxPerTopic
         /\ Ordered(Trim(s))
         /\ ToSet(Trim(s)) = Window!Newest(ToSet(s))
<1> DEFINE L == Len(s)
<1>1. L \in Nat /\ DOMAIN s = 1 .. L /\ MaxPerTopic \in Nat /\ MaxPerTopic > 0
  BY IngestAssumption
<1>2. Window!Newest(ToSet(s)) = {s[i] : i \in {k \in 1 .. L : L - k < MaxPerTopic}}
  <2>1. ASSUME NEW m \in Window!Newest(ToSet(s))
        PROVE  m \in {s[i] : i \in {k \in 1 .. L : L - k < MaxPerTopic}}
    <3>1. m \in ToSet(s) /\ Cardinality({n \in ToSet(s) : Window!Newer(n, m)}) < MaxPerTopic
      BY SameCardinality DEF Window!Newest
    <3>2. PICK i \in 1 .. L : m = s[i]
      BY <1>1, <3>1 DEF ToSet
    <3>3. L - i < MaxPerTopic
      BY <3>1, <3>2, NewerCount
    <3> QED
      BY <3>2, <3>3
  <2>2. ASSUME NEW i \in 1 .. L, L - i < MaxPerTopic
        PROVE  s[i] \in Window!Newest(ToSet(s))
    <3>1. s[i] \in ToSet(s)
      BY <1>1 DEF ToSet
    <3>2. Cardinality({n \in ToSet(s) : Window!Newer(n, s[i])}) < MaxPerTopic
      BY <2>2, NewerCount
    <3> QED
      BY <3>1, <3>2, SameCardinality DEF Window!Newest
  <2> QED
    BY <2>1, <2>2
<1>3. CASE ~ L > MaxPerTopic
  <2>1. Trim(s) = s
    BY <1>3 DEF Trim
  <2>2. \A k \in 1 .. L : L - k < MaxPerTopic
    BY <1>1, <1>3
  <2>3. ToSet(s) = {s[i] : i \in {k \in 1 .. L : L - k < MaxPerTopic}}
    BY <1>1, <2>2 DEF ToSet
  <2> QED
    BY <1>1, <1>2, <1>3, <2>1, <2>3
<1>4. CASE L > MaxPerTopic
  <2> DEFINE d == L - MaxPerTopic
             r == Trim(s)
  <2>1. r = SubSeq(s, d + 1, L) /\ d \in Nat
    BY <1>1, <1>4 DEF Trim
  <2>2. /\ r \in Seq(Messages) /\ Len(r) = MaxPerTopic
        /\ \A i \in 1 .. MaxPerTopic : r[i] = s[d + i]
    <3>1. d + 1 \in Int /\ L \in Int /\ \A i \in d + 1 .. L : s[i] \in Messages
      BY <1>1, <2>1
    <3>2. /\ SubSeq(s, d + 1, L) \in Seq(Messages)
          /\ Len(SubSeq(s, d + 1, L)) = IF d + 1 <= L THEN L - (d + 1) + 1 ELSE 0
          /\ \A i \in 1 .. L - (d + 1) + 1 : SubSeq(s, d + 1, L)[i] = s[d + 1 + i - 1]
      BY <3>1, SubSeqProperties
    <3>3. L - (d + 1) + 1 = MaxPerTopic /\ d + 1 <= L
      BY <1>1, <1>4
    <3>4. \A i \in 1 .. MaxPerTopic : d + 1 + i - 1 = d + i
      BY <1>1
    <3> HIDE DEF d, r
    <3> QED
      BY <2>1, <3>2, <3>3, <3>4
  <2> HIDE DEF r
  <2>3. Ordered(r)
    <3>1. \A i \in 1 .. MaxPerTopic : d + i \in 1 .. L
      BY <1>1, <1>4
    <3>2. \A i, j \in 1 .. MaxPerTopic : i < j => d + i < d + j
      BY <1>1
    <3> HIDE DEF d
    <3> QED
      BY <2>2, <3>1, <3>2 DEF Ordered
  <2>4. ToSet(r) = {s[i] : i \in {k \in 1 .. L : L - k < MaxPerTopic}}
    <3>1. DOMAIN r = 1 .. MaxPerTopic
      BY <2>2
    <3>2. \A i \in 1 .. MaxPerTopic : d + i \in 1 .. L /\ L - (d + i) < MaxPerTopic
      BY <1>1, <1>4
    <3>3. \A k \in 1 .. L : L - k < MaxPerTopic => k - d \in 1 .. MaxPerTopic /\ d + (k - d) = k
      BY <1>1, <1>4
    <3> HIDE DEF d
    <3> QED
      BY <2>2, <3>1, <3>2, <3>3 DEF ToSet
  <2> QED
    BY <1>1, <1>2, <2>2, <2>3, <2>4 DEF r
<1> QED
  BY <1>3, <1>4

\* A message that came last goes to its place in the order.
LEMMA InsertKeepsOrder ==
  ASSUME NEW s \in Seq(Messages), Ordered(s), NEW m \in Messages,
         \A i \in 1 .. Len(s) : s[i].id < m.id
  PROVE  LET r == InsertAt(s, Position(s, m.time) + 1, m)
         IN r \in Seq(Messages) /\ Ordered(r) /\ ToSet(r) = ToSet(s) \cup {m}
<1> DEFINE L == Len(s)
<1>1. L \in Nat /\ DOMAIN s = 1 .. L /\ Sorted(s)
  BY OrderedIsSorted
<1>2. m.time \in Nat /\ m.id \in Nat /\ m.time \in Int
  BY MessageTypes
<1>3. \A i \in 1 .. L : s[i] \in Messages /\ s[i].time \in Nat /\ s[i].id \in Nat
  <2>1. \A i \in 1 .. L : s[i] \in Messages
    OBVIOUS
  <2> QED
    BY <2>1, MessageTypes
<1>4. PICK c \in 0 .. L : /\ \A i \in 1 .. L : s[i].time <= m.time <=> i <= c
                          /\ c = Position(s, m.time)
  <2>1. PICK k \in 0 .. L : \A i \in 1 .. L : s[i].time <= m.time <=> i <= k
    BY <1>1, <1>2, SortedCut
  <2>2. Position(s, m.time) = k
    BY <1>1, <1>2, <2>1, PositionIsCut
  <2> QED
    BY <2>1, <2>2
<1> DEFINE r == InsertAt(s, c + 1, m)
<1>9. /\ r \in Seq(Messages) /\ Len(r) = L + 1
      /\ \A i \in 1 .. L + 1 : r[i] = IF i <= c THEN s[i] ELSE IF i = c + 1 THEN m ELSE s[i - 1]
  <2>1. r \in Seq(Messages) /\ Len(r) = L + 1
    BY <1>4, InsertAtValues
  <2>2. \A i \in 1 .. Len(s) + 1 :
          InsertAt(s, c + 1, m)[i] = IF i <= c THEN s[i] ELSE IF i = c + 1 THEN m ELSE s[i - 1]
    <3> HIDE DEF L, r
    <3>1. c \in 0 .. Len(s)
      BY <1>4 DEF L
    <3> QED
      BY <3>1, InsertAtValues
  <2> QED
    BY <2>1, <2>2
<1>11. ToSet(r) = ToSet(s) \cup {m}
  BY <1>4, InsertAtValues
<1> HIDE DEF r
<1>10. Ordered(r)
  <2> SUFFICES ASSUME NEW i \in 1 .. L + 1, NEW j \in 1 .. L + 1, i < j
               PROVE  Window!Newer(r[j], r[i])
    BY <1>9 DEF Ordered
  <2>1. CASE j <= c
    <3>1. i \in 1 .. L /\ j \in 1 .. L /\ i <= c
      BY <1>1, <1>4, <2>1
    <3> QED
      BY <1>9, <2>1, <3>1 DEF Ordered
  <2>2. CASE j = c + 1
    <3>1. i \in 1 .. L /\ i <= c /\ ~ (j <= c)
      BY <1>1, <1>4, <2>2
    <3>2. r[i] = s[i] /\ r[j] = m
      BY <1>9, <2>2, <3>1
    <3>3. s[i].time <= m.time /\ s[i].id < m.id
      BY <1>4, <3>1
    <3> QED
      BY <1>2, <1>3, <3>1, <3>2, <3>3 DEF Window!Newer
  <2>3. CASE j > c + 1
    <3>1. j - 1 \in 1 .. L /\ ~ (j <= c) /\ j # c + 1 /\ ~ (j - 1 <= c)
      BY <1>1, <1>4, <2>3
    <3>2. r[j] = s[j - 1]
      BY <1>9, <3>1
    <3>3. CASE i <= c
      <4>1. i \in 1 .. L /\ i < j - 1 /\ r[i] = s[i]
        BY <1>1, <1>4, <1>9, <2>3, <3>3
      <4> QED
        BY <3>1, <3>2, <4>1 DEF Ordered
    <3>4. CASE i = c + 1
      <4>1. r[i] = m
        BY <1>4, <1>9, <3>4
      <4>2. ~ (s[j - 1].time <= m.time)
        BY <1>4, <3>1
      <4>3. s[j - 1].time > m.time
        BY <1>2, <1>3, <3>1, <4>2
      <4> QED
        BY <3>2, <4>1, <4>3 DEF Window!Newer
    <3>5. CASE i > c + 1
      <4>1. i - 1 \in 1 .. L /\ ~ (i <= c) /\ i # c + 1 /\ i - 1 < j - 1
        BY <1>1, <1>4, <3>5
      <4>2. r[i] = s[i - 1]
        BY <1>9, <4>1
      <4> QED
        BY <3>1, <3>2, <4>1, <4>2 DEF Ordered
    <3> QED
      BY <1>4, <3>3, <3>4, <3>5
  <2> QED
    BY <1>4, <2>1, <2>2, <2>3
<1> QED
  BY <1>4, <1>9, <1>10, <1>11 DEF r

\* A full window that takes a message holds the newest of them all.
THEOREM InsertedIsNewest ==
  ASSUME NEW s \in Seq(Messages), Ordered(s), NEW m \in Messages,
         \A i \in 1 .. Len(s) : s[i].id < m.id
  PROVE  /\ Inserted(s, m) \in Seq(Messages) /\ Len(Inserted(s, m)) <= MaxPerTopic
         /\ Ordered(Inserted(s, m))
         /\ ToSet(Inserted(s, m)) = Window!Newest(ToSet(s) \cup {m})
<1> DEFINE e == InsertAt(s, Position(s, m.time) + 1, m)
<1>1. e \in Seq(Messages) /\ Ordered(e) /\ ToSet(e) = ToSet(s) \cup {m}
  BY InsertKeepsOrder
<1>2. Inserted(s, m) = Trim(e)
  BY DEF Inserted
<1> HIDE DEF e
<1> QED
  BY <1>1, <1>2, TrimKeepsNewest

-----------------------------------------------------------------------------
(* What a search for a range finds.                                        *)

\* A search for a range keeps what is in it, in order.
THEOREM RangeFound ==
  ASSUME NEW s \in Seq(Messages), Sorted(s), NEW from \in Int, NEW to \in Int
  PROVE  LET r == FindRange(s, from, to)
         IN /\ r \in Seq(Messages)
            /\ ToSet(r) = {m \in ToSet(s) : m.time >= from /\ m.time <= to}
            /\ \A i, j \in DOMAIN r : i < j => r[i].time <= r[j].time
<1> DEFINE wanted == {m \in ToSet(s) : m.time >= from /\ m.time <= to}
<1>1. PICK r : r = Keeping(s, wanted)
  OBVIOUS
<1>2. FindRange(s, from, to) = r
  BY <1>1 DEF FindRange
<1>3. /\ r \in Seq(Messages)
      /\ \A k \in DOMAIN r : \E i \in DOMAIN s : s[i] \in wanted /\ r[k] = s[i]
      /\ \A i \in DOMAIN s : s[i] \in wanted => \E k \in DOMAIN r : r[k] = s[i]
      /\ \A j, k \in DOMAIN r : j < k =>
           \E a, b \in DOMAIN s : a < b /\ r[j] = s[a] /\ r[k] = s[b]
  <2> HIDE DEF wanted
  <2> QED
    BY <1>1, KeepingSifts
<1>4. wanted \subseteq ToSet(s)
  OBVIOUS
<1>5. ToSet(r) = wanted
  <2> HIDE DEF wanted
  <2> QED
    BY <1>3, <1>4 DEF ToSet
<1>6. ASSUME NEW j \in DOMAIN r, NEW k \in DOMAIN r, j < k PROVE r[j].time <= r[k].time
  <2>1. PICK a \in DOMAIN s, b \in DOMAIN s : a < b /\ r[j] = s[a] /\ r[k] = s[b]
    BY <1>3, <1>6
  <2>2. a \in 1 .. Len(s) /\ b \in 1 .. Len(s) /\ a <= b
    BY <2>1
  <2> QED
    BY <2>1, <2>2 DEF Sorted
<1> QED
  BY <1>2, <1>3, <1>5, <1>6

-----------------------------------------------------------------------------
(* Adding up the counts of the topics.                                     *)

\* What a topic adds to the total.
Listed(count, t) == IF count[t] = Unlisted THEN 0 ELSE count[t]

\* The sum that StatsCoverWindows compares with messageCount.
Total(count) ==
  FoldSet(LAMBDA t, n : n + (IF count[t] = Unlisted THEN 0 ELSE count[t]), 0, Topics)

\* The topic that the fold takes out of S next.
AnyOf(S) == CHOOSE t \in S : TRUE

\* G adds up what the topics of each set add.
AddsUp(G, count) ==
  /\ G \in [SUBSET Topics -> Int]
  /\ G[{}] = 0
  /\ \A S \in SUBSET Topics : S # {} => G[S] = G[S \ {AnyOf(S)}] + Listed(count, AnyOf(S))

\* Taking one topic out makes a set smaller by one.
LEMMA SmallerSet ==
  ASSUME NEW S \in SUBSET Topics
  PROVE  /\ IsFiniteSet(S) /\ Cardinality(S) \in Nat /\ Cardinality(S) <= Cardinality(Topics)
         /\ S # {} => /\ AnyOf(S) \in S /\ S \ {AnyOf(S)} \in SUBSET Topics
                      /\ Cardinality(S \ {AnyOf(S)}) = Cardinality(S) - 1
<1>1. IsFiniteSet(Topics)
  BY IngestAssumption
<1>2. IsFiniteSet(S) /\ Cardinality(S) <= Cardinality(Topics)
  BY <1>1, FS_Subset
<1>3. Cardinality(S) \in Nat
  BY <1>2, FS_CardinalityType
<1>4. ASSUME S # {}
      PROVE  /\ AnyOf(S) \in S /\ S \ {AnyOf(S)} \in SUBSET Topics
             /\ Cardinality(S \ {AnyOf(S)}) = Cardinality(S) - 1
  <2>1. AnyOf(S) \in S
    BY <1>4 DEF AnyOf
  <2>2. Cardinality(S \ {AnyOf(S)}) = Cardinality(S) - 1
    BY <1>2, <2>1, FS_RemoveElement
  <2> QED
    BY <2>1, <2>2
<1> QED
  BY <1>2, <1>3, <1>4

\* There is one way to add up.
LEMMA AddsUpOnce ==
  ASSUME NEW count, NEW G, AddsUp(G, count),
         NEW H, H[{}] = 0,
         \A S \in SUBSET Topics : S # {} => H[S] = H[S \ {AnyOf(S)}] + Listed(count, AnyOf(S))
  PROVE  \A S \in SUBSET Topics : H[S] = G[S]
<1> DEFINE wrong == {k \in Nat : \E S \in SUBSET Topics : Cardinality(S) = k /\ H[S] # G[S]}
<1>1. ASSUME wrong # {} PROVE FALSE
  <2>1. PICK k \in wrong : \A j \in wrong : k <= j
    BY <1>1, LeastNatural
  <2>2. PICK S \in SUBSET Topics : Cardinality(S) = k /\ H[S] # G[S]
    BY <2>1
  <2>3. S # {}
    BY <2>2 DEF AddsUp
  <2> DEFINE R == S \ {AnyOf(S)}
  <2>4. R \in SUBSET Topics /\ Cardinality(R) = k - 1 /\ Cardinality(R) \in Nat /\ k \in Nat
    BY <2>2, <2>3, SmallerSet
  <2>5. H[S] = H[R] + Listed(count, AnyOf(S)) /\ G[S] = G[R] + Listed(count, AnyOf(S))
    BY <2>3 DEF AddsUp
  <2> HIDE DEF R
  <2>6. Cardinality(R) \notin wrong
    <3> HIDE DEF wrong
    <3> QED
      BY <2>1, <2>4
  <2>7. H[R] = G[R]
    BY <2>4, <2>6
  <2> QED
    BY <2>2, <2>5, <2>7
<1> QED
  BY <1>1, SmallerSet

\* The fold is the way to add up.
LEMMA TotalOf ==
  ASSUME NEW count, NEW G, AddsUp(G, count)
  PROVE  Total(count) = G[Topics]
<1> DEFINE D == SUBSET Topics
           Step(f) == [S \in D |-> IF S = {} THEN 0
                                   ELSE f[S \ {AnyOf(S)}] + Listed(count, AnyOf(S))]
           F == CHOOSE f : f = Step(f)
<1>1. Total(count) = F[Topics]
  BY DEF Total, FoldSet, MapThenFoldSet, Listed, AnyOf
<1>2. G = Step(G)
  <2>1. \A S \in D : G[S] = Step(G)[S]
    BY DEF AddsUp
  <2>2. G = [S \in D |-> G[S]] /\ Step(G) = [S \in D |-> Step(G)[S]]
    BY DEF AddsUp
  <2> HIDE DEF Step, D
  <2> QED
    BY <2>1, <2>2
<1>3. F = Step(F)
  <2> HIDE DEF Step
  <2> QED
    BY <1>2
<1> HIDE DEF F
<1>4. \A S \in D : F[S] = IF S = {} THEN 0 ELSE F[S \ {AnyOf(S)}] + Listed(count, AnyOf(S))
  <2>1. \A S \in D : Step(F)[S] = IF S = {} THEN 0
                                  ELSE F[S \ {AnyOf(S)}] + Listed(count, AnyOf(S))
    OBVIOUS
  <2> HIDE DEF Step, D
  <2> QED
    BY <1>3, <2>1
<1> HIDE DEF Step
<1>5. F[{}] = 0 /\ \A S \in SUBSET Topics : S # {} =>
                      F[S] = F[S \ {AnyOf(S)}] + Listed(count, AnyOf(S))
  BY <1>4
<1>6. F[Topics] = G[Topics]
  BY <1>5, AddsUpOnce
<1> QED
  BY <1>1, <1>6

\* Whatever the counts are, they can be added up.
LEMMA SomeAddsUp ==
  ASSUME NEW count \in [Topics -> Int] PROVE \E G : AddsUp(G, count)
<1> DEFINE D == SUBSET Topics
           n == Cardinality(Topics)
           stop == {{}}
           base == [S \in D |-> 0]
           next == [S \in D |-> S \ {AnyOf(S)}]
           size == [S \in D |-> Cardinality(S)]
           comb == [p \in D \X Int |-> p[2] + Listed(count, AnyOf(p[1]))]
<1>1. \A S \in D : S # {} => Listed(count, AnyOf(S)) \in Int
  BY SmallerSet DEF Listed
<1>2. Descends(D, stop, next, size, n)
  <2>1. n \in Nat
    BY SmallerSet
  <2>2. size \in [D -> 0 .. n]
    <3>1. ASSUME NEW S \in D PROVE Cardinality(S) \in 0 .. n
      <4>1. Cardinality(S) \in Nat /\ Cardinality(S) <= n
        BY SmallerSet
      <4> HIDE DEF D, n
      <4> QED
        BY <2>1, <4>1
    <3> HIDE DEF D, n
    <3> QED
      BY <3>1
  <2>3. ASSUME NEW S \in D, S \notin stop PROVE next[S] \in D /\ size[next[S]] < size[S]
    BY <2>3, SmallerSet
  <2> HIDE DEF D, stop, next, size, n
  <2> QED
    BY <2>1, <2>2, <2>3 DEF Descends
<1>3. StaysIn(Int, D, stop, {}, base, comb)
  <2>1. \A S \in D : base[S] \in Int
    OBVIOUS
  <2>2. ASSUME NEW S \in D, NEW v \in Int, S \notin stop PROVE comb[<<S, v>>] \in Int
    <3>1. comb[<<S, v>>] = v + Listed(count, AnyOf(S))
      OBVIOUS
    <3> HIDE DEF comb
    <3> QED
      BY <1>1, <2>2, <3>1
  <2> HIDE DEF D, stop, base, comb
  <2> QED
    BY <2>1, <2>2 DEF StaysIn
<1>4. PICK G \in [D -> Int] : G = Unfolded(G, D, stop, {}, base, next, comb)
  <2> HIDE DEF D, stop, base, next, comb, size, n
  <2> QED
    BY <1>2, <1>3, TypedRecursion
<1>5. \A S \in D : G[S] = IF S \in stop THEN base[S] ELSE comb[<<S, G[next[S]]>>]
  <2> HIDE DEF D, stop, base, next, comb
  <2> QED
    BY <1>4 DEF Unfolded
<1>6. G[{}] = 0
  BY <1>5
<1>7. ASSUME NEW S \in D, S # {} PROVE G[S] = G[S \ {AnyOf(S)}] + Listed(count, AnyOf(S))
  <2>1. next[S] \in D /\ next[S] = S \ {AnyOf(S)}
    BY <1>7, SmallerSet
  <2>2. G[S] = comb[<<S, G[next[S]]>>]
    BY <1>5, <1>7
  <2>3. G[next[S]] \in Int
    BY <2>1
  <2>4. \A v \in Int : comb[<<S, v>>] = v + Listed(count, AnyOf(S))
    OBVIOUS
  <2> HIDE DEF comb, next, D
  <2> QED
    BY <2>1, <2>2, <2>3, <2>4
<1> QED
  BY <1>6, <1>7 DEF AddsUp

\* Counting more for one topic adds as much to the total.
LEMMA TotalRises ==
  ASSUME NEW count \in [Topics -> Int], NEW count2 \in [Topics -> Int],
         NEW t \in Topics, NEW k \in Int,
         \A s \in Topics : Listed(count2, s) = Listed(count, s) + (IF s = t THEN k ELSE 0)
  PROVE  Total(count2) = Total(count) + k
<1>1. PICK G : AddsUp(G, count)
  BY SomeAddsUp
<1> DEFINE H == [S \in SUBSET Topics |-> G[S] + (IF t \in S THEN k ELSE 0)]
<1>2. \A S \in SUBSET Topics : G[S] \in Int
  BY <1>1 DEF AddsUp
<1>3. AddsUp(H, count2)
  <2>1. H \in [SUBSET Topics -> Int]
    BY <1>2
  <2>2. H[{}] = 0
    BY <1>1 DEF AddsUp
  <2>3. ASSUME NEW S \in SUBSET Topics, S # {}
        PROVE  H[S] = H[S \ {AnyOf(S)}] + Listed(count2, AnyOf(S))
    <3> DEFINE a == AnyOf(S)
               R == S \ {a}
    <3>1. a \in S /\ a \in Topics /\ R \in SUBSET Topics
      BY <2>3, SmallerSet
    <3>2. G[S] = G[R] + Listed(count, a)
      BY <1>1, <2>3 DEF AddsUp
    <3>3. G[R] \in Int /\ Listed(count, a) \in Int
      BY <1>2, <3>1 DEF Listed
    <3>4. H[S] = G[S] + (IF t \in S THEN k ELSE 0) /\ H[R] = G[R] + (IF t \in R THEN k ELSE 0)
      BY <3>1
    <3>5. t \in S <=> t \in R \/ a = t
      BY <3>1
    <3>6. a = t => t \notin R
      OBVIOUS
    <3>7. Listed(count2, a) = Listed(count, a) + (IF a = t THEN k ELSE 0)
      BY <3>1
    <3> HIDE DEF H, a, R
    <3>8. H[S] = H[R] + Listed(count2, a)
      <4>1. CASE a = t
        BY <3>2, <3>3, <3>4, <3>5, <3>6, <3>7, <4>1
      <4>2. CASE a # t
        BY <3>2, <3>3, <3>4, <3>5, <3>7, <4>2
      <4> QED
        BY <4>1, <4>2
    <3> QED
      BY <3>8 DEF a, R
  <2> HIDE DEF H
  <2> QED
    BY <2>1, <2>2, <2>3 DEF AddsUp
<1>4. H[Topics] = G[Topics] + k
  OBVIOUS
<1> HIDE DEF H
<1> QED
  BY <1>1, <1>3, <1>4, TotalOf

\* A list of topics of which none has a message adds up to none.
LEMMA TotalOfNone ==
  ASSUME NEW count, \A t \in Topics : Listed(count, t) = 0
  PROVE  Total(count) = 0
<1> DEFINE G == [S \in SUBSET Topics |-> 0]
<1>1. AddsUp(G, count)
  <2>1. \A S \in SUBSET Topics : S # {} => AnyOf(S) \in Topics /\ S \ {AnyOf(S)} \in SUBSET Topics
    BY SmallerSet
  <2> QED
    BY <2>1 DEF AddsUp
<1> HIDE DEF G
<1>2. Total(count) = G[Topics]
  BY <1>1, TotalOf
<1> QED
  BY <1>2 DEF G

-----------------------------------------------------------------------------
(* The invariant of the windows, and that every action keeps it.           *)

\* Every window holds messages received before, in order, and no more than it may.
WindowsOK ==
  /\ store \in [Topics -> Seq(Messages)]
  /\ \A t \in Topics :
       /\ Len(store[t]) <= MaxPerTopic /\ Ordered(store[t])
       /\ \A i \in 1 .. Len(store[t]) : store[t][i].id <= received

\* A channel is of a topic that is listed.
ChannelsOK ==
  /\ channelTopic \in [Channels -> Topics \cup {NoTopic}]
  /\ topicCount \in [Topics -> Nat \cup {Unlisted}]
  /\ \A c \in Channels : channelTopic[c] # NoTopic => topicCount[channelTopic[c]] # Unlisted

\* The bounds contain what the windows hold, and the counts add up.
StatsOK ==
  /\ start \in Times \cup {0} /\ end \in Times \cup {0} /\ hasBounds \in BOOLEAN
  /\ \A t \in Topics : \A i \in 1 .. Len(store[t]) :
       hasBounds /\ start <= store[t][i].time /\ store[t][i].time <= end
  /\ messageCount = Total(topicCount) /\ messageCount \in 0 .. received

\* The counters are within their bounds, and what was answered was asked.
CountersOK ==
  /\ revision \in 0 .. MaxRevision /\ received \in 0 .. MaxMessages
  /\ asked \in 0 .. MaxQueries /\ cachedRevision \in -1 .. revision
  /\ answer.revision = -1 \/ answer.query \in Queries

WindowInv == WindowsOK /\ ChannelsOK /\ StatsOK /\ CountersOK

\* What the windows hold, the list of topics and the statistics stay as they are.
LEMMA WindowsStay ==
  ASSUME WindowInv,
         UNCHANGED <<channelTopic, store, topicCount, start, end, hasBounds, messageCount>>,
         received' = received \/ received' = received + 1
  PROVE  WindowsOK' /\ ChannelsOK' /\ StatsOK'
<1>1. /\ received \in Nat /\ received' \in Nat /\ received <= received'
  <2>1. received \in Nat
    BY IngestAssumption DEF WindowInv, CountersOK
  <2> QED
    BY <2>1
<1>2. \A t \in Topics : \A i \in 1 .. Len(store[t]) : store[t][i].id \in Nat
  <2>1. \A t \in Topics : \A i \in 1 .. Len(store[t]) : store[t][i] \in Messages
    BY DEF WindowInv, WindowsOK
  <2> QED
    BY <2>1, MessageTypes
<1>3. WindowsOK'
  <2>1. \A t \in Topics : \A i \in 1 .. Len(store[t]) : store[t][i].id <= received'
    BY <1>1, <1>2 DEF WindowInv, WindowsOK
  <2>2. \A t \in Topics : Ordered(store[t])' <=> Ordered(store[t])
    BY DEF Ordered
  <2> QED
    BY <2>1, <2>2 DEF WindowInv, WindowsOK
<1>4. ChannelsOK'
  BY DEF WindowInv, ChannelsOK
<1>5. StatsOK'
  <2>1. Total(topicCount') = Total(topicCount)
    OBVIOUS
  <2>2. Total(topicCount)' = Total(topicCount')
    OBVIOUS
  <2>3. messageCount \in 0 .. received'
    BY <1>1 DEF WindowInv, StatsOK
  <2> QED
    BY <2>1, <2>2, <2>3 DEF WindowInv, StatsOK
<1> QED
  BY <1>3, <1>4, <1>5

\* An empty buffer is as WindowInv says.
LEMMA InitWindows == Init => WindowInv
<1> SUFFICES ASSUME Init PROVE WindowInv
  OBVIOUS
<1>1. \A t \in Topics : store[t] = <<>>
  BY DEF Init
<1>2. <<>> \in Seq(Messages) /\ Len(<<>>) = 0 /\ \A i \in 1 .. 0 : FALSE
  OBVIOUS
<1>3. Ordered(<<>>)
  BY <1>2 DEF Ordered
<1>4. store \in [Topics -> Seq(Messages)]
  BY <1>2 DEF Init
<1>5. 0 <= MaxPerTopic /\ 0 \in 0 .. MaxRevision /\ 0 \in 0 .. MaxMessages /\ 0 \in 0 .. MaxQueries
  BY IngestAssumption
<1>6. WindowsOK
  BY <1>1, <1>2, <1>3, <1>4, <1>5 DEF WindowsOK
<1>7. ChannelsOK
  BY DEF Init, ChannelsOK
<1>8. StatsOK
  <2>1. \A t \in Topics : Listed(topicCount, t) = 0
    BY DEF Init, Listed
  <2>2. Total(topicCount) = 0
    BY <2>1, TotalOfNone
  <2>3. \A t \in Topics : \A i \in 1 .. Len(store[t]) : FALSE
    BY <1>1, <1>2
  <2>4. start = 0 /\ end = 0 /\ hasBounds = FALSE /\ messageCount = 0 /\ received = 0 /\ 0 \in 0 .. 0
    BY DEF Init
  <2> QED
    BY <2>2, <2>3, <2>4 DEF StatsOK
<1>9. CountersOK
  <2>1. answer.revision = -1
    BY DEF Init, NotAsked
  <2>2. -1 \in -1 .. 0
    OBVIOUS
  <2> QED
    BY <1>5, <2>1, <2>2 DEF Init, CountersOK
<1> QED
  BY <1>6, <1>7, <1>8, <1>9 DEF WindowInv

\* A step that changes the buffer keeps the counters within bounds.
LEMMA CountersMove ==
  ASSUME WindowInv, revision < MaxRevision, revision' = revision + 1, UNCHANGED cacheVars,
         received' \in 0 .. MaxMessages
  PROVE  CountersOK'
<1>1. UNCHANGED <<cachedRevision, answer, asked>>
  BY DEF cacheVars
<1>2. revision \in 0 .. MaxRevision /\ MaxRevision \in Nat /\ cachedRevision \in -1 .. revision
  BY IngestAssumption DEF WindowInv, CountersOK
<1>3. revision' \in 0 .. MaxRevision /\ cachedRevision \in -1 .. revision'
  BY <1>2
<1>4. asked \in 0 .. MaxQueries /\ (answer.revision = -1 \/ answer.query \in Queries)
  BY DEF WindowInv, CountersOK
<1> QED
  BY <1>1, <1>3, <1>4 DEF CountersOK

\* A new session empties the windows and the counts.
LEMMA ResetSessionWindows == ASSUME WindowInv, ResetSession PROVE WindowInv'
<1>1. /\ revision < MaxRevision /\ revision' = revision + 1
      /\ \A t \in Topics : store'[t] = <<>>
      /\ store' = [t \in Topics |-> <<>>]
      /\ hasBounds' = FALSE /\ messageCount' = 0 /\ received' = received
      /\ channelTopic' = [c \in Channels |-> NoTopic]
      /\ UNCHANGED cacheVars
  BY DEF ResetSession, NextRevision
<1>2. PICK from \in Times, listed \in SUBSET Topics :
        /\ start' = from /\ end' = from
        /\ topicCount' = [t \in Topics |-> IF t \in listed THEN 0 ELSE Unlisted]
  BY DEF ResetSession
<1>3. <<>> \in Seq(Messages) /\ Len(<<>>) = 0 /\ \A i \in 1 .. 0 : FALSE
  OBVIOUS
<1>4. received \in 0 .. MaxMessages /\ received \in Nat /\ 0 <= MaxPerTopic
  BY IngestAssumption DEF WindowInv, CountersOK
<1>5. WindowsOK'
  <2>1. \A t \in Topics : Ordered(store[t])'
    BY <1>1, <1>3 DEF Ordered
  <2>2. store' \in [Topics -> Seq(Messages)]
    BY <1>1, <1>3
  <2> QED
    BY <1>1, <1>3, <1>4, <2>1, <2>2 DEF WindowsOK
<1>6. ChannelsOK'
  <2>1. topicCount' \in [Topics -> Nat \cup {Unlisted}]
    BY <1>2
  <2>2. /\ channelTopic' \in [Channels -> Topics \cup {NoTopic}]
        /\ \A c \in Channels : channelTopic'[c] = NoTopic
    BY <1>1
  <2> QED
    BY <2>1, <2>2 DEF ChannelsOK
<1>7. StatsOK'
  <2>1. \A t \in Topics : Listed(topicCount', t) = 0
    BY <1>2 DEF Listed, Unlisted
  <2>2. Total(topicCount') = 0
    BY <2>1, TotalOfNone
  <2>3. Total(topicCount)' = Total(topicCount')
    OBVIOUS
  <2>4. messageCount' \in 0 .. received'
    BY <1>1, <1>4
  <2> QED
    BY <1>1, <1>2, <1>3, <2>2, <2>3, <2>4 DEF StatsOK
<1>8. CountersOK'
  BY <1>1, <1>4, CountersMove
<1> QED
  BY <1>5, <1>6, <1>7, <1>8 DEF WindowInv

\* A channel that is announced, or announced again, changes no count.
LEMMA RegisterChannelWindows ==
  ASSUME WindowInv, NEW c \in Channels, NEW t \in Topics, RegisterChannel(c, t) PROVE WindowInv'
<1>1. /\ revision < MaxRevision /\ revision' = revision + 1
      /\ channelTopic' = [channelTopic EXCEPT ![c] = t]
      /\ topicCount' = [topicCount EXCEPT ![t] = CountOnRegister(t)]
      /\ UNCHANGED <<store, start, end, hasBounds, messageCount, received>>
      /\ UNCHANGED cacheVars
  BY DEF RegisterChannel, windowVars
<1>2. received \in 0 .. MaxMessages
  BY DEF WindowInv, CountersOK
<1>3. /\ channelTopic \in [Channels -> Topics \cup {NoTopic}]
      /\ topicCount \in [Topics -> Nat \cup {Unlisted}]
  BY DEF WindowInv, ChannelsOK
<1>4. WindowsOK'
  <2>1. \A s \in Topics : Ordered(store[s])' <=> Ordered(store[s])
    BY <1>1 DEF Ordered
  <2> QED
    BY <1>1, <2>1 DEF WindowInv, WindowsOK
<1>5. /\ topicCount' \in [Topics -> Nat \cup {Unlisted}]
      /\ topicCount'[t] = CountOnRegister(t) /\ topicCount'[t] \in Nat /\ topicCount'[t] # Unlisted
      /\ \A s \in Topics : s # t => topicCount'[s] = topicCount[s]
  <2>1. CountOnRegister(t) \in Nat
    BY <1>3 DEF CountOnRegister, Unlisted
  <2>2. \A n \in Nat : n # Unlisted
    BY DEF Unlisted
  <2> QED
    BY <1>1, <1>3, <2>1, <2>2
<1>6. ChannelsOK'
  <2>1. channelTopic' \in [Channels -> Topics \cup {NoTopic}]
    BY <1>1, <1>3
  <2>2. \A x \in Channels : channelTopic'[x] = IF x = c THEN t ELSE channelTopic[x]
    BY <1>1, <1>3
  <2>3. ASSUME NEW x \in Channels, channelTopic'[x] # NoTopic PROVE topicCount'[channelTopic'[x]] # Unlisted
    <3>1. CASE channelTopic'[x] = t
      BY <1>5, <3>1
    <3>2. CASE channelTopic'[x] # t
      <4>1. channelTopic'[x] = channelTopic[x]
        BY <2>2, <3>2
      <4>2. topicCount[channelTopic[x]] # Unlisted /\ channelTopic[x] \in Topics
        BY <1>3, <2>3, <4>1 DEF WindowInv, ChannelsOK
      <4> QED
        BY <1>5, <3>2, <4>1, <4>2
    <3> QED
      BY <3>1, <3>2
  <2> QED
    BY <1>5, <2>1, <2>3 DEF ChannelsOK
<1>7. StatsOK'
  <2>1. topicCount \in [Topics -> Int] /\ topicCount' \in [Topics -> Int]
    BY <1>3, <1>5 DEF Unlisted
  <2>2. \A s \in Topics : Listed(topicCount', s) = Listed(topicCount, s) + (IF s = t THEN 0 ELSE 0)
    <3>1. Listed(topicCount', t) = Listed(topicCount, t)
      BY <1>3, <1>5 DEF Listed, CountOnRegister, Unlisted
    <3>2. \A s \in Topics : s # t => Listed(topicCount', s) = Listed(topicCount, s)
      BY <1>5 DEF Listed
    <3>3. \A s \in Topics : Listed(topicCount, s) \in Int
      BY <2>1 DEF Listed
    <3> QED
      BY <3>1, <3>2, <3>3
  <2>3. Total(topicCount') = Total(topicCount) + 0
    BY <2>1, <2>2, TotalRises
  <2>4. Total(topicCount)' = Total(topicCount')
    OBVIOUS
  <2>5. messageCount = Total(topicCount) /\ messageCount \in Int
    BY DEF WindowInv, StatsOK
  <2>6. messageCount = Total(topicCount')
    BY <2>3, <2>5
  <2> QED
    BY <1>1, <2>4, <2>6 DEF WindowInv, StatsOK
<1>8. CountersOK'
  BY <1>1, <1>2, CountersMove
<1> QED
  BY <1>4, <1>6, <1>7, <1>8 DEF WindowInv

\* A message of a known channel, at the buffer: what changes.
LEMMA IngestSteps ==
  ASSUME IInv, WindowInv, NEW c \in Channels, NEW time \in Times, Ingest(c, time),
         channelTopic[c] # NoTopic
  PROVE  LET t == channelTopic[c]
             m == [time |-> time, id |-> received + 1]
         IN /\ t \in Topics /\ m \in Messages /\ topicCount[t] \in Nat
            /\ \A s \in Topics : \A i \in 1 .. Len(store[s]) : store[s][i].id < m.id
            /\ store' = [store EXCEPT ![t] = Inserted(store[t], m)]
            /\ topicCount' = [topicCount EXCEPT ![t] = topicCount[t] + 1]
            /\ messageCount' = messageCount + 1 /\ hasBounds' = TRUE
            /\ ExtendBounds(time)
            /\ received \in Nat /\ received' = received + 1 /\ received' \in 0 .. MaxMessages
            /\ revision < MaxRevision /\ revision' = revision + 1
            /\ UNCHANGED channelTopic /\ UNCHANGED cacheVars
<1> DEFINE t == channelTopic[c]
           m == [time |-> time, id |-> received + 1]
<1>1. /\ store' = [store EXCEPT ![t] = Inserted(store[t], m)]
      /\ topicCount' = [topicCount EXCEPT ![t] = topicCount[t] + 1]
      /\ messageCount' = messageCount + 1 /\ hasBounds' = TRUE
      /\ ExtendBounds(time)
      /\ received < MaxMessages /\ received' = received + 1
      /\ revision < MaxRevision /\ revision' = revision + 1
      /\ UNCHANGED channelTopic /\ UNCHANGED cacheVars
  BY DEF Ingest
<1>2. received \in Nat /\ MaxMessages \in Nat
  BY IngestAssumption DEF WindowInv, CountersOK
<1>3. received' \in 0 .. MaxMessages /\ received + 1 \in Ids
  BY <1>1, <1>2 DEF Ids
<1>4. t \in Topics
  BY DEF WindowInv, ChannelsOK
<1>5. topicCount[t] \in Nat
  BY <1>4 DEF WindowInv, ChannelsOK
<1>6. m \in Messages
  BY <1>3 DEF Messages
<1>7. ASSUME NEW s \in Topics, NEW i \in 1 .. Len(store[s]) PROVE store[s][i].id < m.id
  <2>1. store[s][i] \in Messages /\ store[s][i].id <= received
    BY DEF WindowInv, WindowsOK
  <2>2. store[s][i].id \in Nat
    BY <2>1, MessageTypes
  <2> QED
    BY <1>2, <2>1, <2>2
<1> QED
  BY <1>1, <1>2, <1>3, <1>4, <1>5, <1>6, <1>7

\* A message changes the window of its topic to the newest, and adds one to the counts.
LEMMA IngestWindows ==
  ASSUME IInv, WindowInv, NEW c \in Channels, NEW time \in Times, Ingest(c, time),
         channelTopic[c] # NoTopic
  PROVE  /\ WindowInv'
         /\ \A s \in Topics : ToSet(store'[s]) =
              IF s = channelTopic[c]
                THEN Window!Newest(ToSet(store[s]) \cup {[time |-> time, id |-> received + 1]})
                ELSE ToSet(store[s])
<1>1. PICK t \in Topics, m \in Messages :
        /\ t = channelTopic[c] /\ m = [time |-> time, id |-> received + 1]
        /\ topicCount[t] \in Nat
        /\ \A s \in Topics : \A i \in 1 .. Len(store[s]) : store[s][i].id < m.id
        /\ store' = [store EXCEPT ![t] = Inserted(store[t], m)]
        /\ topicCount' = [topicCount EXCEPT ![t] = topicCount[t] + 1]
        /\ messageCount' = messageCount + 1 /\ hasBounds' = TRUE
        /\ ExtendBounds(time)
        /\ received \in Nat /\ received' = received + 1 /\ received' \in 0 .. MaxMessages
        /\ revision < MaxRevision /\ revision' = revision + 1
        /\ UNCHANGED channelTopic /\ UNCHANGED cacheVars
  BY IngestSteps
<1>2. m.time = time /\ m.id = received + 1
  BY <1>1
<1> DEFINE r == Inserted(store[t], m)
<1>3. /\ store \in [Topics -> Seq(Messages)]
      /\ \A s \in Topics :
           /\ Len(store[s]) <= MaxPerTopic /\ Ordered(store[s])
           /\ \A i \in 1 .. Len(store[s]) : store[s][i].id <= received
  BY DEF WindowInv, WindowsOK
<1>4. /\ r \in Seq(Messages) /\ Len(r) <= MaxPerTopic /\ Ordered(r)
      /\ ToSet(r) = Window!Newest(ToSet(store[t]) \cup {m})
  BY <1>1, <1>3, InsertedIsNewest
<1>5. /\ store'[t] = r /\ store' \in [Topics -> Seq(Messages)]
      /\ \A s \in Topics : s # t => store'[s] = store[s]
  BY <1>1, <1>3, <1>4
<1> HIDE DEF r
<1>6. \A i \in 1 .. Len(r) : r[i] = m \/ \E j \in 1 .. Len(store[t]) : r[i] = store[t][j]
  <2> SUFFICES ASSUME NEW i \in 1 .. Len(r)
               PROVE  r[i] = m \/ \E j \in 1 .. Len(store[t]) : r[i] = store[t][j]
    OBVIOUS
  <2>1. DOMAIN r = 1 .. Len(r) /\ DOMAIN store[t] = 1 .. Len(store[t])
    BY <1>3, <1>4
  <2>2. r[i] \in ToSet(r)
    BY <2>1 DEF ToSet
  <2>3. r[i] \in ToSet(store[t]) \cup {m}
    BY <1>4, <2>2 DEF Window!Newest
  <2> QED
    BY <2>1, <2>3 DEF ToSet
<1>7. WindowsOK'
  <2>1. ASSUME NEW s \in Topics
        PROVE  /\ Len(store'[s]) <= MaxPerTopic /\ Ordered(store'[s])
               /\ \A i \in 1 .. Len(store'[s]) : store'[s][i].id <= received'
    <3>1. \A i \in 1 .. Len(store[s]) : store[s][i].id <= received'
      <4> SUFFICES ASSUME NEW i \in 1 .. Len(store[s]) PROVE store[s][i].id <= received'
        OBVIOUS
      <4>1. store[s][i] \in Messages /\ store[s][i].id <= received
        BY <1>3
      <4>2. store[s][i].id \in Nat
        BY <4>1, MessageTypes
      <4> QED
        BY <1>1, <4>1, <4>2
    <3>2. CASE s # t
      BY <1>3, <1>5, <3>1, <3>2
    <3>3. CASE s = t
      <4>1. m.id <= received'
        BY <1>1, <1>2
      <4>2. \A i \in 1 .. Len(r) : r[i].id <= received'
        BY <1>6, <3>1, <3>3, <4>1
      <4> QED
        BY <1>4, <1>5, <3>3, <4>2
    <3> QED
      BY <3>2, <3>3
  <2>2. \A s \in Topics : Ordered(store[s])' <=> Ordered(store'[s])
    BY DEF Ordered
  <2> QED
    BY <1>5, <2>1, <2>2 DEF WindowsOK
<1>8. /\ topicCount \in [Topics -> Nat \cup {Unlisted}]
      /\ topicCount' \in [Topics -> Nat \cup {Unlisted}]
      /\ topicCount'[t] = topicCount[t] + 1 /\ topicCount'[t] \in Nat
      /\ \A s \in Topics : s # t => topicCount'[s] = topicCount[s]
  <2>1. topicCount \in [Topics -> Nat \cup {Unlisted}]
    BY DEF WindowInv, ChannelsOK
  <2>2. topicCount[t] + 1 \in Nat
    BY <1>1
  <2> QED
    BY <1>1, <2>1, <2>2
<1>9. ChannelsOK'
  <2>1. \A n \in Nat : n # Unlisted
    BY DEF Unlisted
  <2>2. ASSUME NEW x \in Channels, channelTopic[x] # NoTopic PROVE topicCount'[channelTopic[x]] # Unlisted
    <3>1. channelTopic[x] \in Topics /\ topicCount[channelTopic[x]] # Unlisted
      BY <2>2 DEF WindowInv, ChannelsOK
    <3> QED
      BY <1>8, <2>1, <3>1
  <2>3. channelTopic \in [Channels -> Topics \cup {NoTopic}]
    BY DEF WindowInv, ChannelsOK
  <2> QED
    BY <1>1, <1>8, <2>2, <2>3 DEF ChannelsOK
<1>10. StatsOK'
  <2>1. Total(topicCount') = Total(topicCount) + 1
    <3>1. topicCount \in [Topics -> Int] /\ topicCount' \in [Topics -> Int]
      BY <1>8 DEF Unlisted
    <3>2. Listed(topicCount', t) = Listed(topicCount, t) + 1
      BY <1>1, <1>8 DEF Listed, Unlisted
    <3>3. \A s \in Topics : s # t => Listed(topicCount', s) = Listed(topicCount, s)
      BY <1>8 DEF Listed
    <3>4. \A s \in Topics : Listed(topicCount, s) \in Int
      BY <3>1 DEF Listed
    <3>5. \A s \in Topics : Listed(topicCount', s) = Listed(topicCount, s) + (IF s = t THEN 1 ELSE 0)
      BY <3>2, <3>3, <3>4
    <3> QED
      BY <3>1, <3>5, TotalRises
  <2>2. Total(topicCount)' = Total(topicCount')
    OBVIOUS
  <2>3. messageCount = Total(topicCount) /\ messageCount \in 0 .. received
    BY DEF WindowInv, StatsOK
  <2>4. messageCount' = Total(topicCount') /\ messageCount' \in 0 .. received'
    BY <1>1, <2>1, <2>3
  <2>5. \A x \in Times : x \in Int
    BY IngestAssumption
  <2>6. start \in Int /\ end \in Int /\ time \in Int
    BY <2>5 DEF WindowInv, StatsOK
  <2>7. /\ start' = (IF hasBounds /\ start < time THEN start ELSE time)
        /\ end' = (IF hasBounds /\ end > time THEN end ELSE time)
    BY <1>1 DEF ExtendBounds
  <2>8. /\ start' \in Times \cup {0} /\ end' \in Times \cup {0}
        /\ start' <= time /\ time <= end'
        /\ hasBounds => start' <= start /\ end <= end'
    BY <2>6, <2>7 DEF WindowInv, StatsOK
  <2>9. start' \in Int /\ end' \in Int
    BY <2>5, <2>8
  <2>10. ASSUME NEW s \in Topics, NEW i \in 1 .. Len(store[s])
         PROVE  start' <= store[s][i].time /\ store[s][i].time <= end'
    <3>1. hasBounds /\ start <= store[s][i].time /\ store[s][i].time <= end
      BY DEF WindowInv, StatsOK
    <3>2. store[s][i] \in Messages
      BY <1>3
    <3>3. store[s][i].time \in Int
      BY <3>2, MessageTypes
    <3> QED
      BY <2>6, <2>8, <2>9, <3>1, <3>3
  <2>11. \A s \in Topics : \A i \in 1 .. Len(store'[s]) :
            start' <= store'[s][i].time /\ store'[s][i].time <= end'
    <3>1. \A i \in 1 .. Len(r) : start' <= r[i].time /\ r[i].time <= end'
      BY <1>2, <1>6, <2>8, <2>10
    <3> QED
      BY <1>5, <2>10, <3>1
  <2>12. hasBounds' = TRUE
    BY <1>1
  <2> QED
    BY <2>2, <2>4, <2>8, <2>11, <2>12 DEF StatsOK
<1>11. CountersOK'
  BY <1>1, CountersMove
<1>12. \A s \in Topics : ToSet(store'[s]) =
         IF s = channelTopic[c]
           THEN Window!Newest(ToSet(store[s]) \cup {[time |-> time, id |-> received + 1]})
           ELSE ToSet(store[s])
  BY <1>1, <1>4, <1>5
<1> QED
  BY <1>7, <1>9, <1>10, <1>11, <1>12 DEF WindowInv

\* A message of no known channel changes nothing that is held.
LEMMA IgnoredWindows ==
  ASSUME WindowInv, NEW c \in Channels, NEW time \in Times, Ingest(c, time), channelTopic[c] = NoTopic
  PROVE  WindowInv' /\ UNCHANGED store
<1>1. /\ UNCHANGED <<channelTopic, store, topicCount, start, end, hasBounds, messageCount>>
      /\ received < MaxMessages /\ received' = received + 1
      /\ UNCHANGED <<revision, asked, cachedRevision, answer>>
  BY DEF Ingest, windowVars, statVars, cacheVars
<1>2. WindowsOK' /\ ChannelsOK' /\ StatsOK'
  BY <1>1, WindowsStay
<1>3. received \in 0 .. MaxMessages /\ MaxMessages \in Nat
  BY IngestAssumption DEF WindowInv, CountersOK
<1>4. received' \in 0 .. MaxMessages
  BY <1>1, <1>3
<1>5. CountersOK'
  BY <1>1, <1>4 DEF WindowInv, CountersOK
<1> QED
  BY <1>1, <1>2, <1>5 DEF WindowInv

\* A question changes nothing that is held.
LEMMA AskWindows == ASSUME WindowInv, NEW q \in Queries, Ask(q) PROVE WindowInv' /\ UNCHANGED store
<1>1. /\ UNCHANGED <<channelTopic, store, topicCount, start, end, hasBounds, messageCount>>
      /\ UNCHANGED <<revision, received>>
      /\ asked < MaxQueries /\ asked' = asked + 1 /\ cachedRevision' = revision
      /\ answer'.query = q
  BY DEF Ask, windowVars, statVars
<1>2. WindowsOK' /\ ChannelsOK' /\ StatsOK'
  BY <1>1, WindowsStay
<1>3. /\ asked \in 0 .. MaxQueries /\ MaxQueries \in Nat
      /\ revision \in 0 .. MaxRevision /\ MaxRevision \in Nat /\ received \in 0 .. MaxMessages
  BY IngestAssumption DEF WindowInv, CountersOK
<1>4. asked' \in 0 .. MaxQueries /\ cachedRevision' \in -1 .. revision'
  BY <1>1, <1>3
<1>5. CountersOK'
  BY <1>1, <1>3, <1>4 DEF CountersOK
<1> QED
  BY <1>1, <1>2, <1>5 DEF WindowInv

-----------------------------------------------------------------------------
(* The windows as their specification sees them.                           *)

\* What the windows hold, as the specification of the latest window sees it.
held == [t \in Topics |-> ToSet(store[t])]

\* The windows start empty, as the specification's do.
LEMMA InitHeld == Init => Window!Init
<1> SUFFICES ASSUME Init PROVE held = [t \in Topics |-> {}]
  BY DEF Window!Init, held
<1>1. \A t \in Topics : store[t] = <<>>
  BY DEF Init
<1>2. ToSet(<<>>) = {}
  BY DEF ToSet
<1> QED
  BY <1>1, <1>2 DEF held

\* Every step keeps the windows' invariant, and is one of the latest window or none.
LEMMA StepHeld == ASSUME IInv, WindowInv, [Next]_vars PROVE WindowInv' /\ [Window!Next]_held
<1>h. \A t \in Topics : held[t] = ToSet(store[t]) /\ held'[t] = ToSet(store'[t])
  BY DEF held
<1>u. UNCHANGED store => UNCHANGED held
  BY DEF held
<1>1. CASE UNCHANGED vars
  <2>1. /\ UNCHANGED <<channelTopic, store, topicCount, start, end, hasBounds, messageCount>>
        /\ UNCHANGED <<revision, received, asked, cachedRevision, answer>>
    BY <1>1 DEF vars, windowVars, statVars, cacheVars
  <2>2. WindowsOK' /\ ChannelsOK' /\ StatsOK'
    BY <2>1, WindowsStay
  <2>3. CountersOK'
    BY <2>1 DEF WindowInv, CountersOK
  <2> QED
    BY <1>u, <2>1, <2>2, <2>3 DEF WindowInv
<1>2. CASE ResetSession
  <2>1. \A t \in Topics : store'[t] = <<>>
    BY <1>2 DEF ResetSession
  <2>2. ToSet(<<>>) = {}
    BY DEF ToSet
  <2>3. held' = [t \in Topics |-> {}]
    BY <2>1, <2>2 DEF held
  <2>4. Window!Next
    BY <2>3 DEF Window!Next, Window!StartSession, held
  <2> QED
    BY <1>2, <2>4, ResetSessionWindows
<1>3. ASSUME NEW c \in Channels, NEW t \in Topics, RegisterChannel(c, t)
      PROVE  WindowInv' /\ [Window!Next]_held
  <2>1. UNCHANGED store
    BY <1>3 DEF RegisterChannel, windowVars
  <2> QED
    BY <1>3, <1>u, <2>1, RegisterChannelWindows
<1>4. ASSUME NEW c \in Channels, NEW time \in Times, Ingest(c, time)
      PROVE  WindowInv' /\ [Window!Next]_held
  <2>1. CASE channelTopic[c] = NoTopic
    BY <1>4, <1>u, <2>1, IgnoredWindows
  <2>2. CASE channelTopic[c] # NoTopic
    <3>1. WindowInv' /\ \A s \in Topics : ToSet(store'[s]) =
            IF s = channelTopic[c]
              THEN Window!Newest(ToSet(store[s]) \cup {[time |-> time, id |-> received + 1]})
              ELSE ToSet(store[s])
      BY <1>4, <2>2, IngestWindows
    <3>2. PICK t \in Topics, m \in Messages :
            /\ t = channelTopic[c] /\ m = [time |-> time, id |-> received + 1]
            /\ \A s \in Topics : \A i \in 1 .. Len(store[s]) : store[s][i].id < m.id
      BY <1>4, <2>2, IngestSteps
    <3>3. ASSUME NEW s \in Topics, m \in held[s] PROVE FALSE
      <4>1. store[s] \in Seq(Messages)
        BY DEF WindowInv, WindowsOK
      <4>2. PICK i \in 1 .. Len(store[s]) : m = store[s][i]
        BY <1>h, <3>3, <4>1 DEF ToSet
      <4>3. m.id < m.id /\ m.id \in Nat
        BY <3>2, <4>2, MessageTypes
      <4> QED
        BY <4>3
    <3>4. held' = [held EXCEPT ![t] = Window!Newest(held[t] \cup {m})]
      <4>1. \A s \in Topics : held'[s] = IF s = t THEN Window!Newest(held[t] \cup {m}) ELSE held[s]
        BY <1>h, <3>1, <3>2
      <4>2. held = [s \in Topics |-> held[s]] /\ held' = [s \in Topics |-> held'[s]]
        BY DEF held
      <4> QED
        BY <4>1, <4>2
    <3>5. Window!Receive(t, m)
      BY <3>3, <3>4 DEF Window!Receive, held
    <3> QED
      BY <3>1, <3>5 DEF Window!Next
  <2> QED
    BY <2>1, <2>2
<1>5. ASSUME NEW q \in Queries, Ask(q) PROVE WindowInv' /\ [Window!Next]_held
  BY <1>5, <1>u, AskWindows
<1> QED
  BY <1>1, <1>2, <1>3, <1>4, <1>5 DEF Next

\* The windows, the bounds and the counts are as WindowInv describes them in every state.
THEOREM WindowInvariance == Spec => []WindowInv
<1>1. Init => IInv /\ WindowInv
  BY InitInvariance, InitWindows
<1>2. IInv /\ WindowInv /\ [Next]_vars => (IInv /\ WindowInv)'
  BY NextInvariance, StepHeld
<1> QED
  BY <1>1, <1>2, PTL DEF Spec

\* Bisecting and trimming one message at a time keeps the newest of them all.
THEOREM WindowsHoldTheLatest == Spec => HoldsTheLatest
<1>1. Init => Window!Init
  BY InitHeld
<1>2. IInv /\ WindowInv /\ [Next]_vars => [Window!Next]_held
  BY StepHeld
<1> QED
  BY <1>1, <1>2, Invariance, WindowInvariance, PTL DEF Spec, HoldsTheLatest, Window!Spec, held

\* The variables have the types declared for them.
THEOREM TypeCorrect == Spec => []TypeOK
<1>1. IInv /\ WindowInv => TypeOK
  <2> SUFFICES ASSUME IInv, WindowInv PROVE TypeOK
    OBVIOUS
  <2>1. \A t \in Topics : /\ store[t] \in Seq(Messages) /\ index[t] \in Seq(Messages)
                          /\ Len(store[t]) <= MaxPerTopic /\ Len(index[t]) <= MaxPerTopic
    BY DEF IInv, IndexMatchesStore, WindowInv, WindowsOK
  <2>2. \A k \in {"near", "series"} : Len(cache[k]) <= MaxCached
    BY DEF IInv, CachesOK, Kinds
  <2> QED
    BY <2>1, <2>2 DEF WindowInv, ChannelsOK, StatsOK, CountersOK, TypeOK
<1> QED
  BY <1>1, Invariance, WindowInvariance, PTL

\* The timeline's bounds contain what can be shown, and the counts add up.
THEOREM StatsCoverTheWindows == Spec => []StatsCoverWindows
<1>1. WindowInv => StatsCoverWindows
  <2> SUFFICES ASSUME WindowInv PROVE StatsCoverWindows
    OBVIOUS
  <2>1. ASSUME NEW t \in Topics, NEW m \in ToSet(store[t])
        PROVE  hasBounds /\ start <= m.time /\ m.time <= end
    <3>1. store[t] \in Seq(Messages)
      BY DEF WindowInv, WindowsOK
    <3>2. PICK i \in 1 .. Len(store[t]) : m = store[t][i]
      BY <3>1 DEF ToSet
    <3> QED
      BY <3>2 DEF WindowInv, StatsOK
  <2>2. messageCount = Total(topicCount)
    BY DEF WindowInv, StatsOK
  <2> QED
    BY <2>1, <2>2 DEF StatsCoverWindows, Total
<1> QED
  BY <1>1, WindowInvariance, PTL

\* What is found in a window of the store is what was asked for.
LEMMA FoundIsCurrent == ASSUME IInv, WindowInv PROVE AnswersAreCurrent
<1> SUFFICES ASSUME answer.revision = revision
             PROVE  LET q == answer.query
                        found == ToSet(store[q.topic])
                    IN IF q.kind = "near"
                         THEN /\ ToSet(answer.found) \subseteq found
                              /\ found # {} <=> Len(answer.found) = 1
                              /\ \A m \in found : Distance(answer.found[1].time, q.from) <=
                                                  Distance(m.time, q.from)
                         ELSE /\ ToSet(answer.found) =
                                   {m \in found : m.time >= q.from /\ m.time <= q.to}
                              /\ \A i, j \in DOMAIN answer.found :
                                   i < j => answer.found[i].time <= answer.found[j].time
  BY DEF AnswersAreCurrent
<1>1. answer.found = Find(answer.query)
  BY DEF IInv, CoherenceInv
<1>2. answer.query \in Queries
  <2>1. revision \in Nat
    BY DEF IInv, CoherenceInv
  <2>2. answer.revision # -1
    BY <2>1
  <2> QED
    BY <2>2 DEF WindowInv, CountersOK
<1>3. PICK q \in Queries : q = answer.query
  BY <1>2
<1>4. \A x \in Times : x \in Int
  BY IngestAssumption
<1>5. CASE q \in {Near(t, at) : t \in Topics, at \in Times}
  <2>1. PICK t \in Topics, at \in Times : q = Near(t, at)
    BY <1>5
  <2>2. q.kind = "near" /\ q.topic = t /\ q.from = at /\ at \in Int
    BY <1>4, <2>1 DEF Near
  <2>3. store[t] \in Seq(Messages) /\ Sorted(store[t])
    <3>1. store[t] \in Seq(Messages) /\ Ordered(store[t])
      BY DEF WindowInv, WindowsOK
    <3> QED
      BY <3>1, OrderedIsSorted
  <2> DEFINE s == store[t]
             f == answer.found
  <2>4. f = FindNearest(s, at)
    BY <1>1, <1>3, <2>2 DEF Find
  <2>5. DOMAIN s = 1 .. Len(s) /\ Len(s) \in Nat
    BY <2>3
  <2> HIDE DEF s, f
  <2>6. /\ ToSet(f) \subseteq ToSet(s)
        /\ ToSet(s) # {} <=> Len(f) = 1
        /\ \A m \in ToSet(s) : Distance(f[1].time, at) <= Distance(m.time, at)
    <3>1. CASE Len(s) = 0
      <4>1. f = <<>>
        BY <2>2, <2>3, <2>4, <3>1, NearestFound DEF s
      <4>2. ToSet(s) = {} /\ ToSet(<<>>) = {} /\ Len(<<>>) = 0
        BY <2>5, <3>1 DEF ToSet
      <4> QED
        BY <4>1, <4>2
    <3>2. CASE Len(s) # 0
      <4>1. PICK k : Nearest(s, at, k) /\ f = <<s[k]>>
        BY <2>2, <2>3, <2>4, <3>2, NearestFound DEF s
      <4>2. /\ k \in 1 .. Len(s)
            /\ \A i \in 1 .. Len(s) : Distance(s[k].time, at) <= Distance(s[i].time, at)
        BY <4>1 DEF Nearest
      <4>3. Len(f) = 1 /\ DOMAIN f = {1} /\ f[1] = s[k]
        BY <4>1
      <4>4. ToSet(f) = {s[k]} /\ s[k] \in ToSet(s)
        BY <2>5, <4>2, <4>3 DEF ToSet
      <4>5. \A m \in ToSet(s) : Distance(f[1].time, at) <= Distance(m.time, at)
        BY <2>5, <4>2, <4>3 DEF ToSet
      <4> QED
        BY <4>3, <4>4, <4>5
    <3> QED
      BY <3>1, <3>2
  <2> QED
    BY <1>3, <2>2, <2>6 DEF s, f
<1>6. CASE q \in {Series(t, r[1], r[2]) : t \in Topics, r \in Ranges}
  <2>1. PICK t \in Topics, r \in Ranges : q = Series(t, r[1], r[2])
    BY <1>6
  <2>2. r[1] \in Times /\ r[2] \in Times
    BY IngestAssumption
  <2>3. /\ q.kind = "series" /\ q.topic = t /\ q.from = r[1] /\ q.to = r[2]
        /\ r[1] \in Int /\ r[2] \in Int
    BY <1>4, <2>1, <2>2 DEF Series
  <2>4. store[t] \in Seq(Messages) /\ Sorted(store[t])
    <3>1. store[t] \in Seq(Messages) /\ Ordered(store[t])
      BY DEF WindowInv, WindowsOK
    <3> QED
      BY <3>1, OrderedIsSorted
  <2>5. answer.found = FindRange(store[t], r[1], r[2])
    BY <1>1, <1>3, <2>3 DEF Find
  <2>6. /\ ToSet(answer.found) = {m \in ToSet(store[t]) : m.time >= r[1] /\ m.time <= r[2]}
        /\ \A i, j \in DOMAIN answer.found :
             i < j => answer.found[i].time <= answer.found[j].time
    BY <2>3, <2>4, <2>5, RangeFound
  <2> QED
    BY <1>3, <2>3, <2>6
<1> QED
  BY <1>5, <1>6 DEF Queries

\* An answer given at the buffer's present revision is what the store holds now.
THEOREM AnswersStayCurrent == Spec => []AnswersAreCurrent
BY FoundIsCurrent, Invariance, WindowInvariance, PTL
=============================================================================
