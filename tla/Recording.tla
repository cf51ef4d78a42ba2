------------------------------ MODULE Recording ------------------------------
(***************************************************************************)
(* Recordings: how an MCAP file, a rosbag2 database and a rosbag2 folder   *)
(* are indexed (packages/robotscope-core/src/ingest/), what a sidecar      *)
(* keeps of an index (storage/sidecar.ts), how the engines answer queries  *)
(* (mcap-query-engine.ts, rosbag2-query-engine.ts), and what the live      *)
(* recorder writes (live/recorder.ts).                                     *)
(*                                                                         *)
(* A file has parts, the databases of a folder or else one; a part has     *)
(* channels and rows.  Stamps are exact; Number rounds them the way a      *)
(* double does.  Engines never change, so their caches of answers are left *)
(* out.  A lookup that finds nothing is the empty sequence.                *)
(***************************************************************************)
EXTENDS TfTree, FiniteSetsExt, TLC

CONSTANTS
  Grain,      \* numbers this large are multiples of it: 256 for stamps of today
  Shift,      \* FILE_INDEX_SHIFT: more than there are rows in a part
  NoBlob,     \* the data of a row that holds no blob
  Garbled,    \* a payload that cannot be decoded
  NoManifest  \* the absent sidecar

ASSUME GrainAssumption == Grain \in Nat \ {0}
ASSUME ShiftAssumption == Shift \in Nat \ {0}

NoRef == -1   \* an entry without a sequence number

\* Number(stamp): to the nearest multiple of Grain, to the even one of two.
Number(stamp) ==
  LET low == Grain * (stamp \div Grain)
      rest == 2 * (stamp - low)
  IN IF rest < Grain \/ (rest = Grain /\ (low \div Grain) % 2 = 0) THEN low ELSE low + Grain

Stamped(s, r) == InsertAt(s, Cardinality({k \in DOMAIN s : s[k].stamp <= r.stamp}) + 1, r)

ByStamp(rows) ==
  LET sorted[i \in 0 .. Len(rows)] == IF i = 0 THEN <<>> ELSE Stamped(sorted[i - 1], rows[i])
  IN sorted[Len(rows)]

ChannelOf(part, row) == Keeping(part.channels, {c \in ToSet(part.channels) : c.id = row.channel})

\* A payload is decoded by the schema of its topic.
Decode(schema, value) ==
  IF value = Garbled THEN <<>> ELSE IF value.schema = schema THEN <<value>> ELSE <<>>

-----------------------------------------------------------------------------
(* The time index of a recording's topics.                                 *)

Entries(index, topic) == IF topic \in DOMAIN index THEN index[topic].entries ELSE <<>>

Register(index, c) ==
  [t \in DOMAIN index \cup {c.topic} |->
     IF t = c.topic THEN [channel |-> c.id, schema |-> c.schema, entries |-> Entries(index, t)]
                    ELSE index[t]]

AddEntry(index, c, entry) ==
  [Register(index, c) EXCEPT ![c.topic].entries = Append(@, entry)]

\* Entries in order of time.
InTime(entries) ==
  LET sorted[k \in 0 .. Len(entries)] ==
        IF k = 0 THEN <<>>
        ELSE InsertAt(sorted[k - 1], Position(sorted[k - 1], entries[k].time) + 1, entries[k])
  IN sorted[Len(entries)]

Finalize(index) == [t \in DOMAIN index |-> [index[t] EXCEPT !.entries = InTime(@)]]

StorageId(fileIndex, id) == fileIndex * Shift + id

\* The rows that an indexer reads: all of an MCAP file, the blobs of a database.
Readable(part) == Keeping(ByStamp(part.rows), {r \in ToSet(part.rows) : r.value # NoBlob})

\* indexMcapMessages and indexRosbag2Messages: the index of one part.  A row whose
\* channel is unknown is skipped.
EntryOf(fileIndex, r) == [time |-> Number(r.stamp), ref |-> StorageId(fileIndex, r.id)]

IndexRow(index, part, r, fileIndex) ==
  LET c == ChannelOf(part, r)
  IN IF c = <<>> THEN index ELSE AddEntry(index, c[1], EntryOf(fileIndex, r))

IndexPart(part, fileIndex) ==
  LET rows == Readable(part)
      n == Len(part.channels)
      after[k \in 0 .. n + Len(rows)] ==
        IF k = 0 THEN <<>>
        ELSE IF k <= n THEN Register(after[k - 1], part.channels[k])
        ELSE IndexRow(after[k - 1], part, rows[k - n], fileIndex)
  IN after[n + Len(rows)]

\* A database's indexers know the transforms of ROS alone.
HasTransforms(c, source) ==
  IsTransformChannel(c) /\ (source = "rosbag2" => c.schema = "TFMessage")

\* The transforms of one part, in the order they are read.
RowTransforms(part, r, source) ==
  LET c == ChannelOf(part, r) IN
  IF c = <<>> THEN <<>>
  ELSE IF ~HasTransforms(c[1], source) \/ Decode(c[1].schema, r.value) = <<>> THEN <<>>
  ELSE StoredTransforms(c[1], r.value.transforms, Number(r.stamp))

PartTransforms(part, source) ==
  LET rows == Readable(part)
  IN Joined([k \in DOMAIN rows |-> RowTransforms(part, rows[k], source)])

\* Those of all parts.
TransformsOf(parts, source) ==
  Joined([n \in DOMAIN parts |-> PartTransforms(parts[n], source)])

\* indexRosbag2FolderMessages: every part is indexed on its own, and merged.
MergeIndex(index, own) ==
  [t \in DOMAIN index \cup DOMAIN own |->
     IF t \notin DOMAIN own THEN index[t]
     ELSE [own[t] EXCEPT !.entries = Entries(index, t) \o own[t].entries]]

IndexParts(parts) ==
  LET merged[n \in 0 .. Len(parts)] ==
        IF n = 0 THEN <<>>
        ELSE MergeIndex(merged[n - 1], Finalize(IndexPart(parts[n], n - 1)))
  IN Finalize(merged[Len(parts)])

\* indexRosbag2FolderMessages: each part's buffer is imported into one.
MergedBuffer(parts) ==
  Import([n \in DOMAIN parts |-> Buffered(PartTransforms(parts[n], "rosbag2"))])

\* indexTfFromMcap: the transforms alone.
McapTfOnly(part) == Buffered(PartTransforms(part, "mcap"))

\* indexRosbag2TfOnly and indexRosbag2FolderTfOnly: one buffer is filled by every part.
BagTfOnly(parts) == Buffered(TransformsOf(parts, "rosbag2"))

-----------------------------------------------------------------------------
(* Files.                                                                  *)

Stamps(part) == {part.rows[k].stamp : k \in DOMAIN part.rows}

PartBounds(part) ==
  IF part.rows = <<>> THEN <<0, 0>> ELSE <<Number(Min(Stamps(part))), Number(Max(Stamps(part)))>>

\* rosbag2FolderTimeBounds: a part whose bounds are zero does not count.
Bounds(parts) ==
  LET counted == {n \in DOMAIN parts : PartBounds(parts[n]) # <<0, 0>>} IN
  IF counted = {} THEN <<0, 0>>
  ELSE <<Min({PartBounds(parts[n])[1] : n \in counted}),
         Max({PartBounds(parts[n])[2] : n \in counted})>>

\* collectTopics: the topics of a session with their schemas.
SessionTopics(parts) ==
  UNION {{[topic |-> c.topic, schema |-> c.schema, metadata |-> c.metadata] :
            c \in ToSet(parts[n].channels)} : n \in DOMAIN parts}

\* resolveRosbag2FolderFiles: the listed databases are found by name, and the last
\* of two that share one is taken.  An empty result stands for the error.
Resolve(file) ==
  LET Found(name) == SelectLastInSeq(file.names, LAMBDA n : n = name) IN
  IF file.format # "folder" THEN file.parts
  ELSE IF \E k \in DOMAIN file.listed : Found(file.listed[k]) = 0 THEN <<>>
  ELSE [k \in DOMAIN file.listed |-> file.parts[Found(file.listed[k])]]

Fingerprint(file) == [name |-> file.name, size |-> file.size, mtime |-> file.mtime]

-----------------------------------------------------------------------------
(* Sidecars.                                                               *)

NoTime == -1   \* last_modified_ms of a fingerprint that has none

\* sidecarFromTopicIndex
SidecarOf(index, bounds, source, fingerprint) ==
  [source |-> source, fingerprint |-> fingerprint, start |-> bounds[1], end |-> bounds[2],
   topics |-> index]

\* Faulty variant: the size of the file is not compared.
ValidByName(sidecar, fingerprint) == sidecar.fingerprint.name = fingerprint.name

\* validateSidecarFingerprint
Valid(sidecar, fingerprint) ==
  /\ sidecar.fingerprint.name = fingerprint.name
  /\ sidecar.fingerprint.size = fingerprint.size
  /\ NoTime \in {sidecar.fingerprint.mtime, fingerprint.mtime} \/
     sidecar.fingerprint.mtime = fingerprint.mtime

\* parseSidecarManifest: what is refused is the absent sidecar.
Parse(sidecar) ==
  LET Ordered(entries) ==
        \A i, j \in DOMAIN entries : i < j => entries[i].time <= entries[j].time
  IN IF sidecar = NoManifest THEN NoManifest
     ELSE IF /\ sidecar.start <= sidecar.end
             /\ \A t \in DOMAIN sidecar.topics : Ordered(sidecar.topics[t].entries)
       THEN sidecar ELSE NoManifest

\* The key of a sidecar in the browser's database.
CacheKey(fingerprint) ==
  <<fingerprint.name, fingerprint.size, IF fingerprint.mtime = NoTime THEN 0 ELSE fingerprint.mtime>>

\* loadSidecarFromCache
Load(db, fingerprint) ==
  IF CacheKey(fingerprint) \in DOMAIN db THEN Parse(db[CacheKey(fingerprint)])
                                         ELSE NoManifest

\* saveSidecarToCache
Save(db, fingerprint, sidecar) == (CacheKey(fingerprint) :> sidecar) @@ db

\* Whether an engine of that source takes a sidecar.  A recorder's has no source,
\* which an MCAP engine accepts.
Usable(sidecar, file, source) ==
  /\ sidecar # NoManifest
  /\ Valid(sidecar, Fingerprint(file))
  /\ sidecar.source = source \/ (source = "mcap" /\ sidecar.source = "none")

-----------------------------------------------------------------------------
(* Engines.                                                                *)

Source(file) == IF file.format = "mcap" THEN "mcap" ELSE "rosbag2"

\* openMcap with the engine's constructor.
McapEngine(file, cached, sidecar) ==
  LET part == file.parts[1] IN
  [file |-> file.id, source |-> "mcap", parts |-> file.parts, sidecar |-> cached,
   start |-> PartBounds(part)[1], end |-> PartBounds(part)[2],
   topics |-> SessionTopics(file.parts),
   index |-> IF cached THEN sidecar.topics ELSE Finalize(IndexPart(part, 0)),
   tf |-> IF cached THEN McapTfOnly(part) ELSE Buffered(PartTransforms(part, "mcap"))]

\* openRosbag2 and openRosbag2Folder with buildRosbag2Handle: an index is merged, and
\* so is the buffer, of the parts of a folder that has no usable sidecar.
BagEngine(file, parts, cached, sidecar) ==
  [file |-> file.id, source |-> "rosbag2", parts |-> parts, sidecar |-> cached,
   start |-> Bounds(parts)[1], end |-> Bounds(parts)[2],
   topics |-> SessionTopics(parts),
   index |-> IF cached THEN sidecar.topics
             ELSE IF Len(parts) = 1 THEN Finalize(IndexPart(parts[1], 0))
             ELSE IndexParts(parts),
   tf |-> IF cached \/ Len(parts) = 1 THEN BagTfOnly(parts) ELSE MergedBuffer(parts)]

EngineOf(file, sidecar) ==
  LET cached == Usable(sidecar, file, Source(file)) IN
  IF Source(file) = "mcap" THEN McapEngine(file, cached, sidecar)
                           ELSE BagEngine(file, Resolve(file), cached, sidecar)

\* getSidecarManifest
ManifestOf(engine, fingerprint) ==
  SidecarOf(engine.index, <<engine.start, engine.end>>, engine.source, fingerprint)

\* The schema an engine decodes a topic by: its first channel's in an MCAP file, the
\* session's in a rosbag2 engine.
McapSchema(engine, topic) ==
  LET c == SelectSeq(engine.parts[1].channels, LAMBDA d : d.topic = topic)
  IN [k \in DOMAIN c |-> c[k].schema]

BagSchema(engine, topic) ==
  SetToSeq({d.schema : d \in {e \in engine.topics : e.topic = topic}})

Message(topic, schema, time, value) ==
  [topic |-> topic, schema |-> schema, time |-> time, decoded |-> Decode(schema, value)]

\* The rows of a topic of an MCAP file between two stamps, in order of stamp.
McapRows(engine, topic, from, to) ==
  LET part == engine.parts[1] IN
  Keeping(ByStamp(part.rows),
          {r \in ToSet(part.rows) : /\ r.stamp >= from /\ r.stamp <= to
                                    /\ \E c \in ToSet(ChannelOf(part, r)) : c.topic = topic})

\* messagePayloads of a rosbag2 engine, by storage id.
Payload(engine, ref) ==
  LET all == engine.parts[ref \div Shift + 1].rows
      rows == Keeping(all, {r \in ToSet(all) : r.id = ref % Shift /\ r.value # NoBlob})
  IN IF rows = <<>> THEN <<>> ELSE <<rows[1].value>>

\* getRawMessageNearTime of an MCAP engine: the file is read again, between the
\* rounded stamp and one nanosecond later.
McapMessage(engine, topic, row) ==
  Message(topic, McapSchema(engine, topic)[1], Number(row.stamp), row.value)

McapMessageNear(engine, topic, time) ==
  LET near == FindNearest(Entries(engine.index, topic), time)
      rows == McapRows(engine, topic, near[1].time, near[1].time + 1)
  IN IF near = <<>> THEN <<>>
     ELSE [k \in 1 .. (IF rows = <<>> THEN 0 ELSE 1) |-> McapMessage(engine, topic, rows[1])]

\* getRawMessageNearTime of a rosbag2 engine: the payload was kept by storage id.
BagMessage(topic, schemas, time, value) ==
  IF value = <<>> \/ schemas = <<>> THEN <<>> ELSE <<Message(topic, schemas[1], time, value[1])>>

BagMessageNear(engine, topic, time) ==
  LET near == FindNearest(Entries(engine.index, topic), time)
  IN IF near = <<>> THEN <<>>
     ELSE BagMessage(topic, BagSchema(engine, topic), near[1].time, Payload(engine, near[1].ref))

MessageNear(engine, topic, time) ==
  IF engine.source = "mcap" THEN McapMessageNear(engine, topic, time)
                            ELSE BagMessageNear(engine, topic, time)

NumberAt(decoded, field) ==
  IF decoded = <<>> THEN <<>>
  ELSE IF field \in DOMAIN decoded[1] THEN <<decoded[1][field]>> ELSE <<>>

\* The point of a message, when its field holds a number.
Point(schema, field, time, value) ==
  LET v == NumberAt(Decode(schema, value), field)
  IN IF v = <<>> THEN <<>> ELSE <<[t |-> time, v |-> v[1]]>>

\* getNumericSeries, before it is thinned out: the points of a field in a range, read
\* again from an MCAP file, taken from the index of a rosbag2 engine.
McapSeries(engine, topic, field, from, to) ==
  IF McapSchema(engine, topic) = <<>> THEN <<>>
  ELSE FoldLeft(LAMBDA s, r :
                  s \o Point(McapSchema(engine, topic)[1], field, Number(r.stamp), r.value),
                <<>>, McapRows(engine, topic, from, to))

BagSeries(engine, topic, field, from, to) ==
  LET schema == BagSchema(engine, topic)
      OfEntry(e) == IF e.time < from \/ e.time > to \/ Payload(engine, e.ref) = <<>> THEN <<>>
                    ELSE Point(schema[1], field, e.time, Payload(engine, e.ref)[1])
  IN IF schema = <<>> THEN <<>>
     ELSE FoldLeft(LAMBDA s, e : s \o OfEntry(e), <<>>, Entries(engine.index, topic))

SeriesOf(engine, topic, field, from, to) ==
  IF engine.source = "mcap" THEN McapSeries(engine, topic, field, from, to)
                            ELSE BagSeries(engine, topic, field, from, to)

-----------------------------------------------------------------------------
(* The live recorder.                                                      *)

NewRecorder == [channels |-> <<>>, rows |-> <<>>, index |-> <<>>, ids |-> <<>>]

\* registerChannel: a channel of the agent gets the file's next number, once.
RecordChannel(rec, c) ==
  LET own == [id |-> Len(rec.channels) + 1, topic |-> c.topic, schema |-> c.schema,
              metadata |-> c.metadata]
  IN IF c.id \in DOMAIN rec.ids THEN rec
     ELSE [rec EXCEPT !.channels = Append(@, own), !.ids = (c.id :> own) @@ @,
                      !.index = Register(@, own)]

\* writeMessage: a message of a channel that is not registered is dropped.
RecordMessage(rec, m) ==
  IF m.channel \notin DOMAIN rec.ids THEN rec
  ELSE LET own == rec.ids[m.channel] IN
       [rec EXCEPT !.rows = Append(@, [id |-> Len(@) + 1, channel |-> own.id,
                                       stamp |-> m.time, value |-> m.value]),
                   !.index = AddEntry(@, own, [time |-> m.time, ref |-> NoRef])]

\* finish: the file that is downloaded, and its sidecar.
Recorded(rec, name, mtime) ==
  LET part == [channels |-> rec.channels, rows |-> rec.rows]
      file == [id |-> name, name |-> name, size |-> Len(rec.rows), mtime |-> mtime,
               format |-> "mcap", parts |-> <<part>>]
  IN [file |-> file,
      sidecar |-> SidecarOf(Finalize(rec.index), PartBounds(part), "none",
                            [Fingerprint(file) EXCEPT !.mtime = NoTime])]
=============================================================================
