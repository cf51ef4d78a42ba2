------------------------------- MODULE TfTree -------------------------------
(***************************************************************************)
(* The transform buffer (packages/robotscope-core/src/tf/tf-buffer.ts),    *)
(* its arithmetic (tf/transform-math.ts) and what a recorded message adds  *)
(* to it (data/transforms.ts).                                             *)
(*                                                                         *)
(* A buffer is the sequence of its edges, in the order they were first     *)
(* seen; an edge holds its samples in order of time.  Coordinates and      *)
(* quaternions are integers, so that composition is exact.  A lookup that  *)
(* finds nothing is the empty sequence, one that finds something has       *)
(* length one.                                                             *)
(***************************************************************************)
EXTENDS Integers, Sequences, FiniteSets, SequencesExt, TimeIndex

CONSTANTS
  StaleAge,   \* STALE_MS: the age of a sample that is reported
  NoFrame     \* the parent of a frame that has none

Unbounded == -1   \* maxSamplesPerEdge of a recording's buffer

-----------------------------------------------------------------------------
(* Composition.  A quaternion is <<x, y, z, w>>.                           *)

Identity == [translation |-> <<0, 0, 0>>, rotation |-> <<0, 0, 0, 1>>]

Multiply(a, b) ==
  << a[4]*b[1] + a[1]*b[4] + a[2]*b[3] - a[3]*b[2],
     a[4]*b[2] - a[1]*b[3] + a[2]*b[4] + a[3]*b[1],
     a[4]*b[3] + a[1]*b[2] - a[2]*b[1] + a[3]*b[4],
     a[4]*b[4] - a[1]*b[1] - a[2]*b[2] - a[3]*b[3] >>

Conjugate(q) == <<-q[1], -q[2], -q[3], q[4]>>

Rotate(q, v) ==
  SubSeq(Multiply(Multiply(q, <<v[1], v[2], v[3], 0>>), Conjugate(q)), 1, 3)

Apply(pose, point) ==
  [k \in 1 .. 3 |-> pose.translation[k] + Rotate(pose.rotation, point)[k]]

Compose(outer, inner) ==
  [translation |-> Apply(outer, inner.translation),
   rotation |-> Multiply(outer.rotation, inner.rotation)]

-----------------------------------------------------------------------------
(* Adding.                                                                 *)

EdgeOf(buffer, parent, child) ==
  SelectInSeq(buffer, LAMBDA e : e.parent = parent /\ e.child = child)

\* A moving sample goes after those of its time or before; a full edge drops its
\* earliest ones, whichever they are.
WithSample(samples, t, max) ==
  LET all == InsertAt(samples, Position(samples, t.time) + 1, t)
  IN IF max # Unbounded /\ Len(all) > max THEN SubSeq(all, Len(all) - max + 1, Len(all)) ELSE all

Sampled(edge, t, max) ==
  IF t.static THEN [edge EXCEPT !.static = TRUE, !.samples = <<t>>]
              ELSE [edge EXCEPT !.samples = WithSample(@, t, max)]

AddTransform(buffer, t, max) ==
  LET i == EdgeOf(buffer, t.parent, t.child)
      new == [parent |-> t.parent, child |-> t.child, static |-> t.static, samples |-> <<>>]
  IN IF i = 0 THEN Append(buffer, Sampled(new, t, max))
              ELSE [buffer EXCEPT ![i] = Sampled(@, t, max)]

\* The items of some sequences, one after the other.
Joined(s) ==
  LET upto[k \in 0 .. Len(s)] == IF k = 0 THEN <<>> ELSE upto[k - 1] \o s[k]
  IN upto[Len(s)]

ListTransforms(buffer) == Joined([k \in DOMAIN buffer |-> buffer[k].samples])

\* A buffer without a bound, filled by transforms.
Buffered(transforms) ==
  LET after[k \in 0 .. Len(transforms)] ==
        IF k = 0 THEN <<>> ELSE AddTransform(after[k - 1], transforms[k], Unbounded)
  IN after[Len(transforms)]

\* importTransforms, of some buffers into a new one.
Import(others) == Buffered(Joined([n \in DOMAIN others |-> ListTransforms(others[n])]))

\* The topics that isTfTopic accepts: these two, and any name that ends in /tf.
TfTopics == {"/tf", "/tf_static", "/robot/tf"}

IsTransformChannel(channel) ==
  channel.schema = "Transform" \/ (channel.topic \in TfTopics /\ channel.schema = "TFMessage")

\* storedTransforms: a static transform is stored at time 0.  A ROS topic is
\* static by its name, a JSON transform by what it says.
StoredTransforms(channel, transforms, time) ==
  LET Static(t) == IF channel.schema = "Transform" THEN t.static
                   ELSE channel.topic = "/tf_static"
  IN [k \in DOMAIN transforms |->
       [parent |-> transforms[k].parent, child |-> transforms[k].child,
        translation |-> transforms[k].translation, rotation |-> transforms[k].rotation,
        static |-> Static(transforms[k]),
        time |-> IF Static(transforms[k]) THEN 0 ELSE time]]

-----------------------------------------------------------------------------
(* Lookups.                                                                *)

LookupEdge(edge, time) ==
  LET n == IF edge.static THEN 1 ELSE Position(edge.samples, time)
  IN IF n = 0 THEN <<>> ELSE SubSeq(edge.samples, n, n)

\* lookupTransform; a frame is at the origin of itself.
LookupTransform(buffer, parent, child, time) ==
  LET i == EdgeOf(buffer, parent, child) IN
  IF parent = child
    THEN <<[parent |-> parent, child |-> child, translation |-> Identity.translation,
            rotation |-> Identity.rotation, time |-> time, static |-> TRUE]>>
    ELSE IF i = 0 THEN <<>> ELSE LookupEdge(buffer[i], time)

\* The frames of some edges, and the node of one: the last edge to a frame names its
\* parent.
FramesOf(edges) == UNION {{edges[i].parent, edges[i].child} : i \in DOMAIN edges}

ChildrenOf(edges, f) == {e.child : e \in {d \in ToSet(edges) : d.parent = f}}

Node(edges, f, time) ==
  LET i == SelectLastInSeq(edges, LAMBDA e : e.child = f)
      update == LookupEdge(edges[i], time)[1].time
  IN IF i = 0
       THEN [parent |-> NoFrame, children |-> ChildrenOf(edges, f), static |-> FALSE,
             update |-> -1, age |-> 0]
       ELSE [parent |-> edges[i].parent, children |-> ChildrenOf(edges, f),
             static |-> edges[i].static, update |-> update,
             age |-> IF update > time THEN 0 ELSE time - update]

TreeOf(edges, time) == [f \in FramesOf(edges) |-> Node(edges, f, time)]

\* getSnapshot: the tree of the edges that have a sample at that time.
Snapshot(buffer, time) ==
  TreeOf(SelectSeq(buffer, LAMBDA e : LookupEdge(e, time) # <<>>), time)

\* The frames walked from source towards fixed; Lost ends a walk that has no
\* further parent or has come to a frame a second time.
Lost == "no way to the fixed frame"

Way(tree, source, fixed) ==
  LET frames == DOMAIN tree \cup {source}
      Walk[at \in frames, seen \in SUBSET frames] ==
        IF at = fixed THEN <<>>
        ELSE IF at \in seen \/ at \notin DOMAIN tree THEN <<Lost>>
        ELSE IF tree[at].parent = NoFrame THEN <<Lost>>
        ELSE <<at>> \o Walk[tree[at].parent, seen \cup {at}]
  IN Walk[source, {}]

\* The pose of the first frame of a way: the transforms along it are composed.
PoseOf(t) == [translation |-> t.translation, rotation |-> t.rotation]

AlongWay(buffer, tree, way, time) ==
  LET Along(pose, frame) ==
        Compose(PoseOf(LookupTransform(buffer, tree[frame].parent, frame, time)[1]), pose)
  IN IF Lost \in ToSet(way) THEN <<>> ELSE <<FoldLeft(Along, Identity, way)>>

InTree(buffer, tree, source, fixed, time) ==
  AlongWay(buffer, tree, Way(tree, source, fixed), time)

\* lookupTransformToFixed
ToFixed(buffer, source, fixed, time) ==
  InTree(buffer, Snapshot(buffer, time), source, fixed, time)

\* getFramePositionsInFixed: the frames that have a pose.
Placed(poses) == [f \in {g \in DOMAIN poses : poses[g] # <<>>} |-> poses[f][1]]

FramePositions(buffer, fixed, time) ==
  LET tree == Snapshot(buffer, time)
  IN Placed([f \in DOMAIN tree |-> InTree(buffer, tree, f, fixed, time)])

\* detectIssues: what the health panel reports of a snapshot.
Issues(tree, fixed) ==
  LET frames == DOMAIN tree IN
  {[code |-> "missing_edge", frame |-> f] : f \in {fixed} \ frames} \cup
  {[code |-> "stale_transform", frame |-> f] :
     f \in {g \in frames : ~tree[g].static /\ tree[g].age > StaleAge}} \cup
  (IF frames = {} THEN {[code |-> "missing_edge", frame |-> "tf"]} ELSE {})
=============================================================================
