------------------------------ MODULE MCPlayback ------------------------------
(* A small instance of Playback for TLC: six recordings, of every format. *)
EXTENDS Playback

NoMeta == [path |-> <<>>, archetype |-> "none", kind |-> "none"]
Ch(id, topic, schema) == [id |-> id, topic |-> topic, schema |-> schema, metadata |-> NoMeta]
Row(id, channel, stamp, value) == [id |-> id, channel |-> channel, stamp |-> stamp, value |-> value]
Edge(parent, child, translation, rotation) ==
  [parent |-> parent, child |-> child, translation |-> translation, rotation |-> rotation, static |-> FALSE]
Tf(edges)      == [schema |-> "TFMessage", transforms |-> edges]
Line(n, x)     == [schema |-> "Path", frame |-> "odom", points |-> [k \in 1 .. n |-> <<k * x, 0, 0>>]]
Float(x)       == [schema |-> "Float32", data |-> x]
Seen(objects)  == [schema |-> "DetectedObjects", objects |-> objects]
JsonPose(x)    == [schema |-> "Pose", frame |-> "base_link", stamp |-> x,
                   pose |-> [translation |-> <<x, 0, 0>>, rotation |-> <<0, 0, 1, 0>>]]
Grid(cells)    == [schema |-> "OccupancyGrid", frame |-> "map", pose |-> Identity, cells |-> cells]
Straight == <<0, 0, 0, 1>>
About    == <<0, 0, 1, 0>>

\* An autoware run with both maps: the score drops at 4, 12 and 20, the object
\* appears at 24.
RunChannels == <<
  Ch(1, "/tf", "TFMessage"), Ch(2, "/tf_static", "TFMessage"),
  Ch(3, "/perception/object_recognition/objects", "DetectedObjects"),
  Ch(4, "/planning/trajectory", "Path"),
  [Ch(5, "/ego/pose", "Pose") EXCEPT !.metadata =
     [path |-> <<"robot", "ego", "pose">>, archetype |-> "Pose", kind |-> "robot"]],
  Ch(6, "/localization/pose_estimator/ndt_score", "Float32"),
  Ch(7, "/map/map", "OccupancyGrid"), Ch(8, "/map/vector_map", "LaneletMapBin") >>

RunRows == <<
  Row(1, 2, 4, Tf(<<Edge("odom", "base_link", <<1, 0, 0>>, About)>>)),
  Row(2, 7, 4, Grid(<<0, 0>>)), Row(3, 8, 4, [schema |-> "LaneletMapBin", bytes |-> 3]),
  Row(4, 6, 4, Float(100)), Row(5, 4, 4, Line(2, 10)), Row(6, 3, 4, Seen(<<>>)),
  Row(7, 5, 6, JsonPose(3)), Row(8, 6, 8, Float(300)),
  Row(9, 1, 8, Tf(<<Edge("map", "odom", <<5, 0, 0>>, Straight)>>)),
  Row(10, 6, 12, Float(100)), Row(11, 6, 16, Float(300)),
  Row(13, 6, 20, Float(100)), Row(12, 1, 16, Tf(<<Edge("map", "odom", <<0, 7, 0>>, About)>>)),
  Row(14, 3, 20, Seen(<<>>)), Row(15, 6, 24, Float(300)), Row(16, 3, 24, Seen(<<90>>)),
  Row(17, 5, 24, Garbled) >>

Mcap(id, name, size, mtime, channels, rows) ==
  [id |-> id, name |-> name, size |-> size, mtime |-> mtime, format |-> "mcap",
   parts |-> <<[channels |-> channels, rows |-> rows]>>]

Run   == Mcap("run", "run.mcap", 17, 1, RunChannels, RunRows)
\* The same name, another recording: no maps, so that it drifts all along, and a
\* stamp that a double rounds to 8.
Rerun == Mcap("rerun", "run.mcap", 3, 2, <<RunChannels[1], RunChannels[6]>>,
              <<Row(1, 6, 4, Float(300)), Row(2, 6, 7, Float(100)),
                Row(3, 1, 10, Tf(<<Edge("map", "odom", <<2, 0, 0>>, Straight)>>))>>)
\* What the live recorder writes of an agent's messages; one has no channel.
Said == << [channel |-> 7, time |-> 6, value |-> [schema |-> "JointState", velocity |-> <<300, -20>>]],
           [channel |-> 8, time |-> 6, value |-> Float(1)],
           [channel |-> 9, time |-> 8, value |-> Line(2, 40)],
           [channel |-> 7, time |-> 14, value |-> [schema |-> "JointState", position |-> <<5>>]] >>
Live == Recorded(FoldLeft(RecordMessage,
                   FoldLeft(RecordChannel, NewRecorder,
                            <<Ch(7, "/joint_states", "JointState"), Ch(9, "/display_planned_path", "Path"),
                              Ch(7, "/joint_states", "JointState")>>), Said),
                 "live.mcap", 3)

Bag == [id |-> "bag", name |-> "bag.db3", size |-> 6, mtime |-> 1, format |-> "db3",
  parts |-> <<[channels |-> <<Ch(1, "/cmd_vel", "Twist"), Ch(2, "/local_plan", "Path"),
                              Ch(3, "/goal_pose", "PoseStamped")>>,
               rows |-> <<Row(1, 1, 5, [schema |-> "Twist", linear_x |-> 0]), Row(2, 2, 7, Line(3, 5)),
                          Row(3, 1, 9, NoBlob),
                          Row(4, 1, 11, [schema |-> "Twist", linear_x |-> 50]),
                          Row(5, 2, 12, Line(3, 50)),
                          Row(6, 4, 12, Float(1))>>]>>]

\* With both maps and nothing amiss; the parts are not given in the order listed.
Part1 == [channels |-> <<Ch(1, "/tf", "TFMessage"), Ch(2, "/points", "PointCloud2"), RunChannels[7], RunChannels[8]>>,
          rows |-> <<Row(1, 1, 4, Tf(<<Edge("map", "base_link", <<1, 0, 0>>, About)>>)),
                     RunRows[2], RunRows[3],
                     Row(4, 2, 6, [schema |-> "PointCloud2", frame |-> "base_link", points |-> <<<<1, 2, 3>>>>])>>]
Part2 == [channels |-> <<Ch(1, "/points", "PointCloud2"), Ch(2, "/tf", "TFMessage"), Ch(3, "/rear/points", "Path")>>,
          rows |-> <<Row(1, 1, 8, [schema |-> "PointCloud2", frame |-> "lidar", points |-> <<<<0, 0, 1>>>>]),
                     Row(2, 2, 8, Tf(<<Edge("base_link", "lidar", <<0, 0, 2>>, Straight)>>))>>]
Folder == [id |-> "folder", name |-> "metadata.yaml", size |-> 9, mtime |-> 5, format |-> "folder",
           listed |-> <<"a_0.db3", "a_1.db3">>, names |-> <<"a_1.db3", "a_0.db3">>, parts |-> <<Part2, Part1>>]
Broken == [Folder EXCEPT !.id = "broken", !.size = 5, !.names = <<"a_1.db3", "b_0.db3">>]

MCFiles == [run |-> Run, rerun |-> Rerun, live |-> [Live.file EXCEPT !.id = "live"], bag |-> Bag,
            folder |-> Folder, broken |-> Broken]

SidecarFor(file) == ManifestOf(EngineOf(file, NoManifest), Fingerprint(file))

MCOpenings ==
  {[file |-> "rerun", given |-> SidecarFor(Run)], [file |-> "live", given |-> Live.sidecar]} \cup
  {[file |-> f, given |-> NoManifest] : f \in {"run", "bag", "folder", "broken"}}

MCCaches == {FoldLeft(LAMBDA c, file : Save(c, Fingerprint(file), SidecarFor(file)), <<>>, <<Run, Folder>>)}
MCRequests == {"phantom_obstacle_stop"}
MCExplored == {"run", "live"}
MCCorrupt == {"rerun", "live"}
MCFrames == {"map", "odom"}
MCSeeks == {3}
===============================================================================
