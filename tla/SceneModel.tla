------------------------------ MODULE SceneModel ------------------------------
(***************************************************************************)
(* What the viewer makes of a recording at one time: the entity a topic    *)
(* stands for (packages/robotscope-core/src/mapping/entity-mapper.ts), the *)
(* entities of a query (entity-filter.ts, entity-materializer.ts) and the  *)
(* scene in the fixed frame (scene/scene-builder.ts, ros2/pose.ts,         *)
(* ros2/trajectory.ts).                                                    *)
(*                                                                         *)
(* A rule's topic pattern is the set of the names it accepts among those   *)
(* the models use, one or two of each form; its schema pattern likewise,   *)
(* and no pattern is the empty set.  A path is the sequence of its parts.  *)
(* The lists of mapped topics are in the order of their paths in the code  *)
(* and sets here.                                                          *)
(***************************************************************************)
EXTENDS Recording

Kinds == {"world", "robot", "sensor", "policy", "world_model", "annotation", "system"}

\* The schemas of RobotScope's own JSON messages, with the archetype of each.
JsonTypes ==
  [Scalar |-> "Observation", Pose |-> "Pose", Observation |-> "Observation",
   Image |-> "Image", PointCloud |-> "PointCloud", Trajectory |-> "Trajectory",
   Transform |-> "TF"]

Rule(id, topics, schemas, path, archetype, kind) ==
  [id |-> id, topics |-> topics, schemas |-> schemas, path |-> path,
   archetype |-> archetype, kind |-> kind]

\* The first rule that fits decides.  The path of a sensor ends in its topic.
Rules == <<
  Rule("tf.dynamic", {"/tf"}, {"TFMessage"}, <<"system", "tf">>, "TF", "system"),
  Rule("tf.static", {"/tf_static"}, {"TFMessage"}, <<"system", "tf_static">>, "TF", "system"),
  Rule("localization.odometry",
       {"/localization/kinematic_state", "/localization/pose", "/localization/pose_with_covariance"},
       {"Odometry"}, <<"robot", "ego", "localization", "pose">>, "Pose", "robot"),
  Rule("planning.trajectory", {"/planning/trajectory", "/planning/scenario_planning/trajectory"},
       {"AutowareTrajectory", "Path", "JointTrajectory", "Trajectory"},
       <<"robot", "ego", "planning", "trajectory">>, "Trajectory", "robot"),
  Rule("localization.ndt_score",
       {"/localization/pose_estimator/ndt_score", "/localization/pose_estimator/scan_matching_score"},
       {"Float32"}, <<"robot", "ego", "localization", "ndt_score">>, "Observation", "robot"),
  Rule("nav2.amcl_pose", {"/amcl_pose"}, {"PoseWithCovarianceStamped"},
       <<"robot", "ego", "localization", "amcl_pose">>, "Pose", "robot"),
  Rule("nav2.global_plan", {"/plan", "/received_global_plan"}, {"Path"},
       <<"robot", "ego", "nav2", "global_plan">>, "Trajectory", "robot"),
  Rule("nav2.local_plan", {"/local_plan", "/transformed_global_plan"}, {"Path"},
       <<"robot", "ego", "nav2", "local_plan">>, "Trajectory", "robot"),
  Rule("nav2.goal", {"/goal_pose"}, {"PoseStamped"},
       <<"robot", "ego", "nav2", "goal">>, "Pose", "robot"),
  Rule("nav2.cmd_vel", {"/cmd_vel"}, {"Twist"},
       <<"robot", "ego", "control", "command">>, "Action", "robot"),
  Rule("moveit.joint_states", {"/joint_states"}, {"JointState"},
       <<"robot", "ego", "manipulator", "joint_states">>, "HumanoidState", "robot"),
  Rule("moveit.display_trajectory",
       {"/display_planned_path", "/trajectory_execution/display_planned_path"},
       {"Path", "JointTrajectory"},
       <<"robot", "ego", "manipulator", "planned_trajectory">>, "Trajectory", "robot"),
  Rule("control.command", {"/control/command/control_cmd"}, {},
       <<"robot", "ego", "control", "command">>, "Action", "robot"),
  Rule("perception.objects",
       {"/perception/object_recognition/objects", "/perception/object_recognition/tracking/objects"},
       {"DetectedObjects", "PredictedObjects"}, <<"world", "objects">>, "Detection", "world"),
  Rule("sensor.pointcloud", {"/lidar/points", "/points"}, {"PointCloud2"},
       <<"robot", "ego", "sensors">>, "PointCloud", "sensor"),
  Rule("sensor.image", {"/camera/image", "/camera/image_raw", "/camera/image_compressed"},
       {"CompressedImage", "RosImage", "Image"}, <<"robot", "ego", "sensors">>, "Image", "sensor"),
  Rule("map.occupancy", {"/map", "/map/map", "/local_costmap/costmap", "/map/pointcloud_map"},
       {"OccupancyGrid", "Costmap"}, <<"world", "map", "occupancy">>, "OccupancyGrid", "world"),
  Rule("map.lanelet2", {"/map/vector_map", "/map/lanelet2_map"}, {"LaneletMapBin", "UInt8"},
       <<"world", "map", "lanelet2">>, "Lanelet2", "world"),
  Rule("map.lanelet2.centerlines", {"/map/lanelet2_centerlines"}, {"Path"},
       <<"world", "map", "lanelet2">>, "Lanelet2", "world"),
  Rule("policy.vla", {"/policy/state", "/vla/action"}, {},
       <<"policy", "main", "vla_state">>, "VLAState", "policy") >>

\* Metadata without a path has the empty sequence.
Declared(c) ==
  /\ c.metadata.path # <<>>
  /\ ToSet(c.metadata.path) \cap {"", ".", ".."} = {}
  /\ c.schema \in DOMAIN JsonTypes
  /\ c.metadata.archetype = JsonTypes[c.schema]
  /\ c.metadata.kind \in Kinds

\* mapTopic: what a channel declares of itself counts before any rule.
MapTopic(c) ==
  LET fits == {k \in DOMAIN Rules :
                 /\ c.topic \in Rules[k].topics
                 /\ Rules[k].schemas = {} \/ c.schema \in Rules[k].schemas}
      rule == Rules[Min(fits)]
      Mapped(path, archetype, kind, id) ==
        <<[topic |-> c.topic, schema |-> c.schema, path |-> path, archetype |-> archetype,
           kind |-> kind, rule |-> id]>>
  IN IF Declared(c)
       THEN Mapped(c.metadata.path, c.metadata.archetype, c.metadata.kind, "channel.metadata")
     ELSE IF fits = {} THEN <<>>
     ELSE Mapped(IF rule.id \in {"sensor.pointcloud", "sensor.image"}
                   THEN rule.path \o <<c.topic>> ELSE rule.path,
                 rule.archetype, rule.kind, rule.id)

MapTopics(topics) == UNION {ToSet(MapTopic(c)) : c \in topics}

-----------------------------------------------------------------------------
(* Entities.                                                               *)

\* mappedTopicToEntity
EntityOf(mapped) ==
  [topic |-> mapped.topic, schema |-> mapped.schema, path |-> mapped.path,
   kind |-> mapped.kind, tags |-> {mapped.archetype, mapped.rule}, data |-> <<>>]

\* filterEntities: an empty set of a filter constrains nothing.
Passes(entity, filter) ==
  /\ filter.paths = {} \/ entity.path \in filter.paths
  /\ filter.kinds = {} \/ entity.kind \in filter.kinds
  /\ filter.archetypes = {} \/ entity.tags \cap filter.archetypes # {}
  /\ filter.tags \subseteq entity.tags

FilterMappedTopics(mapped, filter) == {m \in mapped : Passes(EntityOf(m), filter)}

FrameOf(value, default) == IF "frame" \in DOMAIN value THEN value.frame ELSE default

\* materializeMappedEntity: a message that cannot be decoded leaves a flag and no value.
Materialize(mapped, message) ==
  LET value == message[1].decoded
      data == [type |-> mapped.archetype, log_time |-> message[1].time,
               sensor_time |-> NumberAt(value, "stamp"), frame |-> NumberAt(value, "frame"),
               value |-> value, flagged |-> value = <<>>]
  IN IF message = <<>> THEN EntityOf(mapped)
     ELSE [EntityOf(mapped) EXCEPT !.data = <<data>>]

\* queryEntities of both engines.
QueryEntities(engine, filter, time) ==
  {Materialize(m, MessageNear(engine, m.topic, time)) :
     m \in FilterMappedTopics(MapTopics(engine.topics), filter)}

-----------------------------------------------------------------------------
(* The scene.                                                              *)

SceneArchetypes == {"PointCloud", "Pose", "Trajectory", "OccupancyGrid", "Lanelet2"}

\* transformPoseToFixed, transformTrajectoryToFixed: geometry that is at points or
\* has a pose, seen from the fixed frame.
InFixed(value, transform) ==
  IF "pose" \in DOMAIN value THEN [value EXCEPT !.pose = Compose(transform, @)]
  ELSE [value EXCEPT !.points = [k \in DOMAIN @ |-> Apply(transform, @[k])]]

Drawing(mapped, value) == [drawn |-> <<[mapped |-> mapped, value |-> value]>>, warned |-> FALSE]
Nothing == [drawn |-> <<>>, warned |-> FALSE]
Warning == [drawn |-> <<>>, warned |-> TRUE]

\* JSON geometry is drawn where its frame is, or not at all.
JsonItem(mapped, value, tf, fixed, time) ==
  LET way == ToFixed(tf, value.frame, fixed, time) IN
  IF mapped.schema \notin {"Pose", "PointCloud", "Trajectory"} THEN Nothing
  ELSE IF way = <<>> THEN Warning
  ELSE Drawing(mapped, InFixed(value, way[1]))

\* extractPose, extractTrajectory, parsePointCloud2, parseOccupancyGrid: whether
\* ROS geometry is there.
Parsed(mapped, value) ==
  CASE mapped.archetype \in {"Pose", "OccupancyGrid"} -> "pose" \in DOMAIN value
    [] OTHER -> "points" \in DOMAIN value /\ value.points # <<>>

DefaultFrame(mapped) ==
  CASE mapped.archetype = "PointCloud" -> "base_link"
    [] mapped.schema = "Odometry"      -> "odom"
    [] OTHER                           -> "map"

\* ROS geometry without a way to the fixed frame is drawn as it is.  A lanelet map
\* that is not points is drawn lane by lane, in its own coordinates.
RosItem(mapped, value, tf, fixed, time) ==
  LET way == ToFixed(tf, FrameOf(value, DefaultFrame(mapped)), fixed, time) IN
  IF Parsed(mapped, value)
    THEN Drawing(mapped, IF way = <<>> THEN value ELSE InFixed(value, way[1]))
  ELSE IF mapped.archetype # "Lanelet2" THEN Warning
  ELSE IF "lanelets" \notin DOMAIN value THEN Nothing
  ELSE [Nothing EXCEPT !.drawn = [k \in DOMAIN value.lanelets |->
          [mapped |-> mapped, value |-> [points |-> value.lanelets[k]]]]]

SceneItem(mapped, message, tf, fixed, time) ==
  LET value == message[1].decoded[1] IN
  IF message = <<>> THEN Nothing
  ELSE IF message[1].decoded = <<>> THEN Nothing
  ELSE IF mapped.rule = "channel.metadata" THEN JsonItem(mapped, value, tf, fixed, time)
  ELSE RosItem(mapped, value, tf, fixed, time)

\* buildSceneSnapshot
SceneAt(engine, fixed, time) ==
  LET mapped == {m \in MapTopics(engine.topics) : m.archetype \in SceneArchetypes}
      Item(m) == SceneItem(m, MessageNear(engine, m.topic, time), engine.tf, fixed, time)
  IN [frames   |-> FramePositions(engine.tf, fixed, time),
      drawn    |-> UNION {ToSet(Item(m).drawn) : m \in mapped},
      warnings |-> {m.topic : m \in {n \in mapped : Item(n).warned}}]
=============================================================================
