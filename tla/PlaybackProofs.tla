----------------------------- MODULE PlaybackProofs -----------------------------
(***************************************************************************)
(* Proofs about Playback and what it plays, for any well-formed            *)
(* recordings, sidecars, caches, seeks and bounds.                         *)
(*                                                                         *)
(* The first sections say what the algorithms of a recording return: the   *)
(* markers of its index, the incidents made of them, the facts shown of    *)
(* one, the times it runs between.  The invariant then says of the store   *)
(* and the explainer what makes an explanation fit: the one live call asks *)
(* for the selected incident in the recording that is open, because every  *)
(* change of either cancels it.                                            *)
(*                                                                         *)
(* The last sections are about the buffer of transforms: a lookup answers  *)
(* with the latest one, whichever order and files they came from; and      *)
(* about the index of messages: what it finds of a topic is the nearest.   *)
(***************************************************************************)
EXTENDS Playback, TimeIndexProofs, FiniteSetTheorems

-----------------------------------------------------------------------------
(* Markers.                                                                *)

Stacks == {"autoware", "nav2", "moveit"}

\* The symptoms of a stack that evidence can be shown for.
Shown(stack) == {Evidence[stack][k][1] : k \in 1 .. Len(Evidence[stack])}

\* What a marker can be, and an incident.
RecipeIds ==
  {"localization_drift", "phantom_obstacle_stop", "control_tracking_failure",
   "nav2_controller_stuck", "nav2_localization_uncertainty", "moveit_joint_overspeed",
   "moveit_scene_collision"}

RecipeSet(stack) == [id : RecipeIds, symptoms : Seq(Shown(stack)), least : Nat]

MarkersOf(stack) ==
  [time : Nat, stack : {stack}, recipe : RecipeIds, symptoms : Seq(Shown(stack))]

MarkerSet == UNION {MarkersOf(stack) : stack \in Stacks}

IncidentSet ==
  [stack : Stacks, recipe : RecipeIds, start : Nat, end : Nat, marker : MarkerSet, count : Nat]

\* Evidence is shown for every symptom of the recipes.
LEMMA AutowareListed == AutowareRecipes \in Seq(RecipeSet("autoware"))
<1>1. Evidence["autoware"] =
        << <<"ndt_score_worsens", "ndt">>, <<"covariance_grows", "localization">>,
           <<"map_odom_stale", "map">>, <<"trajectory_velocity_zero", "planning">>,
           <<"brief_perception_object", "perception">>,
           <<"lateral_error_elevated", "lateral">>,
           <<"longitudinal_error_elevated", "longitudinal">>,
           <<"command_velocity_low", "command">> >>
  BY DEF Evidence
<1> DEFINE ev == Evidence["autoware"]
<1>2. /\ Len(ev) = 8
      /\ ev[1][1] = "ndt_score_worsens" /\ ev[2][1] = "covariance_grows"
      /\ ev[3][1] = "map_odom_stale" /\ ev[4][1] = "trajectory_velocity_zero"
      /\ ev[5][1] = "brief_perception_object" /\ ev[6][1] = "lateral_error_elevated"
      /\ ev[7][1] = "longitudinal_error_elevated" /\ ev[8][1] = "command_velocity_low"
  BY <1>1
<1> HIDE DEF ev
<1>3. /\ 1 \in 1 .. 8 /\ 2 \in 1 .. 8 /\ 3 \in 1 .. 8 /\ 4 \in 1 .. 8
      /\ 5 \in 1 .. 8 /\ 6 \in 1 .. 8 /\ 7 \in 1 .. 8 /\ 8 \in 1 .. 8
  OBVIOUS
<1>4. Shown("autoware") = {ev[k][1] : k \in 1 .. Len(ev)}
  BY DEF Shown, ev
<1>5. {"ndt_score_worsens", "covariance_grows", "map_odom_stale", "trajectory_velocity_zero",
       "brief_perception_object", "lateral_error_elevated", "longitudinal_error_elevated",
       "command_velocity_low"} \subseteq Shown("autoware")
  BY <1>2, <1>3, <1>4
<1>6. Recipe("localization_drift", <<"ndt_score_worsens", "covariance_grows", "map_odom_stale">>, 1)
        \in RecipeSet("autoware")
  <2>1. <<"ndt_score_worsens", "covariance_grows", "map_odom_stale">>
          \in Seq(Shown("autoware"))
    BY <1>5
  <2> QED
    BY <2>1 DEF Recipe, RecipeSet, RecipeIds
<1>7. Recipe("phantom_obstacle_stop", <<"trajectory_velocity_zero", "brief_perception_object">>, 2)
        \in RecipeSet("autoware")
  <2>1. <<"trajectory_velocity_zero", "brief_perception_object">>
          \in Seq(Shown("autoware"))
    BY <1>5
  <2> QED
    BY <2>1 DEF Recipe, RecipeSet, RecipeIds
<1>8. Recipe("control_tracking_failure",
         <<"lateral_error_elevated", "longitudinal_error_elevated", "command_velocity_low">>, 2)
        \in RecipeSet("autoware")
  <2>1. <<"lateral_error_elevated", "longitudinal_error_elevated", "command_velocity_low">>
          \in Seq(Shown("autoware"))
    BY <1>5
  <2> QED
    BY <2>1 DEF Recipe, RecipeSet, RecipeIds
<1> QED
  BY <1>6, <1>7, <1>8 DEF AutowareRecipes

LEMMA Nav2Listed == Nav2Recipes \in Seq(RecipeSet("nav2"))
<1>1. Evidence["nav2"] =
        << <<"local_plan_short", "local_plan">>, <<"cmd_vel_stalled", "controller">>,
           <<"goal_active", "goal">>, <<"amcl_covariance_high", "amcl">>,
           <<"costmap_unknown_heavy", "costmap">> >>
  BY DEF Evidence
<1> DEFINE ev == Evidence["nav2"]
<1>2. /\ Len(ev) = 5
      /\ ev[1][1] = "local_plan_short" /\ ev[2][1] = "cmd_vel_stalled"
      /\ ev[3][1] = "goal_active" /\ ev[4][1] = "amcl_covariance_high"
      /\ ev[5][1] = "costmap_unknown_heavy"
  BY <1>1
<1> HIDE DEF ev
<1>3. 1 \in 1 .. 5 /\ 2 \in 1 .. 5 /\ 3 \in 1 .. 5 /\ 4 \in 1 .. 5 /\ 5 \in 1 .. 5
  OBVIOUS
<1>4. Shown("nav2") = {ev[k][1] : k \in 1 .. Len(ev)}
  BY DEF Shown, ev
<1>5. {"local_plan_short", "cmd_vel_stalled", "goal_active", "amcl_covariance_high",
       "costmap_unknown_heavy"} \subseteq Shown("nav2")
  BY <1>2, <1>3, <1>4
<1>6. Recipe("nav2_controller_stuck", <<"local_plan_short", "cmd_vel_stalled", "goal_active">>, 2)
        \in RecipeSet("nav2")
  <2>1. <<"local_plan_short", "cmd_vel_stalled", "goal_active">>
          \in Seq(Shown("nav2"))
    BY <1>5
  <2> QED
    BY <2>1 DEF Recipe, RecipeSet, RecipeIds
<1>7. Recipe("nav2_localization_uncertainty",
             <<"amcl_covariance_high", "costmap_unknown_heavy">>, 2) \in RecipeSet("nav2")
  <2>1. <<"amcl_covariance_high", "costmap_unknown_heavy">>
          \in Seq(Shown("nav2"))
    BY <1>5
  <2> QED
    BY <2>1 DEF Recipe, RecipeSet, RecipeIds
<1> QED
  BY <1>6, <1>7 DEF Nav2Recipes

LEMMA MoveItListed == MoveItRecipes \in Seq(RecipeSet("moveit"))
<1>1. Evidence["moveit"] =
        << <<"joint_velocity_high", "joints">>, <<"trajectory_active", "trajectory">>,
           <<"scene_has_collisions", "scene">>, <<"joint_motion_idle", "joints">> >>
  BY DEF Evidence
<1> DEFINE ev == Evidence["moveit"]
<1>2. /\ Len(ev) = 4
      /\ ev[1][1] = "joint_velocity_high" /\ ev[2][1] = "trajectory_active"
      /\ ev[3][1] = "scene_has_collisions" /\ ev[4][1] = "joint_motion_idle"
  BY <1>1
<1> HIDE DEF ev
<1>3. 1 \in 1 .. 4 /\ 2 \in 1 .. 4 /\ 3 \in 1 .. 4 /\ 4 \in 1 .. 4
  OBVIOUS
<1>4. Shown("moveit") = {ev[k][1] : k \in 1 .. Len(ev)}
  BY DEF Shown, ev
<1>5. {"joint_velocity_high", "trajectory_active", "scene_has_collisions", "joint_motion_idle"}
        \subseteq Shown("moveit")
  BY <1>2, <1>3, <1>4
<1>6. Recipe("moveit_joint_overspeed", <<"joint_velocity_high", "trajectory_active">>, 2)
        \in RecipeSet("moveit")
  <2>1. <<"joint_velocity_high", "trajectory_active">>
          \in Seq(Shown("moveit"))
    BY <1>5
  <2> QED
    BY <2>1 DEF Recipe, RecipeSet, RecipeIds
<1>7. Recipe("moveit_scene_collision", <<"scene_has_collisions", "joint_motion_idle">>, 2)
        \in RecipeSet("moveit")
  <2>1. <<"scene_has_collisions", "joint_motion_idle">>
          \in Seq(Shown("moveit"))
    BY <1>5
  <2> QED
    BY <2>1 DEF Recipe, RecipeSet, RecipeIds
<1> QED
  BY <1>6, <1>7 DEF MoveItRecipes

\* The best match is of one of the recipes, with symptoms that are the recipe's.
LEMMA BestMatches ==
  ASSUME NEW stack, NEW recipes \in Seq(RecipeSet(stack)), NEW symptoms
  PROVE  \/ Best(recipes, symptoms) = <<>>
         \/ \E id \in RecipeIds, matched \in Seq(Shown(stack)) :
              Best(recipes, symptoms) = <<[recipe |-> id, symptoms |-> matched]>>
<1> DEFINE n == Len(recipes)
           Matched(r) == Keeping(r.symptoms, {s \in DOMAIN symptoms : symptoms[s]})
           Better(best, r) ==
             LET new == Len(Matched(r)) * Len(best[1].symptoms)
                 old == Len(Matched(best[1])) * Len(r.symptoms)
             IN new > old \/ (new = old /\ Len(Matched(r)) > Len(Matched(best[1])))
           Take(best, r) ==
             IF Len(Matched(r)) < r.least THEN best
             ELSE IF best = <<>> THEN <<r>> ELSE IF Better(best, r) THEN <<r>> ELSE best
           Turn(f) == [i \in 0 .. n |-> IF i = 0 THEN <<>> ELSE Take(f[i - 1], recipes[i])]
           best == CHOOSE f : f = Turn(f)
           V == {<<>>} \cup {<<recipes[j]>> : j \in 1 .. n}
<1>n. n \in Nat /\ \A j \in 1 .. n : recipes[j] \in RecipeSet(stack)
  OBVIOUS
<1>1. Best(recipes, symptoms) =
        IF best[n] = <<>> THEN <<>>
        ELSE <<[recipe |-> best[n][1].id, symptoms |-> Matched(best[n][1])]>>
  BY DEF Best
<1>2. \A i \in 1 .. n, v \in V : Take(v, recipes[i]) \in V
  <2>1. ASSUME NEW i \in 1 .. n, NEW v \in V PROVE Take(v, recipes[i]) \in V
    <3>1. \A r : Take(v, r) = v \/ Take(v, r) = <<r>>
      <4> HIDE DEF Better, Matched
      <4> QED
        OBVIOUS
    <3>2. <<recipes[i]>> \in V
      OBVIOUS
    <3> HIDE DEF Take, V
    <3> QED
      BY <3>1, <3>2
  <2> HIDE DEF Take, V, n
  <2> QED
    BY <2>1
<1> HIDE DEF Take
<1>3. \E f : f = Turn(f)
  <2> DEFINE comb == [p \in (1 .. n) \X V |-> Take(p[2], recipes[p[1]])]
  <2>1. \A i \in 1 .. n, v \in V : comb[<<i, v>>] = Take(v, recipes[i])
    <3> HIDE DEF V, n
    <3> QED
      OBVIOUS
  <2>2. <<>> \in V
    OBVIOUS
  <2> HIDE DEF V, comb, n
  <2>3. \A i \in 1 .. n, v \in V : comb[<<i, v>>] \in V
    <3> HIDE DEF Turn
    <3> QED
      BY <1>2, <2>1
  <2>f. PICK f \in [0 .. n -> V] : f = Looped(f, n, <<>>, comb)
    <3>1. LoopIn(V, n, <<>>, comb)
      BY <1>n, <2>2, <2>3 DEF LoopIn
    <3> QED
      BY <3>1, LoopExists
  <2>4. \A i \in 0 .. n : i # 0 => i \in 1 .. n /\ f[i - 1] \in V
    BY <1>n, <2>f
  <2>5. f = Turn(f)
    BY <2>1, <2>f, <2>4 DEF Looped
  <2> QED
    BY <2>5
<1>4. best = Turn(best)
  <2> HIDE DEF Turn
  <2> QED
    BY <1>3
<1>5. best[n] \in V
  <2> HIDE DEF best
  <2>1. best[0] \in V
    BY <1>n, <1>4
  <2>2. ASSUME NEW i \in 1 .. n, best[i - 1] \in V PROVE best[i] \in V
    <3>1. best[i] = Take(best[i - 1], recipes[i])
      <4>1. i \in 0 .. n /\ i # 0
        BY <1>n
      <4> HIDE DEF n
      <4> QED
        BY <1>4, <4>1
    <3> HIDE DEF V, n
    <3> QED
      BY <1>2, <2>2, <3>1
  <2> HIDE DEF V, n
  <2>3. \A i \in 0 .. n : best[i] \in V
    BY <1>n, <2>1, <2>2, LoopValues
  <2> QED
    BY <1>n, <2>3
<1>6. CASE best[n] = <<>>
  BY <1>1, <1>6
<1>7. CASE best[n] # <<>>
  <2>1. PICK j \in 1 .. n : best[n] = <<recipes[j]>>
    BY <1>5, <1>7
  <2>2. recipes[j].id \in RecipeIds /\ recipes[j].symptoms \in Seq(Shown(stack))
    BY <1>n DEF RecipeSet
  <2>3. Matched(recipes[j]) \in Seq(Shown(stack))
    BY <2>2, KeepingSifts
  <2>4. Best(recipes, symptoms) =
          <<[recipe |-> recipes[j].id, symptoms |-> Matched(recipes[j])]>>
    <3>1. best[n][1] = recipes[j]
      BY <2>1
    <3> HIDE DEF best, Matched
    <3> QED
      BY <1>1, <1>7, <3>1
  <2> HIDE DEF Matched
  <2> QED
    BY <2>2, <2>3, <2>4
<1> QED
  BY <1>6, <1>7

\* At any time a stack leaves a marker of one of its recipes, or none.
LEMMA MarkersAtTyped ==
  ASSUME NEW engine, NEW time \in Nat
  PROVE  MarkersAt(engine, time) \in Seq(MarkerSet)
<1> DEFINE Of(stack, match) ==
             IF match = <<>> THEN <<>>
             ELSE <<[time |-> time, stack |-> stack, recipe |-> match[1].recipe,
                     symptoms |-> match[1].symptoms]>>
<1>1. ASSUME NEW stack \in Stacks, NEW recipes \in Seq(RecipeSet(stack)), NEW symptoms
      PROVE  Of(stack, Best(recipes, symptoms)) \in Seq(MarkerSet)
  <2> DEFINE b == Best(recipes, symptoms)
  <2>1. CASE b = <<>>
    BY <2>1
  <2>2. CASE \E id \in RecipeIds, matched \in Seq(Shown(stack)) :
               b = <<[recipe |-> id, symptoms |-> matched]>>
    <3>1. PICK id \in RecipeIds, matched \in Seq(Shown(stack)) :
            b = <<[recipe |-> id, symptoms |-> matched]>>
      BY <2>2
    <3> HIDE DEF b
    <3>2. b # <<>> /\ b[1].recipe = id /\ b[1].symptoms = matched
      BY <3>1
    <3> DEFINE m == [time |-> time, stack |-> stack, recipe |-> b[1].recipe,
                     symptoms |-> b[1].symptoms]
    <3>3. m \in MarkersOf(stack)
      BY <3>2 DEF MarkersOf
    <3>4. m \in MarkerSet
      BY <3>3 DEF MarkerSet
    <3>5. Of(stack, b) = <<m>>
      BY <3>2
    <3> HIDE DEF Of, m
    <3> QED
      BY <3>4, <3>5 DEF b
  <2> QED
    BY <2>1, <2>2, BestMatches
<1>2. /\ Of("autoware", AutowareMatch(engine, time)) \in Seq(MarkerSet)
      /\ Of("nav2", Nav2Match(engine, time)) \in Seq(MarkerSet)
      /\ Of("moveit", MoveItMatch(engine, time)) \in Seq(MarkerSet)
  <2>1. {"autoware", "nav2", "moveit"} \subseteq Stacks
    BY DEF Stacks
  <2> HIDE DEF Of
  <2> QED
    BY <1>1, <2>1, AutowareListed, Nav2Listed, MoveItListed
       DEF AutowareMatch, Nav2Match, MoveItMatch
<1>3. MarkersAt(engine, time) =
        Of("autoware", AutowareMatch(engine, time)) \o Of("nav2", Nav2Match(engine, time))
        \o Of("moveit", MoveItMatch(engine, time))
  BY DEF MarkersAt
<1> HIDE DEF Of
<1> QED
  BY <1>2, <1>3

\* The index of a recording consists of markers.
LEMMA IndexTyped ==
  ASSUME NEW engine, engine.start \in Nat, engine.end \in Nat, engine.start <= engine.end
  PROVE  RecipeMarkers(engine) \in Seq(MarkerSet)
<1> DEFINE n == Samples(engine) + 1
           At(k) == MarkersAt(engine, engine.start + (k - 1) * Step)
           Turn(f) == [k \in 0 .. n |-> IF k = 0 THEN <<>> ELSE f[k - 1] \o At(k)]
           before == CHOOSE f : f = Turn(f)
           V == Seq(MarkerSet)
<1>n. n \in Nat
  BY StepAssumption DEF Samples
<1>1. RecipeMarkers(engine) = before[n]
  BY DEF RecipeMarkers
<1>2. \A k \in 1 .. n : At(k) \in V
  <2>1. ASSUME NEW k \in 1 .. n PROVE engine.start + (k - 1) * Step \in Nat
    <3>1. k - 1 \in Nat
      BY <1>n
    <3>2. (k - 1) * Step \in Nat
      BY <3>1, StepAssumption
    <3> QED
      BY <3>2
  <2> QED
    BY <2>1, MarkersAtTyped
<1> HIDE DEF At, n
<1>3. \E f : f = Turn(f)
  <2> DEFINE comb == [p \in (1 .. n) \X V |-> p[2] \o At(p[1])]
  <2>1. \A k \in 1 .. n, v \in V : comb[<<k, v>>] = v \o At(k)
    <3> HIDE DEF V
    <3> QED
      OBVIOUS
  <2>2. \A k \in 1 .. n, v \in V : v \o At(k) \in V
    BY <1>2
  <2>3. <<>> \in V
    OBVIOUS
  <2>4. LoopIn(V, n, <<>>, comb)
    <3> HIDE DEF V, comb
    <3> QED
      BY <1>n, <2>1, <2>2, <2>3 DEF LoopIn
  <2> HIDE DEF V, comb
  <2>5. PICK f \in [0 .. n -> V] : f = Looped(f, n, <<>>, comb)
    <3> HIDE DEF Turn
    <3> QED
      BY <2>4, LoopExists
  <2>6. \A k \in 0 .. n : k # 0 => k \in 1 .. n /\ f[k - 1] \in V
    BY <1>n, <2>5
  <2>7. f = Turn(f)
    BY <2>1, <2>5, <2>6 DEF Looped
  <2> QED
    BY <2>7
<1>4. before = Turn(before)
  <2> HIDE DEF Turn
  <2> QED
    BY <1>3
<1> HIDE DEF before
<1>5. before[0] = <<>> /\ \A k \in 1 .. n : before[k] = before[k - 1] \o At(k)
  <2>1. \A k \in 0 .. n : before[k] = IF k = 0 THEN <<>> ELSE before[k - 1] \o At(k)
    BY <1>4
  <2> HIDE DEF Turn
  <2>2. 0 \in 0 .. n /\ \A k \in 1 .. n : k \in 0 .. n /\ k # 0
    BY <1>n
  <2> QED
    BY <2>1, <2>2
<1>6. \A k \in 0 .. n : before[k] \in V
  <2>1. before[0] \in V
    BY <1>5
  <2>2. ASSUME NEW k \in 1 .. n, before[k - 1] \in V PROVE before[k] \in V
    <3>1. before[k] = before[k - 1] \o At(k) /\ At(k) \in V
      BY <1>2, <1>5
    <3> HIDE DEF Turn
    <3> QED
      BY <2>2, <3>1
  <2> HIDE DEF V, Turn
  <2> QED
    BY <1>n, <2>1, <2>2, LoopValues
<1> QED
  BY <1>n, <1>1, <1>6

-----------------------------------------------------------------------------
(* Incidents.                                                              *)

LEMMA MarkerFields ==
  \A m \in MarkerSet : m.time \in Nat /\ m.stack \in Stacks /\ m.recipe \in RecipeIds
                       /\ m.symptoms \in Seq(Shown(m.stack))
BY DEF MarkerSet, MarkersOf

\* The markers are put in order of time one by one.
LEMMA InOrderUnfolds ==
  ASSUME NEW all \in Seq(MarkerSet)
  PROVE  \E f : /\ InOrder(all) = f[Len(all)] /\ f[0] = <<>>
                /\ \A i \in 0 .. Len(all) : f[i] \in {s \in Seq(MarkerSet) : Sorted(s)}
                /\ \A i \in 1 .. Len(all) :
                     f[i] = InsertAt(f[i - 1], Position(f[i - 1], all[i].time) + 1, all[i])
<1> DEFINE n == Len(all)
           Put(s, m) == InsertAt(s, Position(s, m.time) + 1, m)
           Turn(f) == [i \in 0 .. n |-> IF i = 0 THEN <<>> ELSE Put(f[i - 1], all[i])]
           sorted == CHOOSE f : f = Turn(f)
           V == {s \in Seq(MarkerSet) : Sorted(s)}
<1>n. n \in Nat /\ \A i \in 1 .. n : all[i] \in MarkerSet
  OBVIOUS
<1>1. InOrder(all) = sorted[n]
  BY DEF InOrder
<1>2. \A i \in 1 .. n, v \in V : Put(v, all[i]) \in V
  <2>1. ASSUME NEW i \in 1 .. n, NEW v \in V PROVE Put(v, all[i]) \in V
    <3>1. v \in Seq(MarkerSet) /\ Sorted(v) /\ all[i] \in MarkerSet /\ all[i].time \in Int
      BY <1>n, MarkerFields
    <3>2. PICK m \in MarkerSet : m = all[i] /\ m.time \in Int
      BY <3>1
    <3>3. Put(v, m) \in Seq(MarkerSet) /\ Sorted(Put(v, m))
      BY <3>1, <3>2, InsertKeepsSorted
    <3> HIDE DEF Put
    <3> QED
      BY <3>2, <3>3
  <2> HIDE DEF Put, V, n
  <2> QED
    BY <2>1
<1> HIDE DEF Put
<1>3. \E f : f = Turn(f)
  <2> DEFINE comb == [p \in (1 .. n) \X V |-> Put(p[2], all[p[1]])]
  <2>1. \A i \in 1 .. n, v \in V : comb[<<i, v>>] = Put(v, all[i])
    <3> HIDE DEF V, n
    <3> QED
      OBVIOUS
  <2>2. <<>> \in V
    BY DEF Sorted
  <2>3. LoopIn(V, n, <<>>, comb)
    <3> HIDE DEF V, comb, Turn
    <3> QED
      BY <1>n, <1>2, <2>1, <2>2 DEF LoopIn
  <2> HIDE DEF V, comb
  <2>4. PICK f \in [0 .. n -> V] : f = Looped(f, n, <<>>, comb)
    <3> HIDE DEF Turn
    <3> QED
      BY <2>3, LoopExists
  <2> HIDE DEF n
  <2>5. \A i \in 0 .. n : i # 0 => i \in 1 .. n /\ f[i - 1] \in V
    BY <1>n, <2>4
  <2>6. f = Turn(f)
    BY <2>1, <2>4, <2>5 DEF Looped
  <2> QED
    BY <2>6
<1>4. sorted = Turn(sorted)
  <2> HIDE DEF Turn
  <2> QED
    BY <1>3
<1> HIDE DEF sorted, n
<1>5. sorted[0] = <<>> /\ \A i \in 1 .. n : sorted[i] = Put(sorted[i - 1], all[i])
  <2>1. \A i \in 0 .. n : sorted[i] = IF i = 0 THEN <<>> ELSE Put(sorted[i - 1], all[i])
    BY <1>4
  <2> HIDE DEF Turn
  <2>2. 0 \in 0 .. n /\ \A i \in 1 .. n : i \in 0 .. n /\ i # 0
    BY <1>n
  <2> QED
    BY <2>1, <2>2
<1>6. \A i \in 0 .. n : sorted[i] \in V
  <2>1. sorted[0] \in V
    BY <1>5 DEF Sorted
  <2>2. ASSUME NEW i \in 1 .. n, sorted[i - 1] \in V PROVE sorted[i] \in V
    <3> HIDE DEF Turn, V
    <3> QED
      BY <1>2, <1>5, <2>2
  <2> HIDE DEF V, Turn
  <2> QED
    BY <1>n, <2>1, <2>2, LoopValues
<1>7. InOrder(all) = sorted[Len(all)] /\ sorted[0] = <<>> /\ Len(all) = n
  BY <1>1, <1>5 DEF n
<1>8. \A i \in 1 .. n : sorted[i] = Put(sorted[i - 1], all[i])
  BY <1>5
<1> HIDE DEF V
<1>9. /\ \A i \in 0 .. Len(all) : sorted[i] \in V
      /\ \A i \in 1 .. Len(all) : sorted[i] = Put(sorted[i - 1], all[i])
  BY <1>6, <1>7, <1>8
<1> QED
  BY <1>7, <1>9 DEF V, Put

\* The markers in order of time are the markers.
LEMMA InOrderSorts ==
  ASSUME NEW all \in Seq(MarkerSet)
  PROVE  /\ InOrder(all) \in Seq(MarkerSet) /\ Sorted(InOrder(all))
         /\ ToSet(InOrder(all)) = ToSet(all)
<1> DEFINE n == Len(all)
           First(i) == {all[j] : j \in 1 .. i}
           V == {s \in Seq(MarkerSet) : Sorted(s)}
           Put(s, m) == InsertAt(s, Position(s, m.time) + 1, m)
<1>n. n \in Nat /\ \A i \in 1 .. n : all[i] \in MarkerSet
  OBVIOUS
<1>1. PICK f : /\ InOrder(all) = f[n] /\ f[0] = <<>>
               /\ \A i \in 0 .. n : f[i] \in V
               /\ \A i \in 1 .. n : f[i] = Put(f[i - 1], all[i])
  BY InOrderUnfolds
<1>2. \A v \in V, m \in MarkerSet : ToSet(Put(v, m)) = ToSet(v) \cup {m}
  <2>1. \A m \in MarkerSet : m.time \in Int
    BY MarkerFields
  <2> QED
    BY <2>1, InsertKeepsSorted
<1> DEFINE W == {p \in (0 .. n) \X V : ToSet(p[2]) = First(p[1])}
           g == [i \in 0 .. n |-> <<i, f[i]>>]
<1> HIDE DEF Put, n
<1>3. g[0] \in W
  <2>1. ToSet(<<>>) = {} /\ First(0) = {}
    BY DEF ToSet
  <2>2. 0 \in 0 .. n
    BY <1>n
  <2>3. g[0] = <<0, f[0]>> /\ f[0] \in V
    <3> HIDE DEF V
    <3> QED
      BY <1>1, <2>2
  <2>4. ToSet(f[0]) = First(0)
    BY <1>1, <2>1
  <2>5. <<0, f[0]>> \in W
    <3> HIDE DEF V, First
    <3> QED
      BY <2>2, <2>3, <2>4
  <2> QED
    BY <2>3, <2>5
<1>4. ASSUME NEW i \in 1 .. n, g[i - 1] \in W PROVE g[i] \in W
  <2>1. i - 1 \in 0 .. n /\ i \in 0 .. n
    BY <1>n
  <2>2. ToSet(f[i - 1]) = First(i - 1) /\ f[i - 1] \in V /\ f[i] \in V
    <3> HIDE DEF V, First
    <3> QED
      BY <1>1, <1>4, <2>1
  <2>3. ToSet(f[i]) = First(i - 1) \cup {all[i]}
    <3> HIDE DEF V, First
    <3> QED
      BY <1>n, <1>1, <1>2, <2>2
  <2>4. First(i) = First(i - 1) \cup {all[i]}
    <3>1. \A j \in 1 .. i : j \in 1 .. (i - 1) \/ j = i
      BY <1>n
    <3>2. \A j \in 1 .. (i - 1) : j \in 1 .. i
      BY <1>n
    <3> QED
      BY <1>n, <3>1, <3>2
  <2> HIDE DEF V, First
  <2> QED
    BY <2>1, <2>2, <2>3, <2>4
<1>5. \A i \in 0 .. n : g[i] \in W
  <2> HIDE DEF g, W
  <2> QED
    BY <1>n, <1>3, <1>4, LoopValues
<1>6. ToSet(f[n]) = First(n) /\ f[n] \in V
  <2> HIDE DEF V, First
  <2>1. n \in 0 .. n
    BY <1>n
  <2> QED
    BY <1>5, <2>1
<1>7. First(n) = ToSet(all)
  BY DEF ToSet, n
<1> QED
  BY <1>1, <1>6, <1>7

\* The greatest of some numbers up to n.
LEMMA MaxOfSome ==
  ASSUME NEW n \in Nat, NEW I, I \subseteq 0 .. n, I # {}
  PROVE  Max(I) \in I /\ \A i \in I : i <= Max(I)
<1> DEFINE T == {n - i : i \in I}
<1>1. T \subseteq Nat /\ T # {}
  <2>1. \A i \in I : n - i \in Nat
    OBVIOUS
  <2> QED
    BY <2>1
<1>2. PICK t \in T : \A u \in T : t <= u
  <2> HIDE DEF T
  <2> QED
    BY <1>1, LeastNatural
<1>3. PICK k \in I : t = n - k
  BY <1>2
<1>4. \A i \in I : k >= i
  <2>1. ASSUME NEW i \in I PROVE k >= i
    <3>1. n - i \in T /\ i \in Nat /\ k \in Nat
      OBVIOUS
    <3>2. n - k <= n - i
      BY <1>2, <1>3, <3>1
    <3> QED
      BY <3>1, <3>2
  <2> QED
    BY <2>1
<1>5. Max(I) \in I /\ \A i \in I : Max(I) >= i
  BY <1>4 DEF Max
<1> QED
  BY <1>5

\* A marker joins an incident that there is, or begins one.
LEMMA GroupedTyped ==
  ASSUME NEW runs \in Seq(IncidentSet), NEW m \in MarkerSet
  PROVE  Grouped(runs, m) \in Seq(IncidentSet)
<1> DEFINE n == Len(runs)
           I == {i \in 1 .. n : runs[i].stack = m.stack /\ runs[i].recipe = m.recipe}
           last == IF I # {} THEN Max(I) ELSE 0
           new == [stack |-> m.stack, recipe |-> m.recipe, start |-> m.time, end |-> m.time,
                   marker |-> m, count |-> 1]
           grown == [runs EXCEPT ![last] = Longer(@, m.time)]
<1>n. n \in Nat /\ DOMAIN runs = 1 .. n /\ \A i \in 1 .. n : runs[i] \in IncidentSet
  OBVIOUS
<1>1. Grouped(runs, m) = IF last = 0 THEN Append(runs, new)
                         ELSE IF ~Joins(runs[last], m) THEN Append(runs, new) ELSE grown
  BY DEF Grouped, SelectLastInSeq
<1>2. Append(runs, new) \in Seq(IncidentSet)
  <2>1. new \in IncidentSet
    BY MarkerFields DEF IncidentSet
  <2> HIDE DEF new
  <2> QED
    BY <2>1
<1>3. last = 0 \/ last \in 1 .. n
  <2>1. I \subseteq 0 .. n
    BY <1>n
  <2>2. I # {} => Max(I) \in I
    <3> HIDE DEF I, n
    <3> QED
      BY <1>n, <2>1, MaxOfSome
  <2> QED
    BY <2>2
<1> HIDE DEF last, I
<1>4. ASSUME last \in 1 .. n PROVE grown \in Seq(IncidentSet)
  <2>1. runs[last] \in IncidentSet
    BY <1>n, <1>4
  <2>2. Longer(runs[last], m.time) \in IncidentSet
    <3>1. PICK i \in IncidentSet, t \in Nat : i = runs[last] /\ t = m.time
      BY <2>1, MarkerFields
    <3>2. i.count \in Nat /\ i.count + 1 \in Nat
      BY DEF IncidentSet
    <3>3. PICK k \in Nat : k = i.count + 1
      BY <3>2
    <3> HIDE DEF new, grown, n
    <3>4. [i EXCEPT !.end = t] \in IncidentSet
      BY DEF IncidentSet
    <3>5. [[i EXCEPT !.end = t] EXCEPT !.count = k] \in IncidentSet
      BY <3>4 DEF IncidentSet
    <3>6. [i EXCEPT !.end = t, !.count = k] = [[i EXCEPT !.end = t] EXCEPT !.count = k]
      OBVIOUS
    <3> QED
      BY <3>1, <3>3, <3>5, <3>6 DEF Longer
  <2>4. grown \in [1 .. n -> IncidentSet]
    BY <1>n, <2>2
  <2> HIDE DEF grown
  <2> QED
    BY <1>n, <2>4
<1> QED
  BY <1>1, <1>2, <1>3, <1>4

\* The markers are grouped one by one.
LEMMA GroupingUnfolds ==
  ASSUME NEW all \in Seq(MarkerSet)
  PROVE  LET sorted == InOrder(all) IN
         \E f : /\ GroupRecipeMarkers(all) = f[Len(sorted)] /\ f[0] = <<>>
                /\ \A i \in 0 .. Len(sorted) : f[i] \in Seq(IncidentSet)
                /\ \A i \in 1 .. Len(sorted) : f[i] = Grouped(f[i - 1], sorted[i])
<1> DEFINE sorted == InOrder(all)
           n == Len(sorted)
           Turn(f) == [i \in 0 .. n |-> IF i = 0 THEN <<>> ELSE Grouped(f[i - 1], sorted[i])]
           runs == CHOOSE f : f = Turn(f)
           V == Seq(IncidentSet)
<1>n. n \in Nat /\ \A i \in 1 .. n : sorted[i] \in MarkerSet
  <2>1. sorted \in Seq(MarkerSet)
    BY InOrderSorts
  <2> HIDE DEF sorted
  <2> QED
    BY <2>1
<1>1. GroupRecipeMarkers(all) = runs[n]
  BY DEF GroupRecipeMarkers
<1> HIDE DEF sorted, n
<1>2. \A i \in 1 .. n, v \in V : Grouped(v, sorted[i]) \in V
  BY <1>n, GroupedTyped
<1>3. \E f : f = Turn(f)
  <2> DEFINE comb == [p \in (1 .. n) \X V |-> Grouped(p[2], sorted[p[1]])]
  <2>1. \A i \in 1 .. n, v \in V : comb[<<i, v>>] = Grouped(v, sorted[i])
    <3> HIDE DEF V
    <3> QED
      OBVIOUS
  <2>2. <<>> \in V
    OBVIOUS
  <2>3. LoopIn(V, n, <<>>, comb)
    <3> HIDE DEF V, comb, Turn
    <3> QED
      BY <1>n, <1>2, <2>1, <2>2 DEF LoopIn
  <2> HIDE DEF V, comb
  <2>4. PICK f \in [0 .. n -> V] : f = Looped(f, n, <<>>, comb)
    <3> HIDE DEF Turn
    <3> QED
      BY <2>3, LoopExists
  <2>5. \A i \in 0 .. n : i # 0 => i \in 1 .. n /\ f[i - 1] \in V
    BY <1>n, <2>4
  <2>6. f = Turn(f)
    BY <2>1, <2>4, <2>5 DEF Looped
  <2> QED
    BY <2>6
<1>4. runs = Turn(runs)
  <2> HIDE DEF Turn
  <2> QED
    BY <1>3
<1> HIDE DEF runs
<1>5. runs[0] = <<>> /\ \A i \in 1 .. n : runs[i] = Grouped(runs[i - 1], sorted[i])
  <2>1. \A i \in 0 .. n : runs[i] = IF i = 0 THEN <<>> ELSE Grouped(runs[i - 1], sorted[i])
    BY <1>4
  <2> HIDE DEF Turn
  <2>2. 0 \in 0 .. n /\ \A i \in 1 .. n : i \in 0 .. n /\ i # 0
    BY <1>n
  <2> QED
    BY <2>1, <2>2
<1>6. \A i \in 0 .. n : runs[i] \in V
  <2>1. runs[0] \in V
    BY <1>5
  <2>2. ASSUME NEW i \in 1 .. n, runs[i - 1] \in V PROVE runs[i] \in V
    <3> HIDE DEF Turn, V
    <3> QED
      BY <1>2, <1>5, <2>2
  <2> HIDE DEF V, Turn
  <2> QED
    BY <1>n, <2>1, <2>2, LoopValues
<1>7. GroupRecipeMarkers(all) = runs[Len(InOrder(all))] /\ runs[0] = <<>>
      /\ n = Len(InOrder(all)) /\ sorted = InOrder(all)
  BY <1>1, <1>5 DEF n, sorted
<1> QED
  BY <1>5, <1>6, <1>7

\* The incidents of some markers.
LEMMA GroupingTyped ==
  ASSUME NEW all \in Seq(MarkerSet)
  PROVE  GroupRecipeMarkers(all) \in Seq(IncidentSet)
<1>1. PICK f : /\ GroupRecipeMarkers(all) = f[Len(InOrder(all))]
               /\ \A i \in 0 .. Len(InOrder(all)) : f[i] \in Seq(IncidentSet)
  BY GroupingUnfolds
<1>2. Len(InOrder(all)) \in 0 .. Len(InOrder(all))
  BY InOrderSorts
<1> QED
  BY <1>1, <1>2

\* An incident is the run of a recipe's markers: it begins at the marker it names and
\* ends at one of them, and from any time in it the next of them is within the join gap.
Alike(a, b) == a.stack = b.stack /\ a.recipe = b.recipe

Within(m, run) == Alike(run, m) /\ run.start <= m.time /\ m.time <= run.end

RunOf(run, some) ==
  /\ Within(run.marker, run) /\ run.marker \in some /\ run.marker.time = run.start
  /\ \E m \in some : Within(m, run) /\ m.time = run.end
  /\ \A t \in run.start .. run.end : t < run.end =>
       \E m \in some : Within(m, run) /\ t < m.time /\ m.time - t <= 2 * Step

Apart(runs) ==
  \A j, k \in 1 .. Len(runs) :
    j < k /\ Alike(runs[j], runs[k]) => runs[k].start - runs[j].end > 2 * Step

RunsOf(runs, some) ==
  /\ \A k \in 1 .. Len(runs) : RunOf(runs[k], some)
  /\ \A m \in some : \E k \in 1 .. Len(runs) : Within(m, runs[k])
  /\ Apart(runs)

LEMMA IncidentFields ==
  \A i \in IncidentSet : /\ i.stack \in Stacks /\ i.recipe \in RecipeIds /\ i.marker \in MarkerSet
                         /\ i.start \in Nat /\ i.end \in Nat /\ i.count \in Nat
BY DEF IncidentSet

\* A run of some markers is one of more of them.
LEMMA RunOfMore ==
  ASSUME NEW run, NEW some, NEW more, some \subseteq more, RunOf(run, some)
  PROVE  RunOf(run, more)
BY DEF RunOf

\* A marker that begins an incident is its run.
LEMMA RunBegins ==
  ASSUME NEW m \in MarkerSet, NEW some, m \in some
  PROVE  LET new == [stack |-> m.stack, recipe |-> m.recipe, start |-> m.time, end |-> m.time,
                     marker |-> m, count |-> 1]
         IN RunOf(new, some) /\ Within(m, new)
<1> DEFINE new == [stack |-> m.stack, recipe |-> m.recipe, start |-> m.time, end |-> m.time,
                   marker |-> m, count |-> 1]
<1>1. /\ new.stack = m.stack /\ new.recipe = m.recipe /\ new.start = m.time
      /\ new.end = m.time /\ new.marker = m /\ m.time \in Nat
  BY MarkerFields
<1> HIDE DEF new
<1>2. Within(m, new)
  BY <1>1 DEF Within, Alike
<1>3. \A t \in new.start .. new.end : ~ (t < new.end)
  BY <1>1
<1>4. RunOf(new, some)
  BY <1>1, <1>2, <1>3 DEF RunOf
<1> QED
  BY <1>2, <1>4 DEF new

\* A marker that is not earlier makes the run it joins longer.
LEMMA RunGrows ==
  ASSUME NEW run \in IncidentSet, NEW m \in MarkerSet, NEW some, some \subseteq MarkerSet,
         RunOf(run, some), Joins(run, m), run.end <= m.time
  PROVE  LET longer == Longer(run, m.time)
         IN /\ longer.stack = run.stack /\ longer.recipe = run.recipe
            /\ longer.start = run.start /\ longer.end = m.time
            /\ \A s \in MarkerSet : Within(s, run) => Within(s, longer)
            /\ Within(m, longer) /\ RunOf(longer, some \cup {m})
<1> DEFINE longer == Longer(run, m.time)
<1>t. /\ run.start \in Nat /\ run.end \in Nat /\ m.time \in Nat /\ run.start <= run.end
      /\ \A s \in MarkerSet : s.time \in Nat
  <2>1. run.start \in Nat /\ run.end \in Nat /\ m.time \in Nat /\ \A s \in MarkerSet : s.time \in Nat
    BY MarkerFields, IncidentFields
  <2>2. PICK s \in some : run.start <= s.time /\ s.time <= run.end
    BY DEF RunOf, Within
  <2>3. s.time \in Nat
    BY <2>1
  <2> QED
    BY <2>1, <2>2, <2>3
<1>1. /\ longer.stack = run.stack /\ longer.recipe = run.recipe /\ longer.marker = run.marker
      /\ longer.start = run.start /\ longer.end = m.time
  <2>1. \E a, b, c, d, e, f : run = [stack |-> a, recipe |-> b, start |-> c, end |-> d,
                                    marker |-> e, count |-> f]
    BY DEF IncidentSet
  <2>2. PICK a, b, c, d, e, f : run = [stack |-> a, recipe |-> b, start |-> c, end |-> d,
                                      marker |-> e, count |-> f]
    BY <2>1
  <2>3. PICK n, t : n = run.count + 1 /\ t = m.time
    OBVIOUS
  <2>4. PICK i : i = [run EXCEPT !.end = t]
    OBVIOUS
  <2>5. i = [stack |-> a, recipe |-> b, start |-> c, end |-> t, marker |-> e, count |-> f]
    BY <2>2, <2>4
  <2>6. [i EXCEPT !.count = n] =
          [stack |-> a, recipe |-> b, start |-> c, end |-> t, marker |-> e, count |-> n]
    BY <2>5
  <2>7. longer = [i EXCEPT !.count = n]
    BY <2>3, <2>4 DEF Longer
  <2> HIDE DEF longer
  <2> QED
    BY <2>2, <2>3, <2>6, <2>7
<1> HIDE DEF longer
<1>2. \A s \in MarkerSet : Within(s, run) => Within(s, longer)
  BY <1>t, <1>1 DEF Within, Alike
<1>3. Within(m, longer)
  BY <1>t, <1>1 DEF Within, Alike, Joins
<1>4. RunOf(longer, some \cup {m})
  <2>1. /\ Within(longer.marker, longer) /\ longer.marker \in some
        /\ longer.marker.time = longer.start
    BY <1>1, <1>2 DEF RunOf
  <2>2. ASSUME NEW t \in longer.start .. longer.end, t < longer.end
        PROVE  \E s \in some \cup {m} : Within(s, longer) /\ t < s.time /\ s.time - t <= 2 * Step
    <3>1. CASE t < run.end
      <4>1. t \in run.start .. run.end
        BY <1>t, <1>1, <3>1
      <4>2. PICK s \in some : Within(s, run) /\ t < s.time /\ s.time - t <= 2 * Step
        BY <3>1, <4>1 DEF RunOf
      <4> QED
        BY <1>2, <4>2
    <3>2. CASE ~ (t < run.end)
      <4>1. t < m.time /\ m.time - run.end <= 2 * Step
        BY <1>1, <2>2 DEF Joins
      <4>2. m.time - t <= 2 * Step
        BY <1>t, <1>1, <3>2, <4>1, StepAssumption
      <4> QED
        BY <1>3, <4>1, <4>2
    <3> QED
      BY <3>1, <3>2
  <2> QED
    BY <1>1, <1>3, <2>1, <2>2 DEF RunOf
<1> QED
  BY <1>1, <1>2, <1>3, <1>4 DEF longer

\* A marker that is not earlier than any before it keeps the incidents runs.
LEMMA GroupedRuns ==
  ASSUME NEW runs \in Seq(IncidentSet), NEW some, some \subseteq MarkerSet, RunsOf(runs, some),
         NEW m \in MarkerSet, \A s \in some : s.time <= m.time
  PROVE  RunsOf(Grouped(runs, m), some \cup {m})
<1> DEFINE n == Len(runs)
           I == {i \in 1 .. n : runs[i].stack = m.stack /\ runs[i].recipe = m.recipe}
           last == IF I # {} THEN Max(I) ELSE 0
           new == [stack |-> m.stack, recipe |-> m.recipe, start |-> m.time, end |-> m.time,
                   marker |-> m, count |-> 1]
           more == some \cup {m}
<1>n. n \in Nat /\ \A i \in 1 .. n : runs[i] \in IncidentSet
  OBVIOUS
<1>1. Grouped(runs, m) = IF last = 0 THEN Append(runs, new)
                         ELSE IF ~Joins(runs[last], m) THEN Append(runs, new)
                         ELSE [runs EXCEPT ![last] = Longer(@, m.time)]
  BY DEF Grouped, SelectLastInSeq
<1>2. /\ last = 0 => \A i \in 1 .. n : ~Alike(runs[i], m)
      /\ last # 0 => /\ last \in 1 .. n /\ Alike(runs[last], m)
                     /\ \A i \in 1 .. n : Alike(runs[i], m) => i <= last
  <2>1. I \subseteq 0 .. n
    BY <1>n
  <2>2. I # {} => Max(I) \in I /\ \A i \in I : i <= Max(I)
    <3> HIDE DEF I, n
    <3> QED
      BY <1>n, <2>1, MaxOfSome
  <2>3. 0 \notin I /\ (\A i \in 1 .. n : Alike(runs[i], m) <=> i \in I)
    BY DEF Alike
  <2>4. I \subseteq 1 .. n
    OBVIOUS
  <2> HIDE DEF I
  <2>5. CASE I = {}
    BY <2>3, <2>5
  <2>6. CASE I # {}
    BY <2>2, <2>3, <2>4, <2>6
  <2> QED
    BY <2>5, <2>6
<1>t. /\ m.time \in Nat
      /\ \A i \in 1 .. n : /\ runs[i].start \in Nat /\ runs[i].end \in Nat
                           /\ runs[i].start <= runs[i].end /\ runs[i].end <= m.time
  <2>1. m.time \in Nat
    BY MarkerFields
  <2>2. ASSUME NEW i \in 1 .. n
        PROVE  /\ runs[i].start \in Nat /\ runs[i].end \in Nat
               /\ runs[i].start <= runs[i].end /\ runs[i].end <= m.time
    <3>1. runs[i] \in IncidentSet /\ RunOf(runs[i], some)
      BY <1>n DEF RunsOf
    <3>2. PICK s \in some : Within(s, runs[i]) /\ s.time = runs[i].end
      BY <3>1 DEF RunOf
    <3> QED
      BY <3>1, <3>2, IncidentFields DEF Within
  <2> QED
    BY <2>1, <2>2
<1>3. /\ \A k \in 1 .. n : RunOf(runs[k], more)
      /\ \A s \in some : \E k \in 1 .. n : Within(s, runs[k])
      /\ \A j, k \in 1 .. n : j < k /\ Alike(runs[j], runs[k]) =>
           runs[k].start - runs[j].end > 2 * Step
  BY RunOfMore DEF RunsOf, Apart
<1>4. RunOf(new, more) /\ Within(m, new) /\ new.start = m.time /\ (\A i : Alike(i, new) <=> Alike(i, m))
  <2>1. m \in more
    OBVIOUS
  <2> HIDE DEF more
  <2>2. RunOf(new, more) /\ Within(m, new)
    BY <2>1, RunBegins
  <2> QED
    BY <2>2 DEF Alike
<1> HIDE DEF I, last, new
<1>5. ASSUME last = 0 \/ ~Joins(runs[last], m)
      PROVE  RunsOf(Append(runs, new), more)
  <2> DEFINE r == Append(runs, new)
  <2>1. /\ Len(r) = n + 1 /\ r[n + 1] = new /\ \A k \in 1 .. n : r[k] = runs[k]
        /\ \A k \in 1 .. n + 1 : k \in 1 .. n \/ k = n + 1
        /\ n + 1 \in 1 .. n + 1 /\ \A k \in 1 .. n : k \in 1 .. n + 1
    OBVIOUS
  <2> HIDE DEF r, n
  <2>2. \A k \in 1 .. n + 1 : RunOf(r[k], more)
    BY <1>3, <1>4, <2>1
  <2>3. \A s \in more : \E k \in 1 .. n + 1 : Within(s, r[k])
    BY <1>3, <1>4, <2>1 DEF more
  <2>4. ASSUME NEW j \in 1 .. n, Alike(runs[j], m)
        PROVE  m.time - runs[j].end > 2 * Step
    <3>1. last \in 1 .. n /\ Alike(runs[last], m) /\ j <= last /\ ~Joins(runs[last], m)
      BY <1>2, <1>5, <2>4
    <3>2. ~ (m.time - runs[last].end <= 2 * Step)
      BY <3>1 DEF Joins, Alike
    <3>3. Step \in Nat /\ j \in Nat /\ last \in Nat
      BY <1>n, <3>1, StepAssumption
    <3>4. CASE j = last
      BY <1>t, <3>2, <3>3, <3>4
    <3>5. CASE j # last
      <4>1. j < last /\ Alike(runs[j], runs[last])
        BY <2>4, <3>1, <3>3, <3>5 DEF Alike
      <4>2. runs[last].start - runs[j].end > 2 * Step
        BY <1>3, <3>1, <4>1
      <4>3. runs[last].start <= m.time /\ runs[last].start \in Nat /\ runs[j].end \in Nat
        BY <1>t, <3>1
      <4> QED
        BY <1>t, <3>3, <4>2, <4>3
    <3> QED
      BY <3>4, <3>5
  <2>5. ASSUME NEW j \in 1 .. n + 1, NEW k \in 1 .. n + 1, j < k, Alike(r[j], r[k])
        PROVE  r[k].start - r[j].end > 2 * Step
    <3>1. j \in 1 .. n
      BY <1>n, <2>5
    <3>2. CASE k \in 1 .. n
      BY <1>3, <2>1, <2>5, <3>1, <3>2
    <3>3. CASE k = n + 1
      BY <1>4, <2>1, <2>4, <2>5, <3>1, <3>3
    <3> QED
      BY <2>1, <3>2, <3>3
  <2> HIDE DEF more
  <2>6. RunsOf(r, more)
    BY <2>1, <2>2, <2>3, <2>5 DEF RunsOf, Apart
  <2> QED
    BY <2>6 DEF r
<1>6. ASSUME last # 0, Joins(runs[last], m)
      PROVE  RunsOf([runs EXCEPT ![last] = Longer(@, m.time)], more)
  <2> DEFINE longer == Longer(runs[last], m.time)
             r == [runs EXCEPT ![last] = Longer(@, m.time)]
  <2>1. last \in 1 .. n /\ \A i \in 1 .. n : Alike(runs[i], m) => i <= last
    BY <1>2, <1>6
  <2>2. Len(r) = n /\ r[last] = longer /\ \A k \in 1 .. n : k # last => r[k] = runs[k]
    BY <2>1
  <2>3. runs[last] \in IncidentSet /\ RunOf(runs[last], some) /\ runs[last].end <= m.time
    BY <1>n, <1>t, <2>1 DEF RunsOf
  <2>4. /\ longer.stack = runs[last].stack /\ longer.recipe = runs[last].recipe
        /\ longer.start = runs[last].start /\ longer.end = m.time
        /\ \A s \in MarkerSet : Within(s, runs[last]) => Within(s, longer)
        /\ Within(m, longer) /\ RunOf(longer, more)
    <3> HIDE DEF longer
    <3> QED
      BY <1>6, <2>3, RunGrows DEF longer, more
  <2> HIDE DEF longer, r, n, more
  <2>5. \A k \in 1 .. n : RunOf(r[k], more)
    BY <1>3, <2>2, <2>4
  <2>6. \A s \in more : \E k \in 1 .. n : Within(s, r[k])
    <3>1. \A s \in some : s \in MarkerSet
      OBVIOUS
    <3> QED
      BY <1>3, <2>1, <2>2, <2>4, <3>1 DEF more
  <2>7. ASSUME NEW j \in 1 .. n, NEW k \in 1 .. n, j < k, Alike(r[j], r[k])
        PROVE  r[k].start - r[j].end > 2 * Step
    <3>1. Alike(runs[j], runs[k])
      BY <2>2, <2>4, <2>7 DEF Alike
    <3>2. j # last
      <4>1. j = last => Alike(runs[k], m)
        BY <1>6, <3>1 DEF Alike, Joins
      <4> QED
        BY <1>n, <2>1, <2>7, <4>1
    <3> QED
      BY <1>3, <2>2, <2>4, <2>7, <3>1, <3>2
  <2>8. RunsOf(r, more)
    BY <2>2, <2>5, <2>6, <2>7 DEF RunsOf, Apart
  <2> QED
    BY <2>8 DEF r
<1> QED
  BY <1>1, <1>5, <1>6 DEF more

\* The incidents of a recording are the runs of its markers: every marker is in one, each
\* begins and ends at markers of its recipe with no gap between, and two of the same
\* recipe are more than the join gap apart, so that no run is shown as two.
THEOREM IncidentsRunOn ==
  ASSUME NEW all \in Seq(MarkerSet)
  PROVE  RunsOf(GroupRecipeMarkers(all), ToSet(all))
<1> DEFINE sorted == InOrder(all)
           n == Len(sorted)
           First(i) == {sorted[j] : j \in 1 .. i}
           V == Seq(IncidentSet)
<1>1. sorted \in Seq(MarkerSet) /\ Sorted(sorted) /\ ToSet(sorted) = ToSet(all)
  BY InOrderSorts
<1>2. PICK f : /\ GroupRecipeMarkers(all) = f[n] /\ f[0] = <<>>
               /\ \A i \in 0 .. n : f[i] \in V
               /\ \A i \in 1 .. n : f[i] = Grouped(f[i - 1], sorted[i])
  BY GroupingUnfolds
<1> HIDE DEF sorted
<1>n. n \in Nat /\ \A i \in 1 .. n : sorted[i] \in MarkerSet
  BY <1>1
<1> DEFINE W == {p \in (0 .. n) \X V : RunsOf(p[2], First(p[1]))}
           g == [i \in 0 .. n |-> <<i, f[i]>>]
<1>3. g[0] \in W
  <2>1. RunsOf(<<>>, First(0))
    BY DEF RunsOf, Apart
  <2>2. 0 \in 0 .. n
    BY <1>n
  <2>3. g[0] = <<0, f[0]>> /\ f[0] \in V
    <3> HIDE DEF V, n
    <3> QED
      BY <1>2, <2>2
  <2>4. RunsOf(f[0], First(0))
    <3> HIDE DEF First
    <3> QED
      BY <1>2, <2>1
  <2>5. <<0, f[0]>> \in W
    <3> HIDE DEF V, First, n
    <3> QED
      BY <2>2, <2>3, <2>4
  <2> QED
    BY <2>3, <2>5
<1>4. ASSUME NEW i \in 1 .. n, g[i - 1] \in W PROVE g[i] \in W
  <2>1. i - 1 \in 0 .. n /\ i \in 0 .. n
    BY <1>n
  <2>2. RunsOf(f[i - 1], First(i - 1)) /\ f[i - 1] \in V /\ f[i] \in V
    <3> HIDE DEF V, First, n
    <3> QED
      BY <1>2, <1>4, <2>1
  <2>3. First(i - 1) \subseteq MarkerSet /\ \A s \in First(i - 1) : s.time <= sorted[i].time
    <3>1. \A j \in 1 .. (i - 1) : j \in 1 .. n /\ j < i
      BY <1>n
    <3>2. \A j \in 1 .. (i - 1) : sorted[j] \in MarkerSet /\ sorted[j].time <= sorted[i].time
      BY <1>1, <1>n, <3>1 DEF Sorted
    <3> QED
      BY <3>2
  <2>4. First(i) = First(i - 1) \cup {sorted[i]}
    <3>1. \A j \in 1 .. i : j \in 1 .. (i - 1) \/ j = i
      BY <1>n
    <3>2. \A j \in 1 .. (i - 1) : j \in 1 .. i
      BY <1>n
    <3> QED
      BY <1>n, <3>1, <3>2
  <2> HIDE DEF First
  <2>5. RunsOf(Grouped(f[i - 1], sorted[i]), First(i - 1) \cup {sorted[i]})
    BY <1>n, <2>2, <2>3, GroupedRuns
  <2>6. RunsOf(f[i], First(i))
    BY <1>2, <2>4, <2>5
  <2>7. g[i] = <<i, f[i]>>
    BY <2>1
  <2> HIDE DEF V, n, g
  <2> QED
    BY <2>1, <2>2, <2>6, <2>7
<1>5. \A i \in 0 .. n : g[i] \in W
  <2> HIDE DEF g, W, n
  <2> QED
    BY <1>n, <1>3, <1>4, LoopValues
<1>6. RunsOf(f[n], First(n))
  <2>1. n \in 0 .. n
    BY <1>n
  <2> HIDE DEF V, First, n
  <2> QED
    BY <1>5, <2>1
<1>7. First(n) = ToSet(all)
  <2>1. First(n) = ToSet(sorted)
    BY DEF ToSet
  <2> HIDE DEF First, n
  <2> QED
    BY <1>1, <2>1
<1> HIDE DEF First, n
<1> QED
  BY <1>2, <1>6, <1>7

-----------------------------------------------------------------------------
(* What is shown of an incident.                                           *)

\* A sequence of eight values.
LEMMA EightListed ==
  ASSUME NEW a, NEW b, NEW c, NEW d, NEW e, NEW f, NEW g, NEW h
  PROVE  LET s == <<a, b, c, d, e, f, g, h>> IN s \in Seq({s[k] : k \in 1 .. Len(s)})
<1> DEFINE s == <<a, b, c, d, e, f, g, h>>
           T == {s[k] : k \in 1 .. Len(s)}
<1>1. /\ 1 \in 1 .. 8 /\ 2 \in 1 .. 8 /\ 3 \in 1 .. 8 /\ 4 \in 1 .. 8
      /\ 5 \in 1 .. 8 /\ 6 \in 1 .. 8 /\ 7 \in 1 .. 8 /\ 8 \in 1 .. 8
  OBVIOUS
<1>2. /\ Len(s) = 8
      /\ s[1] = a /\ s[2] = b /\ s[3] = c /\ s[4] = d /\ s[5] = e /\ s[6] = f /\ s[7] = g /\ s[8] = h
  OBVIOUS
<1>3. {a, b, c, d, e, f, g, h} \subseteq T
  <2> HIDE DEF s
  <2> QED
    BY <1>1, <1>2
<1> HIDE DEF T
<1>4. <<a, b, c, d, e, f, g, h>> \in Seq(T)
  BY <1>3
<1> QED
  BY <1>4 DEF T

\* The evidence of a stack is a sequence.
LEMMA EvidenceListed ==
  ASSUME NEW stack \in Stacks
  PROVE  Evidence[stack] \in Seq({Evidence[stack][k] : k \in 1 .. Len(Evidence[stack])})
<1>1. CASE stack = "autoware"
  <2>1. \E a, b, c, d, e, f, g, h : Evidence[stack] = <<a, b, c, d, e, f, g, h>>
    BY <1>1 DEF Evidence
  <2> QED
    BY <2>1, EightListed
<1>2. CASE stack = "nav2"
  <2>1. \E a, b, c, d, e : Evidence[stack] = <<a, b, c, d, e>>
    BY <1>2 DEF Evidence
  <2> QED
    BY <2>1
<1>3. CASE stack = "moveit"
  <2>1. \E a, b, c, d : Evidence[stack] = <<a, b, c, d>>
    BY <1>3 DEF Evidence
  <2> QED
    BY <2>1
<1> QED
  BY <1>1, <1>2, <1>3 DEF Stacks

\* With any marker a recipe can leave come facts of exactly its symptoms: evidence is
\* shown for every symptom, and for no other.
THEOREM FactsMatch ==
  ASSUME NEW engine, NEW m \in MarkerSet
  PROVE  {f.symptom : f \in ToSet(ExplainIncident(engine, m).facts)} = ToSet(m.symptoms)
<1> DEFINE every == Evidence[m.stack]
           T == {every[k] : k \in 1 .. Len(every)}
           wanted == {e \in ToSet(every) : Contains(m.symptoms, e[1])}
           kept == Keeping(every, wanted)
           facts == ExplainIncident(engine, m).facts
<1>1. m.stack \in Stacks /\ m.symptoms \in Seq(Shown(m.stack))
  BY MarkerFields
<1>2. every \in Seq(T)
  BY <1>1, EvidenceListed
<1>3. DOMAIN facts = DOMAIN kept /\ \A k \in DOMAIN kept : facts[k].symptom = kept[k][1]
  BY DEF ExplainIncident
<1> HIDE DEF facts
<1>4. /\ kept \in Seq(T)
      /\ \A k \in DOMAIN kept : \E i \in DOMAIN every : every[i] \in wanted /\ kept[k] = every[i]
      /\ \A i \in DOMAIN every : every[i] \in wanted => \E k \in DOMAIN kept : kept[k] = every[i]
  <2> HIDE DEF every, wanted, T
  <2> QED
    BY <1>2, KeepingSifts
<1>5. DOMAIN every = 1 .. Len(every)
  <2> HIDE DEF every, T
  <2> QED
    BY <1>2
<1>6. Shown(m.stack) = {every[i][1] : i \in 1 .. Len(every)}
  BY DEF Shown
<1> HIDE DEF every, kept, T
<1>7. ToSet(m.symptoms) \subseteq Shown(m.stack)
  BY <1>1 DEF ToSet
<1>8. \A s : Contains(m.symptoms, s) <=> s \in ToSet(m.symptoms)
  BY <1>1 DEF Contains, ToSet
<1>9. ASSUME NEW k \in DOMAIN kept PROVE kept[k][1] \in ToSet(m.symptoms)
  BY <1>4, <1>8
<1>10. ASSUME NEW s \in ToSet(m.symptoms) PROVE \E k \in DOMAIN kept : kept[k][1] = s
  <2>1. PICK i \in 1 .. Len(every) : every[i][1] = s
    BY <1>6, <1>7
  <2>2. every[i] \in wanted
    BY <1>5, <1>8, <2>1 DEF ToSet
  <2> HIDE DEF wanted
  <2> QED
    BY <1>4, <1>5, <2>1, <2>2
<1>11. {f.symptom : f \in ToSet(facts)} = {kept[k][1] : k \in DOMAIN kept}
  BY <1>3 DEF ToSet
<1> QED
  BY <1>9, <1>10, <1>11 DEF facts

-----------------------------------------------------------------------------
(* The times of a recording.                                               *)

\* The rounding of stamps to doubles keeps their order, so that no recording ends
\* before it begins.
THEOREM NumberGrows ==
  ASSUME NEW a \in Nat, NEW b \in Nat, a <= b
  PROVE  Number(a) \in Nat /\ Number(b) \in Nat /\ Number(a) <= Number(b)
<1> DEFINE Low(s) == Grain * (s \div Grain)
           Up(s) == ~ (2 * (s - Low(s)) < Grain \/
                       (2 * (s - Low(s)) = Grain /\ (Low(s) \div Grain) % 2 = 0))
<1>1. \A s \in Nat : Low(s) \in Nat /\ Low(s) <= s /\ s < Low(s) + Grain
  BY GrainAssumption
<1>2. \A s : Number(s) = IF Up(s) THEN Low(s) + Grain ELSE Low(s)
  BY DEF Number
<1>3. a \div Grain = b \div Grain \/ (a \div Grain) + 1 <= b \div Grain
  BY GrainAssumption
<1>4. CASE a \div Grain = b \div Grain
  <2>1. Low(a) = Low(b)
    BY <1>4
  <2>2. Up(a) => Up(b)
    <3>1. PICK l \in Nat : l = Low(a) /\ l = Low(b)
      BY <1>1, <2>1
    <3> HIDE DEF Low
    <3> QED
      BY <3>1, GrainAssumption
  <2> HIDE DEF Up, Low
  <2> QED
    BY <1>1, <1>2, <2>1, <2>2, GrainAssumption
<1>5. CASE (a \div Grain) + 1 <= b \div Grain
  <2>1. Low(a) + Grain <= Low(b)
    BY <1>5, GrainAssumption
  <2> HIDE DEF Up, Low
  <2> QED
    BY <1>1, <1>2, <2>1, GrainAssumption
<1> QED
  BY <1>3, <1>4, <1>5

\* The least and the greatest of some numbers that an index runs through.
LEMMA SomeMinMax ==
  ASSUME NEW n \in Nat, NEW I, I \subseteq 1 .. n, I # {}, NEW f, \A i \in I : f[i] \in Nat,
         NEW S, S = {f[i] : i \in I}
  PROVE  /\ Min(S) \in S /\ \A x \in S : Min(S) <= x
         /\ Max(S) \in S /\ \A x \in S : x <= Max(S)
<1> DEFINE Below(k) == \E b \in Nat : \A i \in I : i <= k => f[i] <= b
           g == [k \in 0 .. n |-> IF Below(k) THEN 1 ELSE 0]
           V == {1}
<1>1. S \subseteq Nat /\ S # {}
  OBVIOUS
<1>2. \A k \in 0 .. n : g[k] \in V
  <2>1. g[0] \in V
    <3>1. \A i \in I : ~(i <= 0)
      OBVIOUS
    <3>2. Below(0)
      BY <3>1
    <3> HIDE DEF Below
    <3> QED
      BY <3>2
  <2>2. ASSUME NEW k \in 1 .. n, g[k - 1] \in V PROVE g[k] \in V
    <3>1. k - 1 \in 0 .. n /\ k \in 0 .. n
      OBVIOUS
    <3>2. Below(k - 1)
      <4> HIDE DEF Below
      <4> QED
        BY <2>2, <3>1
    <3>3. PICK b \in Nat : \A i \in I : i <= k - 1 => f[i] <= b
      BY <3>2
    <3>4. PICK c \in Nat : b <= c /\ (k \in I => f[k] <= c)
      <4>1. CASE k \in I
        <5>1. f[k] \in Nat
          BY <4>1
        <5> QED
          BY <5>1, b <= f[k] \/ f[k] <= b
      <4>2. CASE k \notin I
        BY <4>2
      <4> QED
        BY <4>1, <4>2
    <3>5. ASSUME NEW i \in I, i <= k PROVE f[i] <= c
      <4>1. i = k \/ i <= k - 1
        BY <3>5
      <4>2. f[i] \in Nat
        OBVIOUS
      <4> QED
        BY <3>3, <3>4, <4>1, <4>2
    <3>6. Below(k)
      BY <3>5
    <3> HIDE DEF Below
    <3> QED
      BY <3>1, <3>6
  <2> HIDE DEF g, V
  <2> QED
    BY <2>1, <2>2, LoopValues
<1>3. PICK b \in Nat : \A i \in I : f[i] <= b
  <2>1. Below(n)
    <3> HIDE DEF Below
    <3> QED
      BY <1>2
  <2>2. \A i \in I : i <= n
    OBVIOUS
  <2> QED
    BY <2>1, <2>2
<1>4. S \subseteq 0 .. b
  BY <1>3
<1>5. PICK m \in S : \A x \in S : m <= x
    BY <1>1, LeastNatural
<1>6. Min(S) \in S /\ \A x \in S : Min(S) <= x
  BY <1>5 DEF Min
<1>7. Max(S) \in S /\ \A x \in S : x <= Max(S)
  BY <1>1, <1>3, <1>4, MaxOfSome
<1> QED
  BY <1>6, <1>7

\* Two times, the first of which is not after the second.
Interval == {p \in Nat \X Nat : p[1] <= p[2]}

LEMMA PartInterval ==
  ASSUME NEW part, part.rows \in Seq(ToSet(part.rows)), \A row \in ToSet(part.rows) : row.stamp \in Nat
  PROVE  PartBounds(part) \in Interval
<1>1. CASE part.rows = <<>>
  <2>1. PartBounds(part) = <<0, 0>>
    BY <1>1 DEF PartBounds
  <2> QED
    BY <2>1 DEF Interval
<1>2. CASE part.rows # <<>>
  <2> DEFINE n == Len(part.rows)
             f == [k \in 1 .. n |-> part.rows[k].stamp]
             S == {f[k] : k \in 1 .. n}
  <2>1. n \in Nat /\ DOMAIN part.rows = 1 .. n /\ 1 .. n # {}
    <3>1. PICK rows \in Seq(ToSet(part.rows)) : rows = part.rows
      OBVIOUS
    <3>2. Len(rows) \in Nat /\ DOMAIN rows = 1 .. Len(rows) /\ 1 \in 1 .. Len(rows)
      BY <1>2, <3>1
    <3> QED
      BY <3>1, <3>2
  <2>2. \A k \in 1 .. n : f[k] \in Nat
    BY <2>1 DEF ToSet
  <2>3. Stamps(part) = S
    BY <2>1 DEF Stamps
  <2> HIDE DEF f, n
  <2>4. /\ Min(S) \in S /\ \A x \in S : Min(S) <= x
        /\ Max(S) \in S /\ \A x \in S : x <= Max(S)
    <3> DEFINE I == 1 .. n
    <3>1. S = {f[k] : k \in I}
      OBVIOUS
    <3>2. I \subseteq 1 .. n /\ I # {} /\ \A k \in I : f[k] \in Nat
      BY <2>1, <2>2
    <3> HIDE DEF I, S
    <3> QED
      BY <2>1, <3>1, <3>2, SomeMinMax
  <2>5. Min(S) \in Nat /\ Max(S) \in Nat /\ Min(S) <= Max(S)
    BY <2>2, <2>4
  <2>6. PartBounds(part) = <<Number(Min(S)), Number(Max(S))>>
    BY <1>2, <2>3 DEF PartBounds
  <2> HIDE DEF S
  <2> QED
    BY <2>5, <2>6, NumberGrows DEF Interval
<1> QED
  BY <1>1, <1>2

LEMMA PartsInterval ==
  ASSUME NEW T, NEW parts \in Seq(T), \A part \in T : PartBounds(part) \in Interval
  PROVE  Bounds(parts) \in Interval
<1> DEFINE n == Len(parts)
           counted == {k \in DOMAIN parts : PartBounds(parts[k]) # <<0, 0>>}
           first == [k \in 1 .. n |-> PartBounds(parts[k])[1]]
           last  == [k \in 1 .. n |-> PartBounds(parts[k])[2]]
<1>n. n \in Nat /\ DOMAIN parts = 1 .. n /\ \A k \in 1 .. n : parts[k] \in T
  OBVIOUS
<1> HIDE DEF n
<1>1. CASE counted = {}
  <2>1. Bounds(parts) = <<0, 0>>
    BY <1>1 DEF Bounds
  <2> QED
    BY <2>1 DEF Interval
<1>2. CASE counted # {}
  <2> DEFINE A == {first[k] : k \in counted}
             B == {last[k] : k \in counted}
  <2>1. counted \subseteq 1 .. n
    BY <1>n
  <2>2. \A k \in counted : first[k] \in Nat /\ last[k] \in Nat /\ first[k] <= last[k]
    BY <1>n DEF Interval
  <2>3. Bounds(parts) = <<Min(A), Max(B)>>
    <3>1. A = {PartBounds(parts[k])[1] : k \in counted} /\ B = {PartBounds(parts[k])[2] : k \in counted}
      BY <2>1
    <3> HIDE DEF A, B
    <3> QED
      BY <1>2, <3>1 DEF Bounds
  <2> HIDE DEF first, last, counted
  <2>a. A = {first[k] : k \in counted} /\ B = {last[k] : k \in counted}
    OBVIOUS
  <2>4. Min(A) \in A /\ \A x \in A : Min(A) <= x
    <3>1. \A k \in counted : first[k] \in Nat
      BY <2>2
    <3> HIDE DEF A, B
    <3> QED
      BY <1>n, <1>2, <2>1, <2>a, <3>1, SomeMinMax
  <2>5. Max(B) \in B /\ \A x \in B : x <= Max(B)
    <3>1. \A k \in counted : last[k] \in Nat
      BY <2>2
    <3> HIDE DEF A, B
    <3> QED
      BY <1>n, <1>2, <2>1, <2>a, <3>1, SomeMinMax
  <2>6. Min(A) \in Nat /\ Max(B) \in Nat
    BY <2>2, <2>4, <2>5
  <2>7. Min(A) <= Max(B)
    <3>1. PICK k \in counted : TRUE
      BY <1>2
    <3>2. Min(A) <= first[k] /\ last[k] <= Max(B)
      BY <2>4, <2>5
    <3> HIDE DEF A, B
    <3> QED
      BY <2>2, <2>6, <3>2
  <2> HIDE DEF A, B
  <2> QED
    BY <2>3, <2>6, <2>7 DEF Interval
<1> QED
  BY <1>1, <1>2

\* The parts that a file is read from are parts of it.
LEMMA Resolved ==
  ASSUME NEW file, WellFormed(file)
  PROVE  Resolve(file) \in Seq(ToSet(file.parts))
<1>1. CASE file.format # "folder"
  <2>1. Resolve(file) = file.parts
    BY <1>1 DEF Resolve
  <2> QED
    BY <2>1 DEF WellFormed
<1>2. CASE file.format = "folder"
  <2> DEFINE n == Len(file.names)
             Named(name) == {i \in 1 .. n : file.names[i] = name}
             Found(name) == IF Named(name) # {} THEN Max(Named(name)) ELSE 0
             parts == [k \in DOMAIN file.listed |-> file.parts[Found(file.listed[k])]]
  <2>1. Resolve(file) = IF \E k \in DOMAIN file.listed : Found(file.listed[k]) = 0 THEN <<>>
                        ELSE parts
    BY <1>2 DEF Resolve, SelectLastInSeq
  <2>2. /\ file.parts \in Seq(ToSet(file.parts))
        /\ file.listed \in Seq(ToSet(file.listed))
        /\ n \in Nat /\ n = Len(file.parts)
    <3>1. file.names \in Seq(ToSet(file.names)) /\ n = Len(file.parts)
      BY <1>2 DEF WellFormed
    <3>2. n \in Nat
      BY <3>1
    <3> QED
      BY <1>2, <3>1, <3>2 DEF WellFormed
  <2> HIDE DEF n
  <2>3. ASSUME NEW name PROVE Found(name) = 0 \/ Found(name) \in 1 .. n
    <3>1. Named(name) \subseteq 1 .. n /\ Named(name) \subseteq 0 .. n
      BY <2>2
    <3>2. Named(name) # {} => Max(Named(name)) \in Named(name)
      <4> HIDE DEF Named
      <4> QED
        BY <2>2, <3>1, MaxOfSome
    <3> HIDE DEF Named
    <3> QED
      BY <3>1, <3>2
  <2> HIDE DEF Found
  <2>4. ASSUME \A k \in DOMAIN file.listed : Found(file.listed[k]) # 0
        PROVE  parts \in Seq(ToSet(file.parts))
    <3>1. PICK l \in Nat : DOMAIN file.listed = 1 .. l
      BY <2>2
    <3>2. \A i \in 1 .. n : file.parts[i] \in ToSet(file.parts)
      BY <2>2
    <3>3. \A k \in 1 .. l : file.parts[Found(file.listed[k])] \in ToSet(file.parts)
      BY <2>3, <2>4, <3>1, <3>2
    <3>4. parts \in [1 .. l -> ToSet(file.parts)]
      BY <3>1, <3>3
    <3> HIDE DEF parts
    <3> QED
      BY <3>4
  <2>5. <<>> \in Seq(ToSet(file.parts))
    OBVIOUS
  <2> HIDE DEF parts
  <2>6. CASE \E k \in DOMAIN file.listed : Found(file.listed[k]) = 0
    BY <2>1, <2>5, <2>6
  <2>7. CASE \A k \in DOMAIN file.listed : Found(file.listed[k]) # 0
    BY <2>1, <2>4, <2>7
  <2> QED
    BY <2>6, <2>7
<1> QED
  BY <1>1, <1>2

\* A recording that can be opened has a beginning and an end.
LEMMA EngineInterval ==
  ASSUME NEW f \in Openable, NEW sidecar
  PROVE  LET engine == EngineOf(Files[f], sidecar)
         IN engine.start \in Nat /\ engine.end \in Nat /\ engine.start <= engine.end
<1> DEFINE file == Files[f]
           engine == EngineOf(file, sidecar)
           Of(p) == engine.start = p[1] /\ engine.end = p[2]
<1>1. WellFormed(file) /\ Resolve(file) # <<>>
  BY FilesAssumption DEF Openable
<1>2. \A part \in ToSet(file.parts) : PartBounds(part) \in Interval
  BY <1>1, PartInterval DEF WellFormed
<1>3. CASE file.format = "mcap"
  <2>1. file.parts # <<>> /\ file.parts \in Seq(ToSet(file.parts))
    BY <1>1, <1>3 DEF Resolve, WellFormed
  <2>2. file.parts[1] \in ToSet(file.parts)
    BY <2>1
  <2>3. Of(PartBounds(file.parts[1]))
    BY <1>3 DEF EngineOf, Source, McapEngine
  <2> QED
    BY <1>2, <2>2, <2>3 DEF Interval
<1>4. CASE file.format # "mcap"
  <2>1. Of(Bounds(Resolve(file)))
    BY <1>4 DEF EngineOf, Source, BagEngine
  <2>2. Bounds(Resolve(file)) \in Interval
    BY <1>1, <1>2, Resolved, PartsInterval
  <2> QED
    BY <2>1, <2>2 DEF Interval
<1> QED
  BY <1>3, <1>4

\* What is made of a file that can be opened.
LEMMA MadeTyped ==
  ASSUME NEW f \in Openable, NEW sidecar
  PROVE  /\ EngineFor(f, sidecar).start \in Nat /\ EngineFor(f, sidecar).end \in Nat
         /\ EngineFor(f, sidecar).start <= EngineFor(f, sidecar).end
         /\ MarkedFor(f, sidecar).markers \in Seq(MarkerSet)
         /\ MarkedFor(f, sidecar).incidents \in Seq(IncidentSet)
         /\ MarkedFor(f, sidecar).incidents = GroupRecipeMarkers(MarkedFor(f, sidecar).markers)
<1> DEFINE engine == EngineOf(Files[f], sidecar)
           found == RecipeMarkers(engine)
<1>1. EngineFor(f, sidecar) = engine
  BY DEF EngineFor, Tabulated, Engines
<1>2. MarkedFor(f, sidecar) = Marked(found)
  BY DEF MarkedFor, Tabulated, Markings, Engines
<1>3. engine.start \in Nat /\ engine.end \in Nat /\ engine.start <= engine.end
  BY EngineInterval
<1> HIDE DEF engine
<1>4. found \in Seq(MarkerSet)
  BY <1>3, IndexTyped
<1> HIDE DEF found
<1>5. GroupRecipeMarkers(found) \in Seq(IncidentSet)
  BY <1>4, GroupingTyped
<1>6. /\ MarkedFor(f, sidecar).markers = found
      /\ MarkedFor(f, sidecar).incidents = GroupRecipeMarkers(found)
  BY <1>2 DEF Marked
<1> QED
  BY <1>1, <1>3, <1>4, <1>5, <1>6

-----------------------------------------------------------------------------
(* The inductive invariant.                                                *)

\* An operation that has not ended keeps what it needs; from the building of the engine
\* on its file is one that can be opened, and from the installing on one is open.
OpTyped(op) ==
  \/ op.step \in {"done", "failed", "superseded"}
  \/ /\ op.step \in {"cache", "build", "save", "load", "index"}
     /\ op.file \in DOMAIN Files /\ op.frame \in FixedFrames
     /\ op = [file |-> op.file, step |-> op.step, sidecar |-> op.sidecar, frame |-> op.frame]
     /\ op.step \in {"save", "load", "index"} => op.file \in Openable

\* A recording that is open can be opened, and its session has bounds.
SessionTyped(in) ==
  in.file \in Openable /\ in.start \in Nat /\ in.end \in Nat /\ in.start <= in.end

OpsInv ==
  /\ ops \in Seq(ToSet(ops)) /\ Len(ops) <= MaxOps
  /\ \A n \in 1 .. Len(ops) :
       OpTyped(ops[n]) /\ (ops[n].step \in {"load", "index"} => Opened)
  /\ Opened => ingest[1].op \in 1 .. Len(ops) /\ SessionTyped(ingest[1])

ViewInv ==
  /\ playhead \in Nat /\ fixedFrame \in FixedFrames /\ gestures \in 0 .. MaxGestures
  /\ playing \in BOOLEAN /\ armed \in BOOLEAN /\ indexing \in BOOLEAN
  /\ (armed => Opened) /\ (playing => Opened)
  /\ incidents \in Seq(IncidentSet)

\* One load is fresh, and none while the timer runs.
LoadTyped(l) ==
  l.fresh \in BOOLEAN /\ l = [op |-> l.op, time |-> l.time, frame |-> l.frame, fresh |-> l.fresh]

LoadsInv ==
  /\ loading \in BOOLEAN
  /\ \A l \in loads : LoadTyped(l)
  /\ \A l \in loads : l.fresh => ~armed /\ \A k \in loads : k.fresh => k = l

\* One call of the explainer is live, and what it asks for, or what was shown last, is of
\* the selected incident in the recording that is open.
CallTyped(e) == e.live \in BOOLEAN /\ e = [op |-> e.op, marker |-> e.marker, live |-> e.live]

Fits(in, all, id, op, marker) ==
  /\ in # <<>> /\ op = in[1].op
  /\ WithId(all, id) # <<>> /\ marker = WithId(all, id)[1].marker

ExplainsInv ==
  /\ explaining \in BOOLEAN
  /\ \A e \in explains : CallTyped(e)
  /\ \A e \in explains : e.live =>
       /\ explaining /\ Fits(ingest, incidents, selected, e.op, e.marker)
       /\ \A c \in explains : c.live => c = e
  /\ ~explaining /\ explanation # <<>> =>
       Fits(ingest, incidents, selected, explanation[1].op, explanation[1].marker)

IInv == OpsInv /\ ViewInv /\ LoadsInv /\ ExplainsInv

\* The incidents with an id are some of the incidents.
LEMMA WithIdSifts ==
  ASSUME NEW all \in Seq(IncidentSet), NEW id
  PROVE  /\ WithId(all, id) \in Seq(IncidentSet)
         /\ \A k \in DOMAIN all : IdOf(all[k]) = id => WithId(all, id) # <<>>
<1> DEFINE wanted == {i \in ToSet(all) : IdOf(i) = id}
           r == Keeping(all, wanted)
<1>1. /\ r \in Seq(IncidentSet)
      /\ \A i \in DOMAIN all : all[i] \in wanted => \E k \in DOMAIN r : r[k] = all[i]
  <2> HIDE DEF wanted
  <2> QED
    BY KeepingSifts
<1>2. \A k \in DOMAIN all : IdOf(all[k]) = id => all[k] \in wanted
  BY DEF ToSet
<1>3. WithId(all, id) = r
  BY DEF WithId
<1> HIDE DEF wanted, r
<1>4. DOMAIN r # {} => r # <<>>
  BY <1>1
<1> QED
  BY <1>1, <1>2, <1>3, <1>4

\* A call that is cancelled is not live.
LEMMA CancelledTyped ==
  ASSUME ExplainsInv
  PROVE  \A e \in Cancelled(explains) : CallTyped(e) /\ ~e.live
<1>1. ASSUME NEW e \in explains
      PROVE  LET c == [e EXCEPT !.live = FALSE] IN CallTyped(c) /\ ~c.live
  <2>1. PICK a, b, c : e = [op |-> a, marker |-> b, live |-> c]
    BY DEF ExplainsInv, CallTyped
  <2>2. PICK v : v = FALSE
    OBVIOUS
  <2>3. [e EXCEPT !.live = v] = [op |-> a, marker |-> b, live |-> v]
    BY <2>1
  <2> QED
    BY <2>2, <2>3 DEF CallTyped
<1> QED
  BY <1>1 DEF Cancelled

\* What the effect of the explainer leaves: one live call, for what is selected now.
LEMMA ExplainKeeps ==
  ASSUME ExplainsInv, NEW in, in.op = ingest'[1].op, Opened',
         Explain(in, WithId(incidents', selected'))
  PROVE  ExplainsInv'
<1> DEFINE incident == WithId(incidents', selected')
           new == [op |-> in.op, marker |-> incident[1].marker, live |-> TRUE]
<1>1. \A e \in Cancelled(explains) : CallTyped(e) /\ ~e.live
  BY CancelledTyped
<1>2. CASE incident = <<>>
  <2>1. explains' = Cancelled(explains) /\ explanation' = <<>> /\ explaining' \in BOOLEAN
    BY <1>2 DEF Explain, ExplainsInv
  <2> HIDE DEF incident
  <2> QED
    BY <1>1, <2>1 DEF ExplainsInv
<1>3. CASE incident # <<>>
  <2>1. explains' = Cancelled(explains) \cup {new} /\ explaining' = TRUE
    BY <1>3 DEF Explain
  <2>2. CallTyped(new) /\ new.live
    BY DEF CallTyped
  <2>3. Fits(ingest', incidents', selected', new.op, new.marker)
    BY <1>3 DEF Fits, Opened
  <2> HIDE DEF incident, new
  <2> QED
    BY <1>1, <2>1, <2>2, <2>3 DEF ExplainsInv
<1> QED
  BY <1>2, <1>3

LEMMA ExplainsStay ==
  ASSUME ExplainsInv, UNCHANGED <<ingest, incidents, selected, explainVars>>
  PROVE  ExplainsInv'
BY DEF ExplainsInv, explainVars

\* Refreshing leaves no fresh load.
LEMMA StaleLoads ==
  ASSUME LoadsInv, loads' = Stale(loads), loading' \in BOOLEAN
  PROVE  LoadsInv'
<1>1. \A l \in Stale(loads) : LoadTyped(l) /\ ~l.fresh
  <2>1. ASSUME NEW l \in loads
        PROVE  LET k == [l EXCEPT !.fresh = FALSE] IN LoadTyped(k) /\ ~k.fresh
    <3>1. PICK a, b, c, d : l = [op |-> a, time |-> b, frame |-> c, fresh |-> d]
      BY DEF LoadsInv, LoadTyped
    <3>2. PICK v : v = FALSE
      OBVIOUS
    <3>3. [l EXCEPT !.fresh = v] = [op |-> a, time |-> b, frame |-> c, fresh |-> v]
      BY <3>1
    <3> QED
      BY <3>2, <3>3 DEF LoadTyped
  <2> QED
    BY <2>1 DEF Stale
<1> QED
  BY <1>1 DEF LoadsInv

LEMMA LoadsStay ==
  ASSUME LoadsInv, UNCHANGED <<armed, loads>>, loading' \in {TRUE, FALSE, loading}
  PROVE  LoadsInv'
<1>1. loading' \in BOOLEAN
  BY DEF LoadsInv
<1> QED
  BY <1>1 DEF LoadsInv

\* The effects of new markers.
LEMMA MarkersKeep ==
  ASSUME ViewInv, LoadsInv, ExplainsInv, Opened, UNCHANGED ingest,
         NEW new, NEW all \in Seq(IncidentSet), MarkersBecome(new, all)
  PROVE  /\ playhead' \in Nat /\ armed' \in BOOLEAN /\ incidents' \in Seq(IncidentSet)
         /\ LoadsInv' /\ ExplainsInv'
<1> DEFINE found == FindIncident(all, requested)
           next == IF found # <<>> THEN found[1] ELSE all[1]
           stays == all = <<>> \/ WithId(all, selected) # <<>>
<1>1. /\ incidents' = all
      /\ stays => /\ Explain(ingest[1], WithId(all, selected))
                  /\ UNCHANGED <<selected, playhead, askVars>>
      /\ ~stays => /\ Explain(ingest[1], WithId(all, selected'))
                   /\ found # <<>> => SetCurrentTime(next.start)
                   /\ found = <<>> => UNCHANGED <<playhead, askVars>>
  BY DEF MarkersBecome
<1>2. Explain(ingest[1], WithId(incidents', selected'))
  <2> HIDE DEF found
  <2> QED
    BY <1>1
<1>3. ExplainsInv'
  <2>1. Opened' /\ ingest[1].op = ingest'[1].op
    BY DEF Opened
  <2> QED
    BY <1>2, <2>1, ExplainKeeps
<1>4. found # <<>> => next.start \in Nat
  <2>1. found \in Seq(IncidentSet)
    BY KeepingSifts DEF FindIncident
  <2> HIDE DEF found
  <2>2. found # <<>> => found[1] \in IncidentSet
    BY <2>1
  <2> QED
    BY <2>2 DEF IncidentSet
<1> HIDE DEF found, stays, next
<1>5. CASE UNCHANGED <<playhead, askVars>>
  BY <1>1, <1>3, <1>5, LoadsStay DEF ViewInv, askVars
<1>6. CASE found # <<>> /\ SetCurrentTime(next.start)
  <2>1. playhead' = next.start /\ armed' = TRUE /\ loads' = Stale(loads) /\ loading' = TRUE
    BY <1>6 DEF SetCurrentTime, RefreshInspection
  <2> QED
    BY <1>1, <1>3, <1>4, <1>6, <2>1, StaleLoads
<1> QED
  BY <1>1, <1>5, <1>6

-----------------------------------------------------------------------------
(* The steps keep it.                                                      *)

\* The step of an operation is replaced, and maybe its sidecar or its frame.
LEMMA StepWith ==
  ASSUME NEW op, OpTyped(op), op.step \in {"cache", "build", "save", "load", "index"}, NEW step
  PROVE  [op EXCEPT !.step = step] =
           [file |-> op.file, step |-> step, sidecar |-> op.sidecar, frame |-> op.frame]
<1>1. op = [file |-> op.file, step |-> op.step, sidecar |-> op.sidecar, frame |-> op.frame]
  BY DEF OpTyped
<1>2. PICK a, b, c, d : op = [file |-> a, step |-> b, sidecar |-> c, frame |-> d]
  BY <1>1
<1>3. op.file = a /\ op.sidecar = c /\ op.frame = d
  BY <1>2
<1>4. [op EXCEPT !.step = step] = [file |-> a, step |-> step, sidecar |-> c, frame |-> d]
  BY <1>2
<1> QED
  BY <1>3, <1>4

LEMMA SidecarWith ==
  ASSUME NEW op, OpTyped(op), op.step \in {"cache", "build", "save", "load", "index"}, NEW step, NEW sidecar
  PROVE  [op EXCEPT !.step = step, !.sidecar = sidecar] =
           [file |-> op.file, step |-> step, sidecar |-> sidecar, frame |-> op.frame]
<1>1. op = [file |-> op.file, step |-> op.step, sidecar |-> op.sidecar, frame |-> op.frame]
  BY DEF OpTyped
<1>2. PICK a, b, c, d : op = [file |-> a, step |-> b, sidecar |-> c, frame |-> d]
  BY <1>1
<1>3. op.file = a /\ op.sidecar = c /\ op.frame = d
  BY <1>2
<1>4. [op EXCEPT !.step = step] = [file |-> a, step |-> step, sidecar |-> c, frame |-> d]
  BY <1>2
<1>5. PICK o : o = [op EXCEPT !.step = step]
  OBVIOUS
<1>6. o = [file |-> a, step |-> step, sidecar |-> c, frame |-> d]
  BY <1>4, <1>5
<1>7. [o EXCEPT !.sidecar = sidecar] = [file |-> a, step |-> step, sidecar |-> sidecar, frame |-> d]
  BY <1>6
<1>8. [op EXCEPT !.step = step, !.sidecar = sidecar] = [o EXCEPT !.sidecar = sidecar]
  BY <1>5
<1> QED
  BY <1>3, <1>7, <1>8

LEMMA FrameWith ==
  ASSUME NEW op, OpTyped(op), op.step \in {"cache", "build", "save", "load", "index"}, NEW step, NEW frame
  PROVE  [op EXCEPT !.step = step, !.frame = frame] =
           [file |-> op.file, step |-> step, sidecar |-> op.sidecar, frame |-> frame]
<1>1. op = [file |-> op.file, step |-> op.step, sidecar |-> op.sidecar, frame |-> op.frame]
  BY DEF OpTyped
<1>2. PICK a, b, c, d : op = [file |-> a, step |-> b, sidecar |-> c, frame |-> d]
  BY <1>1
<1>3. op.file = a /\ op.sidecar = c /\ op.frame = d
  BY <1>2
<1>4. [op EXCEPT !.step = step] = [file |-> a, step |-> step, sidecar |-> c, frame |-> d]
  BY <1>2
<1>5. PICK o : o = [op EXCEPT !.step = step]
  OBVIOUS
<1>6. o = [file |-> a, step |-> step, sidecar |-> c, frame |-> d]
  BY <1>4, <1>5
<1>7. [o EXCEPT !.frame = frame] = [file |-> a, step |-> step, sidecar |-> c, frame |-> frame]
  BY <1>6
<1>8. [op EXCEPT !.step = step, !.frame = frame] = [o EXCEPT !.frame = frame]
  BY <1>5
<1> QED
  BY <1>3, <1>7, <1>8

LEMMA OpsStay == OpsInv /\ UNCHANGED <<ops, ingest>> => OpsInv'
BY DEF OpsInv, Opened

\* An operation is replaced, and maybe the recording that is open.
LEMMA OpsSet ==
  ASSUME OpsInv, NEW n \in 1 .. Len(ops), NEW op, OpBecomes(n, op), OpTyped(op),
         Opened => Opened',
         Opened' => ingest'[1].op \in 1 .. Len(ops) /\ SessionTyped(ingest'[1]),
         op.step \in {"load", "index"} => Opened'
  PROVE  OpsInv'
<1> DEFINE T == ToSet(ops) \cup {op}
<1>1. /\ ops' = [ops EXCEPT ![n] = op] /\ ops \in Seq(ToSet(ops)) /\ Len(ops) <= MaxOps
      /\ \A k \in 1 .. Len(ops) :
           OpTyped(ops[k]) /\ (ops[k].step \in {"load", "index"} => Opened)
  BY DEF OpsInv, OpBecomes
<1>2. ops' \in Seq(T) /\ Len(ops') = Len(ops) /\ DOMAIN ops' = 1 .. Len(ops)
  BY <1>1
<1>3. ops'[n] = op /\ \A k \in 1 .. Len(ops) : k # n => ops'[k] = ops[k]
  BY <1>1
<1>4. ops' \in Seq(ToSet(ops'))
  BY <1>2 DEF ToSet
<1>5. \A k \in 1 .. Len(ops) :
        OpTyped(ops'[k]) /\ (ops'[k].step \in {"load", "index"} => Opened')
  BY <1>1, <1>3
<1> QED
  BY <1>1, <1>2, <1>4, <1>5 DEF OpsInv

LEMMA OpsSetInside ==
  ASSUME OpsInv, NEW n \in 1 .. Len(ops), NEW op, OpBecomes(n, op), OpTyped(op),
         UNCHANGED ingest, op.step \in {"load", "index"} => Opened
  PROVE  OpsInv'
<1>1. Opened' = Opened /\ (Opened' => ingest'[1].op \in 1 .. Len(ops) /\ SessionTyped(ingest'[1]))
  BY DEF Opened, OpsInv
<1> QED
  BY <1>1, OpsSet

LEMMA EndKeeps ==
  ASSUME OpsInv, NEW n \in 1 .. Len(ops), NEW step \in {"done", "failed", "superseded"},
         Ended(n, step), UNCHANGED ingest
  PROVE  OpsInv'
<1> DEFINE op == [step |-> step]
<1>1. OpTyped(op) /\ op.step \notin {"load", "index"}
  BY DEF OpTyped
<1>2. OpBecomes(n, op)
  BY DEF Ended
<1> HIDE DEF op
<1> QED
  BY <1>1, <1>2, OpsSetInside

\* What changes but for the operations and the flag of the loads.
LEMMA RestStays ==
  ASSUME IInv, UNCHANGED <<ingest, playhead, playing, fixedFrame, armed, loads, markerVars,
                           indexing, incidentVars, gestures>>,
         loading' \in {TRUE, FALSE, loading}
  PROVE  ViewInv' /\ LoadsInv' /\ ExplainsInv'
<1>1. ViewInv'
  BY DEF IInv, ViewInv, Opened, markerVars
<1>2. LoadsInv'
  BY LoadsStay DEF IInv
<1>3. ExplainsInv'
  BY ExplainsStay DEF IInv, markerVars, incidentVars
<1> QED
  BY <1>1, <1>2, <1>3

LEMMA SupersededKeeps ==
  ASSUME IInv, NEW n \in 1 .. Len(ops), Superseded(n)
  PROVE  IInv'
<1>1. OpsInv'
  BY EndKeeps DEF Superseded, IInv
<1> QED
  BY <1>1, RestStays DEF Superseded, IInv, askVars

LEMMA OpenKeeps ==
  ASSUME IInv, NEW o \in Openings, Open(o)
  PROVE  IInv'
<1> DEFINE op == [file |-> o.file, step |-> "cache", sidecar |-> o.given, frame |-> fixedFrame]
<1>1. OpTyped(op) /\ op.step \notin {"load", "index"}
  BY PlaybackAssumption DEF OpTyped, IInv, ViewInv
<1>2. OpsInv'
  <2>1. ops' = Append(ops, op) /\ Len(ops) < MaxOps /\ UNCHANGED ingest
    BY DEF Open
  <2> HIDE DEF op
  <2>2. ops \in Seq(ToSet(ops) \cup {op})
    BY DEF IInv, OpsInv
  <2>3. /\ ops' \in Seq(ToSet(ops) \cup {op}) /\ Len(ops') = Len(ops) + 1
        /\ Len(ops) \in Nat /\ ops'[Len(ops) + 1] = op
        /\ \A k \in 1 .. Len(ops) : ops'[k] = ops[k]
    BY <2>1, <2>2
  <2>4. ops' \in Seq(ToSet(ops'))
    BY <2>3 DEF ToSet
  <2>5. Len(ops') <= MaxOps
    BY <2>1, <2>3, PlaybackAssumption
  <2>6. \A k \in 1 .. Len(ops') : k \in 1 .. Len(ops) \/ k = Len(ops) + 1
    BY <2>3
  <2>7. \A k \in 1 .. Len(ops') :
          OpTyped(ops'[k]) /\ (ops'[k].step \in {"load", "index"} => Opened')
    BY <1>1, <2>1, <2>3, <2>6 DEF IInv, OpsInv, Opened
  <2>8. Opened' => ingest'[1].op \in 1 .. Len(ops') /\ SessionTyped(ingest'[1])
    BY <2>1, <2>3 DEF IInv, OpsInv, Opened
  <2> QED
    BY <2>4, <2>5, <2>7, <2>8 DEF OpsInv
<1>3. ViewInv'
  BY DEF IInv, ViewInv, Open, Opened, markerVars
<1>4. LoadsInv'
  BY StaleLoads DEF IInv, Open
<1>5. ExplainsInv'
  BY ExplainsStay DEF IInv, Open, markerVars, incidentVars
<1> QED
  BY <1>2, <1>3, <1>4, <1>5 DEF IInv

LEMMA ReadCacheKeeps ==
  ASSUME IInv, NEW n \in 1 .. Len(ops), NEW fails \in BOOLEAN, ReadCache(n, fails)
  PROVE  IInv'
<1>1. CASE Superseded(n)
  BY <1>1, SupersededKeeps
<1>2. CASE ~Superseded(n)
  <2>1. /\ ops[n].step = "cache"
        /\ UNCHANGED <<ingest, playhead, playing, fixedFrame, shown, askVars, markerVars,
                       indexing, incidentVars, gestures>>
        /\ \E kept : OpBecomes(n, [ops[n] EXCEPT !.step = "build", !.sidecar = kept])
    BY <1>2 DEF ReadCache
  <2>2. PICK kept : OpBecomes(n, [ops[n] EXCEPT !.step = "build", !.sidecar = kept])
    BY <2>1
  <2> DEFINE op == [file |-> ops[n].file, step |-> "build", sidecar |-> kept, frame |-> ops[n].frame]
  <2>3. OpTyped(ops[n]) /\ OpsInv
    BY DEF IInv, OpsInv
  <2>4. [ops[n] EXCEPT !.step = "build", !.sidecar = kept] = op
    BY <2>1, <2>3, SidecarWith
  <2>5. OpTyped(op) /\ op.step = "build"
    BY <2>1, <2>3 DEF OpTyped
  <2> HIDE DEF op
  <2>6. OpsInv'
    BY <2>1, <2>2, <2>3, <2>4, <2>5, OpsSetInside
  <2> QED
    BY <2>1, <2>6, RestStays DEF IInv, askVars
<1> QED
  BY <1>1, <1>2

LEMMA BuildKeeps ==
  ASSUME IInv, NEW n \in 1 .. Len(ops), Build(n)
  PROVE  IInv'
<1>1. CASE Superseded(n)
  BY <1>1, SupersededKeeps
<1>2. CASE ~Superseded(n)
  <2>1. /\ ops[n].step = "build"
        /\ UNCHANGED <<ingest, playhead, playing, fixedFrame, shown, armed, loads, markerVars,
                       indexing, incidentVars, gestures>>
        /\ loading' \in {TRUE, FALSE, loading}
        /\ IF Resolve(Files[ops[n].file]) = <<>> THEN Ended(n, "failed")
           ELSE OpBecomes(n, [ops[n] EXCEPT !.step = "save"])
    BY <1>2 DEF Build
  <2>2. OpTyped(ops[n]) /\ OpsInv
    BY DEF IInv, OpsInv
  <2>3. CASE Resolve(Files[ops[n].file]) = <<>>
    <3>1. OpsInv'
      BY <2>1, <2>2, <2>3, EndKeeps
    <3> QED
      BY <2>1, <3>1, RestStays DEF IInv
  <2>4. CASE Resolve(Files[ops[n].file]) # <<>>
    <3> DEFINE op == [file |-> ops[n].file, step |-> "save", sidecar |-> ops[n].sidecar,
                      frame |-> ops[n].frame]
    <3>1. [ops[n] EXCEPT !.step = "save"] = op
      BY <2>1, <2>2, StepWith
    <3>2. OpTyped(op) /\ op.step = "save"
      BY <2>1, <2>2, <2>4 DEF OpTyped, Openable
    <3> HIDE DEF op
    <3>3. OpsInv'
      BY <2>1, <2>2, <2>4, <3>1, <3>2, OpsSetInside
    <3> QED
      BY <2>1, <3>3, RestStays DEF IInv
  <2> QED
    BY <2>3, <2>4
<1> QED
  BY <1>1, <1>2

LEMMA InstallKeeps ==
  ASSUME IInv, NEW n \in 1 .. Len(ops), NEW fails \in BOOLEAN, Install(n, fails)
  PROVE  IInv'
<1>1. CASE Superseded(n)
  BY <1>1, SupersededKeeps
<1>2. CASE ~Superseded(n)
  <2> DEFINE engine == EngineFor(ops[n].file, ops[n].sidecar)
             new == [op |-> n, file |-> ops[n].file, sidecar |-> ops[n].sidecar,
                     start |-> engine.start, end |-> engine.end]
             op  == [file |-> ops[n].file, step |-> "load", sidecar |-> ops[n].sidecar,
                     frame |-> fixedFrame]
  <2>1. /\ ops[n].step = "save"
        /\ OpBecomes(n, [ops[n] EXCEPT !.step = "load", !.frame = fixedFrame])
        /\ ingest' = <<new>> /\ playhead' = engine.start
        /\ playing' = FALSE /\ Explain(new, WithId(incidents, selected))
        /\ UNCHANGED <<fixedFrame, shown, askVars, markerVars, indexing, requested, selected,
                       gestures>>
    BY <1>2 DEF Install, InstallEngine
  <2>2. OpTyped(ops[n]) /\ OpsInv /\ ViewInv /\ LoadsInv /\ ExplainsInv
    BY DEF IInv, OpsInv
  <2>3. ops[n].file \in Openable
    BY <2>1, <2>2 DEF OpTyped
  <2>e. engine.start \in Nat /\ engine.end \in Nat /\ engine.start <= engine.end
    BY <2>3, MadeTyped
  <2> HIDE DEF engine
  <2>4. Opened' /\ ingest'[1] = new /\ new.op = n /\ SessionTyped(new)
    BY <2>1, <2>3, <2>e DEF Opened, SessionTyped
  <2>5. OpsInv'
    <3>1. [ops[n] EXCEPT !.step = "load", !.frame = fixedFrame] = op
      BY <2>1, <2>2, FrameWith
    <3>2. OpTyped(op) /\ op.step = "load"
      BY <2>1, <2>2, <2>3 DEF OpTyped, ViewInv, Openable
    <3> HIDE DEF op, new
    <3>3. OpBecomes(n, op)
      BY <2>1, <3>1
    <3> QED
      BY <2>2, <2>3, <2>4, <3>2, <3>3, OpsSet
  <2>6. ViewInv'
    <3>1. playhead' \in Nat
      BY <2>1, <2>e
    <3> HIDE DEF new, op
    <3> QED
      BY <2>1, <2>2, <2>4, <3>1 DEF ViewInv, askVars, markerVars
  <2>7. LoadsInv'
    BY <2>1, <2>2, LoadsStay DEF askVars
  <2>8. ExplainsInv'
    <3> HIDE DEF new, op
    <3>1. Explain(new, WithId(incidents', selected')) /\ new.op = ingest'[1].op
      BY <2>1, <2>4 DEF markerVars
    <3> QED
      BY <2>2, <2>4, <3>1, ExplainKeeps
  <2> QED
    BY <2>5, <2>6, <2>7, <2>8 DEF IInv
<1> QED
  BY <1>1, <1>2

LEMMA OpenLoadedKeeps ==
  ASSUME IInv, NEW n \in 1 .. Len(ops), NEW fails \in BOOLEAN, OpenLoaded(n, fails)
  PROVE  IInv'
<1>o. OpTyped(ops[n]) /\ OpsInv /\ ViewInv /\ LoadsInv /\ ExplainsInv /\ ops[n].step = "load"
  BY DEF IInv, OpsInv, OpenLoaded
<1>1. CASE Superseded(n)
  BY <1>1, SupersededKeeps
<1>2. CASE /\ Ended(n, "failed") /\ loading' = FALSE
           /\ UNCHANGED <<ingest, playhead, playing, fixedFrame, shown, armed, loads, markerVars,
                          indexing, incidentVars, gestures>>
  <2>1. OpsInv'
    BY <1>o, <1>2, EndKeeps
  <2> QED
    BY <1>2, <2>1, RestStays DEF IInv
<1>3. CASE /\ OpBecomes(n, [ops[n] EXCEPT !.step = "index"])
           /\ indexing' = TRUE /\ loading' = FALSE
           /\ incidents' = <<>> /\ Explain(ingest[1], <<>>)
           /\ UNCHANGED <<ingest, playhead, playing, fixedFrame, armed, loads, requested, selected,
                          gestures>>
  <2> DEFINE op == [file |-> ops[n].file, step |-> "index", sidecar |-> ops[n].sidecar,
                    frame |-> ops[n].frame]
  <2>1. Opened
    BY <1>o DEF OpsInv
  <2>2. OpsInv'
    <3>1. [ops[n] EXCEPT !.step = "index"] = op
      BY <1>o, StepWith
    <3>2. OpTyped(op)
      BY <1>o DEF OpTyped
    <3> HIDE DEF op
    <3> QED
      BY <1>o, <1>3, <2>1, <3>1, <3>2, OpsSetInside
  <2>3. ViewInv'
    <3>1. <<>> \in Seq(IncidentSet)
      OBVIOUS
    <3> QED
      BY <1>o, <1>3, <3>1 DEF ViewInv, Opened
  <2>4. LoadsInv'
    BY <1>o, <1>3, LoadsStay
  <2>5. ExplainsInv'
    <3>1. explains' = Cancelled(explains) /\ explanation' = <<>> /\ explaining' = explaining
      BY <1>3 DEF Explain
    <3>2. \A e \in Cancelled(explains) : CallTyped(e) /\ ~e.live
      BY <1>o, CancelledTyped
    <3> QED
      BY <1>o, <3>1, <3>2 DEF ExplainsInv
  <2> QED
    BY <2>2, <2>3, <2>4, <2>5 DEF IInv
<1> QED
  BY <1>1, <1>2, <1>3 DEF OpenLoaded

LEMMA IndexedKeeps ==
  ASSUME IInv, NEW n \in 1 .. Len(ops), NEW fails \in BOOLEAN, Indexed(n, fails)
  PROVE  IInv'
<1>o. OpsInv /\ ViewInv /\ LoadsInv /\ ExplainsInv /\ ops[n].step = "index"
  BY DEF IInv, Indexed
<1>1. CASE Superseded(n)
  BY <1>1, SupersededKeeps
<1>2. CASE ~Superseded(n)
  <2> DEFINE made == MarkedFor(ingest[1].file, ingest[1].sidecar)
  <2>1. /\ indexing' = FALSE /\ UNCHANGED <<ingest, playing, fixedFrame, shown, requested, gestures>>
        /\ fails => /\ Ended(n, "failed")
                    /\ UNCHANGED <<playhead, askVars, markerVars, selected, explainVars>>
        /\ ~fails => /\ Ended(n, "done")
                     /\ MarkersBecome(made.markers, made.incidents)
    BY <1>2 DEF Indexed, IndexBecomes
  <2>2. Opened /\ ingest[1].file \in Openable
    BY <1>o DEF OpsInv, SessionTyped
  <2>3. OpsInv'
    BY <1>o, <2>1, EndKeeps
  <2>4. CASE fails
    <3>0. /\ UNCHANGED <<ingest, playhead, playing, fixedFrame, askVars, markerVars, selected>>
          /\ UNCHANGED <<explainVars, gestures>> /\ indexing' = FALSE
      BY <2>1, <2>4
    <3>1. ViewInv'
      BY <1>o, <3>0 DEF ViewInv, Opened, askVars, markerVars
    <3>2. LoadsInv'
      BY <1>o, <3>0, LoadsStay DEF askVars
    <3>3. ExplainsInv'
      BY <1>o, <3>0, ExplainsStay DEF markerVars
    <3> QED
      BY <2>3, <3>1, <3>2, <3>3 DEF IInv
  <2>5. CASE ~fails
    <3>1. made.incidents \in Seq(IncidentSet)
      BY <2>2, MadeTyped
    <3>2. /\ playhead' \in Nat /\ armed' \in BOOLEAN /\ incidents' \in Seq(IncidentSet)
          /\ LoadsInv' /\ ExplainsInv'
      BY <1>o, <2>1, <2>2, <2>5, <3>1, MarkersKeep
    <3>3. ViewInv'
      BY <1>o, <2>1, <2>2, <3>2 DEF ViewInv, Opened
    <3> QED
      BY <2>3, <3>2, <3>3 DEF IInv
  <2> QED
    BY <2>4, <2>5
<1> QED
  BY <1>1, <1>2

LEMMA TimerKeeps == IInv /\ TimerFires => IInv'
<1> SUFFICES ASSUME IInv, TimerFires PROVE IInv'
  OBVIOUS
<1> DEFINE new == [op |-> ingest[1].op, time |-> playhead, frame |-> fixedFrame, fresh |-> TRUE]
<1>1. OpsInv /\ ViewInv /\ LoadsInv /\ ExplainsInv
  BY DEF IInv
<1>2. armed /\ armed' = FALSE /\ loads' = loads \cup {new}
  BY DEF TimerFires
<1>3. OpsInv'
  BY <1>1, OpsStay DEF TimerFires
<1>4. ViewInv'
  BY <1>1 DEF ViewInv, TimerFires, Opened, markerVars
<1>5. LoadsInv'
  <2>1. LoadTyped(new) /\ new.fresh
    BY DEF LoadTyped
  <2>2. \A l \in loads : LoadTyped(l) /\ ~l.fresh
    BY <1>1, <1>2 DEF LoadsInv
  <2>3. loading' \in BOOLEAN
    BY <1>1 DEF LoadsInv, TimerFires
  <2> HIDE DEF new
  <2> QED
    BY <1>2, <2>1, <2>2, <2>3 DEF LoadsInv
<1>6. ExplainsInv'
  BY <1>1, ExplainsStay DEF TimerFires, markerVars, incidentVars
<1> QED
  BY <1>3, <1>4, <1>5, <1>6 DEF IInv

LEMMA LoadedKeeps ==
  ASSUME IInv, NEW l \in loads, Loaded(l)
  PROVE  IInv'
<1>1. OpsInv /\ ViewInv /\ LoadsInv /\ ExplainsInv
  BY DEF IInv
<1>2. OpsInv'
  BY <1>1, OpsStay DEF Loaded
<1>3. ViewInv'
  BY <1>1 DEF ViewInv, Loaded, Opened, markerVars
<1>4. LoadsInv'
  BY <1>1 DEF LoadsInv, Loaded
<1>5. ExplainsInv'
  BY <1>1, ExplainsStay DEF Loaded, markerVars, incidentVars
<1> QED
  BY <1>2, <1>3, <1>4, <1>5 DEF IInv

LEMMA RefreshFailsKeeps ==
  ASSUME IInv, NEW l \in loads, RefreshFails(l)
  PROVE  IInv'
<1>1. OpsInv /\ ViewInv /\ LoadsInv /\ ExplainsInv
  BY DEF IInv
<1>2. OpsInv'
  BY <1>1, OpsStay DEF RefreshFails
<1>3. ViewInv'
  BY <1>1 DEF ViewInv, RefreshFails, Opened, markerVars
<1>4. LoadsInv'
  BY <1>1 DEF LoadsInv, RefreshFails
<1>5. ExplainsInv'
  BY <1>1, ExplainsStay DEF RefreshFails, markerVars, incidentVars
<1> QED
  BY <1>2, <1>3, <1>4, <1>5 DEF IInv

LEMMA ExplainedKeeps ==
  ASSUME IInv, NEW e \in explains, NEW fails \in BOOLEAN, Explained(e, fails)
  PROVE  IInv'
<1>1. OpsInv /\ ViewInv /\ LoadsInv /\ ExplainsInv
  BY DEF IInv
<1>2. OpsInv'
  BY <1>1, OpsStay DEF Explained
<1>3. ViewInv'
  BY <1>1 DEF ViewInv, Explained, Opened, askVars, markerVars
<1>4. LoadsInv'
  BY <1>1, LoadsStay DEF Explained, askVars
<1>5. ExplainsInv'
  <2>1. explains' = explains \ {e} /\ UNCHANGED <<ingest, incidents, selected>>
    BY DEF Explained, markerVars
  <2>2. CASE ~e.live
    <3>1. UNCHANGED <<explanation, explaining>>
      BY <2>2 DEF Explained
    <3> QED
      BY <1>1, <2>1, <3>1 DEF ExplainsInv
  <2>3. CASE e.live
    <3>1. explaining' = FALSE
      BY <2>3 DEF Explained
    <3>2. \A c \in explains' : CallTyped(c) /\ ~c.live
      BY <1>1, <2>1, <2>3 DEF ExplainsInv, CallTyped
    <3>3. Fits(ingest', incidents', selected', e.op, e.marker)
      BY <1>1, <2>1, <2>3 DEF ExplainsInv
    <3>4. explanation' # <<>> => explanation'[1].op = e.op /\ explanation'[1].marker = e.marker
      BY <2>3 DEF Explained
    <3> QED
      BY <3>1, <3>2, <3>3, <3>4 DEF ExplainsInv
  <2> QED
    BY <2>2, <2>3
<1> QED
  BY <1>2, <1>3, <1>4, <1>5 DEF IInv

\* What the user and the playback do leaves the operations and the recording alone; the
\* time is set, or not, and the display asked for again.
LEMMA ViewSet ==
  ASSUME IInv, UNCHANGED <<ops, ingest, indexing, markerVars>>, Opened,
         playhead' \in Nat, playing' \in BOOLEAN, fixedFrame' \in FixedFrames,
         gestures' \in 0 .. MaxGestures, RefreshInspection \/ UNCHANGED askVars
  PROVE  OpsInv' /\ ViewInv' /\ LoadsInv'
<1>1. OpsInv /\ ViewInv /\ LoadsInv
  BY DEF IInv
<1>2. OpsInv'
  BY <1>1, OpsStay
<1>3. ViewInv'
  <2>1. armed' \in BOOLEAN /\ Opened' /\ UNCHANGED <<indexing, incidents>>
    BY <1>1 DEF RefreshInspection, ViewInv, Opened, askVars, markerVars
  <2> QED
    BY <1>1, <2>1 DEF ViewInv
<1>4. LoadsInv'
  BY <1>1, StaleLoads, LoadsStay DEF RefreshInspection, askVars
<1> QED
  BY <1>2, <1>3, <1>4

LEMMA GestureBound ==
  ASSUME IInv, Gesture
  PROVE  Opened /\ gestures' \in 0 .. MaxGestures /\ SessionTyped(ingest[1])
<1>1. gestures \in 0 .. MaxGestures /\ Opened /\ gestures < MaxGestures /\ gestures' = gestures + 1
  BY DEF IInv, ViewInv, Gesture
<1>2. gestures' \in 0 .. MaxGestures
  BY <1>1, PlaybackAssumption
<1>3. SessionTyped(ingest[1])
  BY <1>1 DEF IInv, OpsInv
<1> QED
  BY <1>1, <1>2, <1>3

LEMMA SeekKeeps ==
  ASSUME IInv, NEW s \in Seeks, Seek(ingest[1].start + s)
  PROVE  IInv'
<1>1. Gesture /\ SetCurrentTime(ingest[1].start + s)
      /\ UNCHANGED <<ops, ingest, playing, fixedFrame, indexing, markerVars, incidentVars>>
  BY DEF Seek
<1>2. Opened /\ gestures' \in 0 .. MaxGestures /\ SessionTyped(ingest[1])
  BY <1>1, GestureBound
<1>3. playhead' \in Nat /\ RefreshInspection
  <2>1. ingest[1].start \in Nat /\ s \in Nat
    BY <1>2, PlaybackAssumption DEF SessionTyped
  <2>2. ingest[1].start + s \in Nat
    BY <2>1
  <2> QED
    BY <1>1, <2>2 DEF SetCurrentTime
<1>4. playing' \in BOOLEAN /\ fixedFrame' \in FixedFrames
  BY <1>1 DEF IInv, ViewInv
<1>5. OpsInv' /\ ViewInv' /\ LoadsInv'
  BY <1>1, <1>2, <1>3, <1>4, ViewSet
<1>6. ExplainsInv'
  BY <1>1, ExplainsStay DEF IInv, markerVars, incidentVars
<1> QED
  BY <1>5, <1>6 DEF IInv

LEMMA SetFixedFrameKeeps ==
  ASSUME IInv, NEW f \in FixedFrames, SetFixedFrame(f)
  PROVE  IInv'
<1>1. Gesture /\ fixedFrame' = f /\ RefreshInspection
      /\ UNCHANGED <<ops, ingest, playhead, playing, indexing, markerVars, incidentVars>>
  BY DEF SetFixedFrame
<1>2. Opened /\ gestures' \in 0 .. MaxGestures
  BY <1>1, GestureBound
<1>3. playhead' \in Nat /\ playing' \in BOOLEAN
  BY <1>1 DEF IInv, ViewInv
<1>4. OpsInv' /\ ViewInv' /\ LoadsInv'
  BY <1>1, <1>2, <1>3, ViewSet
<1>5. ExplainsInv'
  BY <1>1, ExplainsStay DEF IInv, markerVars, incidentVars
<1> QED
  BY <1>4, <1>5 DEF IInv

LEMMA TogglePlayingKeeps == IInv /\ TogglePlaying => IInv'
<1> SUFFICES ASSUME IInv, TogglePlaying PROVE IInv'
  OBVIOUS
<1>1. Gesture /\ playing' = ~playing
      /\ UNCHANGED <<ops, ingest, playhead, fixedFrame, indexing, askVars, markerVars, incidentVars>>
  BY DEF TogglePlaying
<1>2. Opened /\ gestures' \in 0 .. MaxGestures
  BY <1>1, GestureBound
<1>3. playhead' \in Nat /\ playing' \in BOOLEAN /\ fixedFrame' \in FixedFrames
  BY <1>1 DEF IInv, ViewInv
<1>4. OpsInv' /\ ViewInv' /\ LoadsInv'
  BY <1>1, <1>2, <1>3, ViewSet
<1>5. ExplainsInv'
  BY <1>1, ExplainsStay DEF IInv, markerVars, incidentVars
<1> QED
  BY <1>4, <1>5 DEF IInv

LEMMA ChooseKeeps ==
  ASSUME IInv, NEW i \in DOMAIN incidents, Choose(incidents[i])
  PROVE  IInv'
<1>1. Gesture /\ ChooseIncident(incidents[i])
      /\ UNCHANGED <<ops, ingest, playing, fixedFrame, indexing, markerVars>>
  BY DEF Choose
<1>2. Opened /\ gestures' \in 0 .. MaxGestures
  BY <1>1, GestureBound
<1>3. incidents \in Seq(IncidentSet) /\ ExplainsInv
  BY DEF IInv, ViewInv
<1>4. playhead' \in Nat /\ RefreshInspection
  <2>1. incidents[i] \in IncidentSet
    BY <1>3
  <2>2. incidents[i].start \in Nat
    BY <2>1 DEF IncidentSet
  <2> QED
    BY <1>1, <2>2 DEF ChooseIncident, SetCurrentTime
<1>5. playing' \in BOOLEAN /\ fixedFrame' \in FixedFrames
  BY <1>1 DEF IInv, ViewInv
<1>6. OpsInv' /\ ViewInv' /\ LoadsInv'
  BY <1>1, <1>2, <1>4, <1>5, ViewSet
<1>7. ExplainsInv'
  <2>1. CASE selected' = selected
    BY <1>1, <1>3, <2>1, ExplainsStay DEF ChooseIncident, markerVars
  <2>2. CASE selected' # selected
    <3> DEFINE new == [op |-> ingest[1].op, marker |-> WithId(incidents, selected')[1].marker,
                       live |-> TRUE]
    <3>1. selected' = IdOf(incidents[i]) /\ explaining' = TRUE
          /\ explains' = Cancelled(explains) \cup {new}
      BY <1>1, <2>2 DEF ChooseIncident
    <3>2. WithId(incidents, selected') # <<>>
      BY <1>3, <3>1, WithIdSifts
    <3>3. CallTyped(new) /\ new.live
      BY DEF CallTyped
    <3>4. Fits(ingest', incidents', selected', new.op, new.marker)
      BY <1>1, <1>2, <3>2 DEF Fits, Opened, markerVars
    <3>5. \A e \in Cancelled(explains) : CallTyped(e) /\ ~e.live
      BY <1>3, CancelledTyped
    <3> HIDE DEF new
    <3> QED
      BY <3>1, <3>3, <3>4, <3>5 DEF ExplainsInv
  <2> QED
    BY <2>1, <2>2
<1> QED
  BY <1>6, <1>7 DEF IInv

LEMMA TickKeeps == IInv /\ Tick => IInv'
<1> SUFFICES ASSUME IInv, Tick PROVE IInv'
  OBVIOUS
<1> DEFINE next == Min({ingest[1].end, playhead + TickTime})
<1>1. playing /\ SetCurrentTime(next) /\ playing' = (next < ingest[1].end)
      /\ UNCHANGED <<ops, ingest, fixedFrame, indexing, markerVars, incidentVars, gestures>>
  BY DEF Tick
<1>2. Opened /\ SessionTyped(ingest[1])
  BY <1>1 DEF IInv, ViewInv, OpsInv
<1>3. next \in Nat
  <2>1. ingest[1].end \in Nat /\ playhead \in Nat /\ TickTime \in Nat
    BY <1>2, PlaybackAssumption DEF SessionTyped, IInv, ViewInv
  <2>2. PICK e, t \in Nat : e = ingest[1].end /\ t = playhead + TickTime
    BY <2>1
  <2>3. \E x \in {e, t} : \A y \in {e, t} : x <= y
    BY e <= t \/ t <= e
  <2>4. Min({e, t}) \in {e, t}
    BY <2>3 DEF Min
  <2> QED
    BY <2>2, <2>4
<1>4. playhead' \in Nat /\ playing' \in BOOLEAN /\ RefreshInspection
  BY <1>1, <1>3 DEF SetCurrentTime
<1>5. fixedFrame' \in FixedFrames /\ gestures' \in 0 .. MaxGestures
  BY <1>1 DEF IInv, ViewInv
<1>6. OpsInv' /\ ViewInv' /\ LoadsInv'
  BY <1>1, <1>2, <1>4, <1>5, ViewSet
<1>7. ExplainsInv'
  BY <1>1, ExplainsStay DEF IInv, markerVars, incidentVars
<1> QED
  BY <1>6, <1>7 DEF IInv

LEMMA InitHolds == Init => IInv
<1> SUFFICES ASSUME Init PROVE IInv
  OBVIOUS
<1>1. OpsInv
  <2>1. ops = <<>> /\ ingest = <<>>
    BY DEF Init
  <2>2. ops \in Seq(ToSet(ops)) /\ Len(ops) = 0
    BY <2>1
  <2> QED
    BY <2>1, <2>2, PlaybackAssumption DEF OpsInv, Opened
<1>2. ViewInv
  <2>1. <<>> \in Seq(IncidentSet)
    OBVIOUS
  <2>2. incidents \in Seq(IncidentSet)
    BY <2>1 DEF Init
  <2>3. playhead \in Nat /\ fixedFrame \in FixedFrames /\ gestures \in 0 .. MaxGestures
    BY PlaybackAssumption DEF Init
  <2>4. playing = FALSE /\ armed = FALSE /\ indexing = FALSE
    BY DEF Init
  <2> QED
    BY <2>2, <2>3, <2>4 DEF ViewInv
<1>3. LoadsInv
  BY DEF Init, LoadsInv
<1>4. ExplainsInv
  BY DEF Init, ExplainsInv
<1> QED
  BY <1>1, <1>2, <1>3, <1>4 DEF IInv

LEMMA NextKeeps == IInv /\ [Next]_vars => IInv'
<1> SUFFICES ASSUME IInv, [Next]_vars PROVE IInv'
  OBVIOUS
<1>d. DOMAIN ops = 1 .. Len(ops)
  BY DEF IInv, OpsInv
<1>1. CASE Tick
  BY <1>1, TickKeeps
<1>2. CASE TimerFires
  BY <1>2, TimerKeeps
<1>3. ASSUME NEW l \in loads, Loaded(l) \/ RefreshFails(l) PROVE IInv'
  BY <1>3, LoadedKeeps, RefreshFailsKeeps
<1>4. ASSUME NEW e \in explains, NEW fails \in BOOLEAN, Explained(e, fails) PROVE IInv'
  BY <1>4, ExplainedKeeps
<1>5. ASSUME NEW n \in DOMAIN ops, Build(n) PROVE IInv'
  BY <1>d, <1>5, BuildKeeps
<1>6. ASSUME NEW n \in DOMAIN ops, NEW fails \in BOOLEAN, ReadCache(n, fails) PROVE IInv'
  BY <1>d, <1>6, ReadCacheKeeps
<1>7. ASSUME NEW n \in DOMAIN ops, NEW fails \in BOOLEAN, Install(n, fails) PROVE IInv'
  BY <1>d, <1>7, InstallKeeps
<1>8. ASSUME NEW n \in DOMAIN ops, NEW fails \in BOOLEAN, OpenLoaded(n, fails) PROVE IInv'
  BY <1>d, <1>8, OpenLoadedKeeps
<1>9. ASSUME NEW n \in DOMAIN ops, NEW fails \in BOOLEAN, Indexed(n, fails) PROVE IInv'
  BY <1>d, <1>9, IndexedKeeps
<1>10. ASSUME NEW o \in Openings, Open(o) PROVE IInv'
  BY <1>10, OpenKeeps
<1>11. ASSUME NEW s \in Seeks, Seek(ingest[1].start + s) PROVE IInv'
  BY <1>11, SeekKeeps
<1>12. ASSUME NEW f \in FixedFrames, SetFixedFrame(f) PROVE IInv'
  BY <1>12, SetFixedFrameKeeps
<1>13. CASE TogglePlaying
  BY <1>13, TogglePlayingKeeps
<1>14. ASSUME NEW i \in DOMAIN incidents, Choose(incidents[i]) PROVE IInv'
  BY <1>14, ChooseKeeps
<1>15. CASE UNCHANGED vars
  <2>1. OpsInv'
    BY <1>15, OpsStay DEF IInv, vars
  <2> QED
    BY <1>15, <2>1, RestStays DEF IInv, vars, askVars
<1>16. CASE Async
  BY <1>1, <1>2, <1>3, <1>4, <1>5, <1>6, <1>7, <1>8, <1>9, <1>16 DEF Async
<1>17. CASE User
  BY <1>10, <1>11, <1>12, <1>13, <1>14, <1>17 DEF User
<1> QED
  BY <1>15, <1>16, <1>17 DEF Next

\* The inductive invariant holds in every reachable state.
THEOREM Invariance == Spec => []IInv
BY InitHolds, NextKeeps, PTL DEF Spec

-----------------------------------------------------------------------------
(* What follows from it.                                                   *)

\* Of a set in which no two are set apart by a mark, one at most has it.
LEMMA OneAtMost ==
  ASSUME NEW S, \A x, y \in S : x = y
  PROVE  Cardinality(S) <= 1
<1>1. CASE S = {}
  BY <1>1, FS_EmptySet
<1>2. CASE S # {}
  <2>1. PICK x : S = {x}
    <3>1. PICK x : x \in S
      BY <1>2
    <3>2. S = {x}
      BY <3>1
    <3> QED
      BY <3>2
  <2>2. Cardinality({x}) = 1
    BY FS_Singleton
  <2> QED
    BY <2>1, <2>2
<1> QED
  BY <1>1, <1>2

\* The variables have their types; an operation that goes on has a file and a frame, and
\* one load at most is fresh, one call of the explainer live.
THEOREM TypeCorrect == Spec => []TypeOK
<1>1. IInv => TypeOK
  <2> SUFFICES ASSUME IInv PROVE TypeOK
    OBVIOUS
  <2>1. OpsInv /\ ViewInv /\ LoadsInv /\ ExplainsInv
    BY DEF IInv
  <2>2. DOMAIN ops = 1 .. Len(ops)
    BY <2>1 DEF OpsInv
  <2>3. \A n \in DOMAIN ops :
          \/ ops[n].step \in {"done", "failed", "superseded"}
          \/ /\ ops[n].step \in {"cache", "build", "save", "load", "index"}
             /\ ops[n].file \in DOMAIN Files /\ ops[n].frame \in FixedFrames
    BY <2>1, <2>2 DEF OpsInv, OpTyped
  <2>4. Len(ops) <= MaxOps /\ (Opened => ingest[1].op \in DOMAIN ops)
    BY <2>1, <2>2 DEF OpsInv
  <2>5. /\ gestures \in 0 .. MaxGestures /\ playhead \in Nat /\ (armed \/ playing => Opened)
        /\ playing \in BOOLEAN /\ armed \in BOOLEAN /\ indexing \in BOOLEAN
    BY <2>1 DEF ViewInv
  <2>6. {playing, armed, loading, indexing, explaining} \subseteq BOOLEAN
    BY <2>1, <2>5 DEF ExplainsInv, LoadsInv
  <2>7. Cardinality({l \in loads : l.fresh}) <= 1
    <3>1. \A l, k \in {j \in loads : j.fresh} : l = k
      BY <2>1 DEF LoadsInv
    <3> QED
      BY <3>1, OneAtMost
  <2>8. Cardinality({e \in explains : e.live}) <= 1
    <3>1. \A e, c \in {d \in explains : d.live} : e = c
      BY <2>1 DEF ExplainsInv
    <3> QED
      BY <3>1, OneAtMost
  <2> QED
    BY <2>3, <2>4, <2>5, <2>6, <2>7, <2>8 DEF TypeOK
<1> QED
  BY <1>1, Invariance, PTL

\* Once no explanation is awaited, the one on display is of the selected incident in the
\* recording that is open, with a fact for each symptom its marker matched: whatever is
\* opened, indexed, chosen, cancelled or failing in between.
THEOREM ExplanationIsOfSelection == Spec => []ExplanationFits
<1>1. IInv => ExplanationFits
  <2> SUFFICES ASSUME IInv, ~explaining, explanation # <<>>
               PROVE  ExplanationFits
    BY DEF ExplanationFits
  <2> DEFINE chosen == WithId(incidents, selected)
             marker == explanation[1].marker
  <2>1. Fits(ingest, incidents, selected, explanation[1].op, marker)
    BY DEF IInv, ExplainsInv
  <2>2. chosen # <<>> /\ explanation[1].op = ingest[1].op /\ marker = chosen[1].marker
    BY <2>1 DEF Fits
  <2>3. incidents \in Seq(IncidentSet)
    BY DEF IInv, ViewInv
  <2>4. chosen \in Seq(IncidentSet)
    BY <2>3, WithIdSifts
  <2> HIDE DEF chosen
  <2>5. chosen[1] \in IncidentSet
    BY <2>2, <2>4
  <2>6. marker \in MarkerSet
    BY <2>2, <2>5 DEF IncidentSet
  <2> HIDE DEF marker
  <2>7. {f.symptom : f \in ToSet(ExplainIncident(Engine, marker).facts)} = ToSet(marker.symptoms)
    BY <2>6, FactsMatch
  <2> QED
    BY <2>2, <2>7 DEF ExplanationFits, chosen, marker
<1> QED
  BY <1>1, Invariance, PTL

\* What the explainer lists are always the runs of the markers on the timeline, which
\* an index sets together with the incidents made of them.
MarkersGrouped == RunsOf(incidents, ToSet(markers))

LEMMA IndexGrouped ==
  ASSUME NEW f \in Openable, NEW sidecar
  PROVE  RunsOf(MarkedFor(f, sidecar).incidents, ToSet(MarkedFor(f, sidecar).markers))
<1>1. /\ MarkedFor(f, sidecar).markers \in Seq(MarkerSet)
      /\ MarkedFor(f, sidecar).incidents = GroupRecipeMarkers(MarkedFor(f, sidecar).markers)
  BY MadeTyped
<1> QED
  BY <1>1, IncidentsRunOn

LEMMA GroupedStays == MarkersGrouped /\ UNCHANGED markerVars => MarkersGrouped'
BY DEF MarkersGrouped, markerVars

LEMMA MarkersSetGrouped ==
  ASSUME NEW new, NEW all, MarkersBecome(new, all), RunsOf(all, ToSet(new))
  PROVE  MarkersGrouped'
BY DEF MarkersBecome, MarkersGrouped

LEMMA NextGroups == IInv /\ MarkersGrouped /\ [Next]_vars => MarkersGrouped'
<1> SUFFICES ASSUME IInv, MarkersGrouped, [Next]_vars PROVE MarkersGrouped'
  OBVIOUS
<1>1. ASSUME NEW n \in DOMAIN ops, NEW fails \in BOOLEAN, OpenLoaded(n, fails)
      PROVE  MarkersGrouped'
  <2>1. RunsOf(<<>>, ToSet(<<>>))
    BY DEF RunsOf, Apart, ToSet
  <2>2. CASE markers' = <<>> /\ incidents' = <<>>
    BY <2>1, <2>2 DEF MarkersGrouped
  <2>3. CASE UNCHANGED markerVars
    BY <2>3, GroupedStays
  <2> QED
    BY <1>1, <2>2, <2>3 DEF OpenLoaded, Superseded
<1>2. ASSUME NEW n \in DOMAIN ops, NEW fails \in BOOLEAN, Indexed(n, fails)
      PROVE  MarkersGrouped'
  <2>1. CASE IndexBecomes(MarkedFor(ingest[1].file, ingest[1].sidecar))
    <3>1. n \in 1 .. Len(ops) /\ ops[n].step = "index"
      BY <1>2 DEF IInv, OpsInv, Indexed
    <3>2. ingest[1].file \in Openable
      BY <3>1 DEF IInv, OpsInv, SessionTyped
    <3> QED
      BY <2>1, <3>2, IndexGrouped, MarkersSetGrouped DEF IndexBecomes
  <2>2. CASE UNCHANGED markerVars
    BY <2>2, GroupedStays
  <2> QED
    BY <1>2, <2>1, <2>2 DEF Indexed, Superseded
<1>3. ASSUME NEW n \in DOMAIN ops, NEW fails \in BOOLEAN,
             Build(n) \/ ReadCache(n, fails) \/ Install(n, fails)
      PROVE  UNCHANGED markerVars
  BY <1>3 DEF Build, ReadCache, Install, InstallEngine, Superseded
<1>4. ASSUME \/ Tick \/ TimerFires
             \/ \E l \in loads : Loaded(l) \/ RefreshFails(l)
             \/ \E e \in explains, fails \in BOOLEAN : Explained(e, fails)
      PROVE  UNCHANGED markerVars
  BY <1>4 DEF Tick, TimerFires, Loaded, RefreshFails, Explained
<1>5. ASSUME User PROVE UNCHANGED markerVars
  BY <1>5 DEF User, Open, Seek, SetFixedFrame, TogglePlaying, Choose
<1>6. UNCHANGED vars => UNCHANGED markerVars
  BY DEF vars
<1>7. CASE Async
  BY <1>1, <1>2, <1>3, <1>4, <1>7, GroupedStays DEF Async
<1> QED
  BY <1>5, <1>6, <1>7, GroupedStays DEF Next

\* Whatever is opened, indexed or fails in between, the explainer never lists incidents of
\* other markers than those of the timeline, nor one run of them as two.
THEOREM TimelineGrouped == Spec => []MarkersGrouped
<1>1. Init => MarkersGrouped
  BY DEF Init, MarkersGrouped, RunsOf, Apart, ToSet
<1> QED
  BY <1>1, NextGroups, Invariance, PTL DEF Spec

-----------------------------------------------------------------------------
(* What is asked for is not forgotten.                                     *)

\* The recording of such an operation has been installed, or never will be.
Installed(op) == op.step \notin {"cache", "build", "save"}

\* A load that will be displayed is for the time and the frame of now.
FreshFits(l) ==
  /\ Opened /\ l.op \in 1 .. Len(ops) /\ Installed(ops[l.op])
  /\ l.op = ingest[1].op => l.time = playhead /\ l.frame = fixedFrame

AskedInv ==
  /\ Opened => Installed(ops[ingest[1].op])
  /\ \A l \in loads : l.fresh => FreshFits(l)

\* What a step that installs nothing leaves of the operations and of the loads.
Advances ==
  /\ Len(ops) \in Nat /\ Len(ops') \in Nat /\ Len(ops') >= Len(ops)
  /\ \A k \in 1 .. Len(ops) : Installed(ops[k]) => Installed(ops'[k])

LoadsKept == \A l \in loads' : l.fresh => l \in loads /\ UNCHANGED <<playhead, fixedFrame>>

LEMMA StaleNotFresh == LoadsInv => \A l \in Stale(loads) : ~l.fresh
<1> SUFFICES ASSUME LoadsInv, NEW l \in loads
             PROVE  ~[l EXCEPT !.fresh = FALSE].fresh
  BY DEF Stale
<1>1. PICK a, b, c, d : l = [op |-> a, time |-> b, frame |-> c, fresh |-> d]
  BY DEF LoadsInv, LoadTyped
<1>2. PICK v : v = FALSE
  OBVIOUS
<1>3. [l EXCEPT !.fresh = v] = [op |-> a, time |-> b, frame |-> c, fresh |-> v]
  BY <1>1
<1> QED
  BY <1>2, <1>3

LEMMA StaleKept == LoadsInv /\ loads' = Stale(loads) => LoadsKept
BY StaleNotFresh DEF LoadsKept

LEMMA SameKept == UNCHANGED <<loads, playhead, fixedFrame>> => LoadsKept
BY DEF LoadsKept

LEMMA OpsSame == OpsInv /\ UNCHANGED ops => Advances
BY DEF Advances, OpsInv

\* An operation is replaced by one that is no further from its end.
LEMMA OpAdvances ==
  ASSUME OpsInv, NEW n \in 1 .. Len(ops), NEW op, OpBecomes(n, op),
         Installed(ops[n]) => Installed(op)
  PROVE  Advances
<1>1. ops \in Seq(ToSet(ops)) /\ ops' = [ops EXCEPT ![n] = op]
  BY DEF OpsInv, OpBecomes
<1>2. /\ Len(ops') = Len(ops) /\ Len(ops) \in Nat /\ ops'[n] = op
      /\ \A k \in 1 .. Len(ops) : k # n => ops'[k] = ops[k]
  BY <1>1
<1> QED
  BY <1>2 DEF Advances

LEMMA EndAdvances ==
  ASSUME OpsInv, NEW n \in 1 .. Len(ops), NEW step \in {"done", "failed", "superseded"},
         Ended(n, step)
  PROVE  Advances
<1> DEFINE op == [step |-> step]
<1>1. Installed(op) /\ OpBecomes(n, op)
  BY DEF Installed, Ended
<1> HIDE DEF op
<1> QED
  BY <1>1, OpAdvances

LEMMA AskedStays ==
  ASSUME IInv, AskedInv, UNCHANGED ingest, Advances, LoadsKept
  PROVE  AskedInv'
<1>1. Opened' = Opened /\ (Opened => ingest[1].op \in 1 .. Len(ops)) /\ ops \in Seq(ToSet(ops))
  BY DEF Opened, IInv, OpsInv
<1>2. Opened' => Installed(ops'[ingest'[1].op])
  BY <1>1 DEF AskedInv, Advances
<1>3. ASSUME NEW l \in loads', l.fresh
      PROVE  FreshFits(l)'
  <2>1. l \in loads /\ UNCHANGED <<playhead, fixedFrame>>
    BY <1>3 DEF LoadsKept
  <2>2. FreshFits(l)
    BY <1>3, <2>1 DEF AskedInv
  <2>3. l.op \in 1 .. Len(ops) /\ Installed(ops'[l.op])
    BY <2>2 DEF FreshFits, Advances
  <2>4. l.op \in 1 .. Len(ops')
    BY <2>3 DEF Advances
  <2> QED
    BY <1>1, <2>1, <2>2, <2>3, <2>4 DEF FreshFits
<1> QED
  BY <1>2, <1>3 DEF AskedInv

\* The steps of an opening but for the installing and the end of the index.
LEMMA OpeningQuiet ==
  ASSUME IInv, NEW n \in 1 .. Len(ops), NEW fails \in BOOLEAN,
         Superseded(n) \/ ReadCache(n, fails) \/ Build(n) \/ OpenLoaded(n, fails)
  PROVE  UNCHANGED <<ingest, playhead, fixedFrame, armed, loads>> /\ Advances
<1>1. UNCHANGED <<ingest, playhead, fixedFrame, armed, loads>>
  BY DEF Superseded, ReadCache, Build, OpenLoaded, askVars
<1>2. OpsInv /\ OpTyped(ops[n])
  BY DEF IInv, OpsInv
<1>3. ASSUME \E step \in {"failed", "superseded"} : Ended(n, step)
      PROVE  Advances
  <2>1. PICK step \in {"failed", "superseded"} : Ended(n, step)
    BY <1>3
  <2> QED
    BY <1>2, <2>1, EndAdvances
<1>4. ASSUME \E op : OpBecomes(n, op) /\ ops[n].step \in {"cache", "build"}
      PROVE  Advances
  <2>1. ~Installed(ops[n])
    BY <1>4 DEF Installed
  <2>2. PICK op : OpBecomes(n, op)
    BY <1>4
  <2> QED
    BY <1>2, <2>1, <2>2, OpAdvances
<1>5. ASSUME OpBecomes(n, [ops[n] EXCEPT !.step = "index"]), ops[n].step = "load"
      PROVE  Advances
  <2>1. [ops[n] EXCEPT !.step = "index"] =
          [file |-> ops[n].file, step |-> "index", sidecar |-> ops[n].sidecar, frame |-> ops[n].frame]
    BY <1>2, <1>5, StepWith
  <2>2. PICK op : op = [ops[n] EXCEPT !.step = "index"]
    OBVIOUS
  <2>3. Installed(op) /\ OpBecomes(n, op)
    BY <1>5, <2>1, <2>2 DEF Installed
  <2> QED
    BY <1>2, <2>3, OpAdvances
<1>6. Advances
  BY <1>3, <1>4, <1>5 DEF Superseded, ReadCache, Build, OpenLoaded
<1> QED
  BY <1>1, <1>6

\* New markers ask again, or leave what is asked for as it is.
LEMMA MarkersAsk ==
  ASSUME LoadsInv, NEW new, NEW all, MarkersBecome(new, all), UNCHANGED fixedFrame
  PROVE  LoadsKept /\ (armed' = TRUE \/ UNCHANGED <<armed, loads>>)
<1>1. CASE UNCHANGED <<playhead, askVars>>
  BY <1>1, SameKept DEF askVars
<1>2. CASE \E time : SetCurrentTime(time)
  BY <1>2, StaleKept DEF SetCurrentTime, RefreshInspection
<1> QED
  BY <1>1, <1>2 DEF MarkersBecome

LEMMA IndexedAsks ==
  ASSUME IInv, NEW n \in 1 .. Len(ops), NEW fails \in BOOLEAN, Indexed(n, fails)
  PROVE  /\ UNCHANGED ingest /\ Advances /\ LoadsKept
         /\ armed' = TRUE \/ UNCHANGED <<armed, loads>>
<1>1. CASE Superseded(n)
  BY <1>1, OpeningQuiet, SameKept
<1>2. CASE ~Superseded(n)
  <2>1. UNCHANGED <<ingest, fixedFrame>> /\ LoadsInv /\ OpsInv
    BY <1>2 DEF Indexed, IInv
  <2>2. Advances
    BY <1>2, <2>1, EndAdvances DEF Indexed
  <2>3. CASE UNCHANGED <<playhead, askVars>>
    BY <2>1, <2>2, <2>3, SameKept DEF askVars
  <2>4. CASE IndexBecomes(MarkedFor(ingest[1].file, ingest[1].sidecar))
    BY <2>1, <2>2, <2>4, MarkersAsk DEF IndexBecomes
  <2> QED
    BY <1>2, <2>3, <2>4 DEF Indexed
<1> QED
  BY <1>1, <1>2

\* What the user and the playback do, but for opening a recording.
LEMMA ViewAsks ==
  ASSUME IInv,
         \/ Tick \/ TogglePlaying
         \/ \E time : Seek(time)
         \/ \E f \in FixedFrames : SetFixedFrame(f)
         \/ \E i \in DOMAIN incidents : Choose(incidents[i])
  PROVE  /\ UNCHANGED ingest /\ Advances /\ LoadsKept
         /\ armed' = TRUE \/ UNCHANGED <<armed, loads>>
<1>1. UNCHANGED <<ops, ingest>> /\ OpsInv /\ LoadsInv
  BY DEF Tick, TogglePlaying, Seek, SetFixedFrame, Choose, IInv
<1>2. RefreshInspection \/ UNCHANGED <<playhead, fixedFrame, askVars>>
  BY DEF Tick, TogglePlaying, Seek, SetFixedFrame, Choose, ChooseIncident, SetCurrentTime
<1> QED
  BY <1>1, <1>2, OpsSame, StaleKept, SameKept DEF RefreshInspection, askVars

LEMMA OpenAsks ==
  ASSUME IInv, NEW o \in Openings, Open(o)
  PROVE  UNCHANGED ingest /\ Advances /\ LoadsKept /\ Underway'
<1> DEFINE op == [file |-> o.file, step |-> "cache", sidecar |-> o.given, frame |-> fixedFrame]
<1>1. ops' = Append(ops, op) /\ op.step = "cache" /\ UNCHANGED ingest /\ loads' = Stale(loads)
  BY DEF Open
<1> HIDE DEF op
<1>2. ops \in Seq(ToSet(ops) \cup {op}) /\ LoadsInv
  BY DEF IInv, OpsInv
<1>3. /\ Len(ops) \in Nat /\ Len(ops') = Len(ops) + 1 /\ ops' # <<>>
      /\ ops'[Len(ops')] = op /\ \A k \in 1 .. Len(ops) : ops'[k] = ops[k]
  BY <1>1, <1>2
<1> QED
  BY <1>1, <1>2, <1>3, StaleKept DEF Advances, Underway

LEMMA AnswerAsks ==
  ASSUME IInv,
         \/ \E l \in loads : Loaded(l) \/ RefreshFails(l)
         \/ \E e \in explains, fails \in BOOLEAN : Explained(e, fails)
         \/ UNCHANGED vars
  PROVE  UNCHANGED ingest /\ Advances /\ LoadsKept
<1>1. UNCHANGED <<ops, ingest, playhead, fixedFrame>> /\ loads' \subseteq loads /\ OpsInv
  BY DEF Loaded, RefreshFails, Explained, vars, askVars, IInv
<1> QED
  BY <1>1, OpsSame DEF LoadsKept

LEMMA TimerAsks == IInv /\ AskedInv /\ TimerFires => AskedInv'
<1> SUFFICES ASSUME IInv, AskedInv, TimerFires PROVE AskedInv'
  OBVIOUS
<1>0. PICK new :
        new = [op |-> ingest[1].op, time |-> playhead, frame |-> fixedFrame, fresh |-> TRUE]
  OBVIOUS
<1>1. Opened /\ ingest[1].op \in 1 .. Len(ops)
  BY DEF IInv, ViewInv, OpsInv, TimerFires
<1>2. loads' = loads \cup {new} /\ UNCHANGED <<ops, ingest, playhead, fixedFrame>>
  BY <1>0 DEF TimerFires
<1>3. Installed(ops[ingest[1].op])
  BY <1>1 DEF AskedInv
<1>4. FreshFits(new)'
  BY <1>0, <1>1, <1>2, <1>3 DEF FreshFits, Opened, Installed
<1>5. \A l \in loads : l.fresh => FreshFits(l)'
  BY <1>2 DEF AskedInv, FreshFits, Opened, Installed
<1>6. Opened' => Installed(ops'[ingest'[1].op])
  BY <1>2, <1>3
<1>7. \A l \in loads' : l.fresh => FreshFits(l)'
  BY <1>2, <1>4, <1>5
<1> QED
  BY <1>6, <1>7 DEF AskedInv, Installed

LEMMA InstallAsks ==
  ASSUME IInv, AskedInv, NEW n \in 1 .. Len(ops), NEW fails \in BOOLEAN, Install(n, fails)
  PROVE  /\ AskedInv'
         /\ Underway \/ UNCHANGED <<ingest, armed, loads>>
<1>1. CASE Superseded(n)
  BY <1>1, OpeningQuiet, AskedStays, SameKept
<1>2. CASE ~Superseded(n)
  <2> DEFINE engine == EngineFor(ops[n].file, ops[n].sidecar)
             new == [op |-> n, file |-> ops[n].file, sidecar |-> ops[n].sidecar,
                     start |-> engine.start, end |-> engine.end]
             op  == [file |-> ops[n].file, step |-> "load", sidecar |-> ops[n].sidecar,
                     frame |-> fixedFrame]
  <2>1. /\ ops[n].step = "save" /\ n = Len(ops)
        /\ OpBecomes(n, [ops[n] EXCEPT !.step = "load", !.frame = fixedFrame])
        /\ ingest' = <<new>> /\ UNCHANGED askVars
    BY <1>2 DEF Install, InstallEngine, IsCurrent
  <2>2. OpsInv /\ ops \in Seq(ToSet(ops))
    BY DEF IInv, OpsInv
  <2>o. OpTyped(ops[n])
    BY <2>2 DEF OpsInv
  <2>3. [ops[n] EXCEPT !.step = "load", !.frame = fixedFrame] = op
    <3>1. ops[n].step \in {"cache", "build", "save", "load", "index"}
      BY <2>1
    <3> HIDE DEF engine, new
    <3> QED
      BY <2>o, <3>1, FrameWith
  <2>4. Opened' /\ ingest'[1].op = n /\ Installed(op) /\ ~Installed(ops[n])
    BY <2>1 DEF Opened, Installed
  <2> HIDE DEF op, new, engine
  <2>5. ops' = [ops EXCEPT ![n] = op] /\ loads' = loads
    BY <2>1, <2>3 DEF OpBecomes, askVars
  <2>6. /\ Len(ops') = Len(ops) /\ ops'[n] = op
        /\ \A k \in 1 .. Len(ops) : k # n => ops'[k] = ops[k]
    BY <2>2, <2>5
  <2>7. ASSUME NEW l \in loads', l.fresh
        PROVE  FreshFits(l)'
    <3>1. l.op \in 1 .. Len(ops) /\ Installed(ops[l.op])
      BY <2>5, <2>7 DEF AskedInv, FreshFits
    <3>2. l.op # n
      BY <2>4, <3>1
    <3>3. ops'[l.op] = ops[l.op]
      BY <2>6, <3>1, <3>2
    <3> QED
      BY <2>4, <2>6, <3>1, <3>2, <3>3 DEF FreshFits, Installed
  <2>8. AskedInv'
    BY <2>4, <2>6, <2>7 DEF AskedInv, Installed
  <2>9. Underway
    BY <2>1, <2>2 DEF Underway
  <2> QED
    BY <2>8, <2>9
<1> QED
  BY <1>1, <1>2

\* What a step other than the timer and an installing may do.
LEMMA StepsAsk ==
  ASSUME IInv, [Next]_vars
  PROVE  \/ TimerFires
         \/ \E n \in 1 .. Len(ops), fails \in BOOLEAN : Install(n, fails)
         \/ UNCHANGED ingest /\ Advances /\ LoadsKept
<1>d. DOMAIN ops = 1 .. Len(ops)
  BY DEF IInv, OpsInv
<1> DEFINE Quiet == UNCHANGED ingest /\ Advances /\ LoadsKept
<1>1. ASSUME NEW n \in DOMAIN ops, NEW fails \in BOOLEAN,
             Build(n) \/ ReadCache(n, fails) \/ OpenLoaded(n, fails) \/ Indexed(n, fails)
      PROVE  Quiet
  BY <1>d, <1>1, OpeningQuiet, SameKept, IndexedAsks
<1>2. ASSUME \/ \E l \in loads : Loaded(l) \/ RefreshFails(l)
             \/ \E e \in explains, fails \in BOOLEAN : Explained(e, fails)
             \/ UNCHANGED vars
      PROVE  Quiet
  BY <1>2, AnswerAsks
<1>3. ASSUME Tick \/ (User /\ \A o \in Openings : ~Open(o))
      PROVE  Quiet
  BY <1>3, ViewAsks DEF User
<1>4. ASSUME NEW o \in Openings, Open(o)
      PROVE  Quiet
  BY <1>4, OpenAsks
<1> HIDE DEF Quiet
<1>5. CASE Async
  BY <1>d, <1>1, <1>2, <1>3, <1>5 DEF Async, Quiet
<1>6. CASE User
  BY <1>3, <1>4, <1>6 DEF Quiet
<1> QED
  BY <1>2, <1>5, <1>6 DEF Next, Quiet

LEMMA NextAsks == IInv /\ AskedInv /\ [Next]_vars => AskedInv'
BY StepsAsk, TimerAsks, InstallAsks, AskedStays

\* What keeps a display asked for.
LEMMA StillAsked ==
  ASSUME Asked, UNCHANGED ingest, armed' = TRUE \/ UNCHANGED <<armed, loads>>
  PROVE  Asked'
BY DEF Asked

LEMMA TimerLoads == TimerFires => Asked'
<1> SUFFICES ASSUME TimerFires PROVE Asked'
  OBVIOUS
<1> DEFINE new == [op |-> ingest[1].op, time |-> playhead, frame |-> fixedFrame, fresh |-> TRUE]
<1>1. new \in loads' /\ new.fresh /\ new.op = ingest'[1].op
  BY DEF TimerFires
<1> HIDE DEF new
<1> QED
  BY <1>1 DEF Asked

\* An answer is displayed, or is not the one that is asked for.
LEMMA LoadedAsks ==
  ASSUME AskedInv, Asked, NEW l \in loads, Loaded(l)
  PROVE  Asked' \/ OnDisplay'
<1>1. /\ loads' = loads \ {l}
      /\ UNCHANGED <<ingest, playhead, fixedFrame, armed>>
  BY DEF Loaded
<1>2. CASE l.fresh /\ l.op = ingest[1].op
  <2>1. shown' = [op |-> l.op, time |-> l.time, frame |-> l.frame]
    BY <1>2 DEF Loaded
  <2>2. Opened /\ l.time = playhead /\ l.frame = fixedFrame
    BY <1>2 DEF AskedInv, FreshFits
  <2> QED
    BY <1>1, <1>2, <2>1, <2>2 DEF OnDisplay, Opened
<1>3. CASE ~(l.fresh /\ l.op = ingest[1].op)
  BY <1>1, <1>3 DEF Asked
<1> QED
  BY <1>2, <1>3

LEMMA NextRemembers ==
  ASSUME IInv, AskedInv, [Next]_vars, Asked, ~Underway
  PROVE  Asked' \/ OnDisplay' \/ Underway' \/ \E l \in loads : RefreshFails(l)
<1> DEFINE Goal == Asked' \/ OnDisplay' \/ Underway' \/ \E l \in loads : RefreshFails(l)
<1>d. DOMAIN ops = 1 .. Len(ops)
  BY DEF IInv, OpsInv
<1>1. ASSUME NEW n \in DOMAIN ops, NEW fails \in BOOLEAN,
             \/ Build(n) \/ ReadCache(n, fails) \/ Install(n, fails)
             \/ OpenLoaded(n, fails) \/ Indexed(n, fails)
      PROVE  Goal
  <2>1. UNCHANGED ingest /\ (armed' = TRUE \/ UNCHANGED <<armed, loads>>)
    BY <1>d, <1>1, OpeningQuiet, InstallAsks, IndexedAsks
  <2> QED
    BY <2>1, StillAsked
<1>2. ASSUME \/ UNCHANGED vars
             \/ \E e \in explains, fails \in BOOLEAN : Explained(e, fails)
      PROVE  Goal
  <2>1. UNCHANGED <<ingest, armed, loads>>
    BY <1>2 DEF Explained, vars, askVars
  <2> QED
    BY <2>1, StillAsked
<1>3. ASSUME NEW l \in loads, Loaded(l) \/ RefreshFails(l)
      PROVE  Goal
  BY <1>3, LoadedAsks
<1>4. ASSUME Tick \/ (User /\ \A o \in Openings : ~Open(o))
      PROVE  Goal
  <2>1. UNCHANGED ingest /\ (armed' = TRUE \/ UNCHANGED <<armed, loads>>)
    BY <1>4, ViewAsks DEF User
  <2> QED
    BY <2>1, StillAsked
<1>5. ASSUME NEW o \in Openings, Open(o)
      PROVE  Goal
  BY <1>5, OpenAsks
<1>6. CASE TimerFires
  BY <1>6, TimerLoads
<1> HIDE DEF Goal
<1>7. CASE Async
  BY <1>1, <1>2, <1>3, <1>4, <1>6, <1>7 DEF Async, Goal
<1>8. CASE User
  BY <1>4, <1>5, <1>8 DEF Goal
<1> QED
  BY <1>2, <1>7, <1>8 DEF Next, Goal

\* Outside of an open, what is asked for by a gesture, the playback or the effect of new
\* markers is displayed, at the time and in the frame that are then current, or stays
\* asked for, until a query throws or a recording is opened: no answer that was
\* superseded, no end of another opening and no call of the explainer is in its way.
THEOREM DisplayIsRemembered == Spec => OnlyFailuresForget
<1>1. Init => AskedInv
  BY DEF Init, AskedInv, Opened
<1>2. /\ IInv /\ AskedInv /\ [Next]_vars
      => [Asked /\ ~Underway /\ ~Asked' /\ ~OnDisplay' =>
            Underway' \/ \E l \in loads : RefreshFails(l)]_vars
  BY NextRemembers
<1> QED
  BY <1>1, <1>2, NextAsks, Invariance, PTL DEF Spec, OnlyFailuresForget

-----------------------------------------------------------------------------
(* Transforms: what a buffer keeps and what a lookup finds.                *)

\* What is stored: a static transform is of time 0, a moving one of some stamp.
Stored(T) == \A t \in T : t.time \in Nat /\ t.static \in BOOLEAN /\ (t.static => t.time = 0)

EdgesOf(T) ==
  [parent : {t.parent : t \in T}, child : {t.child : t \in T}, static : BOOLEAN, samples : Seq(T)]

Between(all, parent, child) == {t \in all : t.parent = parent /\ t.child = child}

\* The samples of an edge, out of the transforms given for it: all of them in order of
\* time, or a static one and the moving ones that came after it.
Keeps(e, own) ==
  /\ Sorted(e.samples) /\ ToSet(e.samples) \subseteq own
  /\ e.static <=> \E t \in own : t.static
  /\ IF e.static THEN e.samples # <<>> /\ e.samples[1].static ELSE ToSet(e.samples) = own

\* A buffer that was given some transforms: one edge for each pair of frames.
Reflects(b, T, all) ==
  /\ b \in Seq(EdgesOf(T)) /\ all \subseteq T
  /\ \A i, j \in DOMAIN b : b[i].parent = b[j].parent /\ b[i].child = b[j].child => i = j
  /\ \A t \in all : \E i \in DOMAIN b : b[i].parent = t.parent /\ b[i].child = t.child
  /\ \A i \in DOMAIN b : Keeps(b[i], Between(all, b[i].parent, b[i].child))

\* A sample more.
LEMMA SampledKeeps ==
  ASSUME NEW T, Stored(T), NEW e \in EdgesOf(T), NEW own \in SUBSET T, NEW t \in T,
         Keeps(e, own) \/ t.static
  PROVE  LET r == Sampled(e, t, Unbounded)
         IN /\ r \in EdgesOf(T) /\ r.parent = e.parent /\ r.child = e.child
            /\ Keeps(r, own \cup {t})
<1> DEFINE r == Sampled(e, t, Unbounded)
<1>1. t.time \in Nat /\ t.static \in BOOLEAN /\ (t.static => t.time = 0)
  BY DEF Stored
<1>2. e.samples \in Seq(T) /\ e.static \in BOOLEAN
  BY DEF EdgesOf
<1>3. CASE t.static
  <2>1. r = [e EXCEPT !.static = TRUE, !.samples = <<t>>]
    BY <1>3 DEF Sampled
  <2>2. r \in EdgesOf(T) /\ r.parent = e.parent /\ r.child = e.child
        /\ r.static = TRUE /\ r.samples = <<t>>
    <3>1. <<t>> \in Seq(T)
      OBVIOUS
    <3> HIDE DEF r
    <3> QED
      BY <2>1, <3>1 DEF EdgesOf
  <2> HIDE DEF r
  <2>3. Sorted(<<t>>)
    <3>1. Len(<<t>>) = 1 /\ <<t>>[1] = t
      OBVIOUS
    <3>2. \A i \in 1 .. 1 : i = 1
      OBVIOUS
    <3> QED
      BY <1>1, <3>1, <3>2 DEF Sorted
  <2>4. ToSet(<<t>>) = {t} /\ <<t>> # <<>> /\ <<t>>[1] = t
    BY DEF ToSet
  <2>5. Keeps(r, own \cup {t})
    BY <1>1, <1>3, <2>2, <2>3, <2>4 DEF Keeps
  <2> QED
    BY <2>2, <2>5 DEF r
<1>4. CASE ~ t.static
  <2> DEFINE s == e.samples
             put == InsertAt(s, Position(s, t.time) + 1, t)
  <2>1. Keeps(e, own)
    BY <1>4
  <2>2. r = [e EXCEPT !.samples = put]
    BY <1>4 DEF Sampled, WithSample
  <2>3. put \in Seq(T) /\ Sorted(put) /\ ToSet(put) = ToSet(s) \cup {t}
    BY <1>1, <1>2, <2>1, InsertKeepsSorted DEF Keeps
  <2>4. ASSUME e.static PROVE put # <<>> /\ put[1].static
    <3>1. /\ s \in Seq(T) /\ s # <<>> /\ s[1].static /\ Sorted(s)
      BY <1>2, <2>1, <2>4 DEF Keeps
    <3>a. PICK at \in Int : at = t.time
      BY <1>1
    <3>2. PICK c \in 0 .. Len(s) : \A i \in 1 .. Len(s) : s[i].time <= at <=> i <= c
      <4> HIDE DEF s
      <4> QED
        BY <3>1, SortedCut
    <3>3. Position(s, t.time) = c
      <4> HIDE DEF s
      <4> QED
        BY <3>1, <3>a, <3>2, PositionIsCut
    <3>4. Len(s) \in Nat /\ 1 \in 1 .. Len(s) /\ s[1] \in T
      BY <3>1
    <3>5. s[1].time = 0
      BY <3>1, <3>4 DEF Stored
    <3>6. 1 <= c
      BY <1>1, <3>a, <3>2, <3>4, <3>5
    <3>7. put = InsertAt(s, c + 1, t)
      BY <3>3
    <3> HIDE DEF put
    <3>8. Len(put) = Len(s) + 1 /\ \A i \in 1 .. Len(s) + 1 : i <= c => put[i] = s[i]
      <4> HIDE DEF s
      <4>1. /\ Len(InsertAt(s, c + 1, t)) = Len(s) + 1
            /\ \A i \in 1 .. Len(s) + 1 :
                 InsertAt(s, c + 1, t)[i] = IF i <= c THEN s[i] ELSE IF i = c + 1 THEN t ELSE s[i - 1]
        BY <3>1, <3>2, InsertAtValues
      <4> QED
        BY <3>7, <4>1
    <3>9. put[1] = s[1] /\ Len(put) # 0
      BY <3>4, <3>6, <3>8
    <3> QED
      BY <3>1, <3>9
  <2>5. /\ r \in EdgesOf(T) /\ r.parent = e.parent /\ r.child = e.child
        /\ r.static = e.static /\ r.samples = put
    <3> HIDE DEF put
    <3> QED
      BY <2>2, <2>3 DEF EdgesOf
  <2> HIDE DEF put, r
  <2>6. Keeps(r, own \cup {t})
    BY <1>2, <1>4, <2>1, <2>3, <2>4, <2>5 DEF Keeps
  <2> QED
    BY <2>5, <2>6 DEF r
<1> QED
  BY <1>1, <1>3, <1>4

\* The least of some numbers.
LEMMA MinOfSome ==
  ASSUME NEW I, I \subseteq Nat, I # {}
  PROVE  Min(I) \in I /\ \A i \in I : Min(I) <= i
<1>1. \E m \in I : \A k \in I : m <= k
  BY LeastNatural
<1> QED
  BY <1>1 DEF Min

\* The edge between two frames is found, if there is one.
LEMMA EdgeFound ==
  ASSUME NEW T, NEW b \in Seq(EdgesOf(T)), NEW parent, NEW child
  PROVE  \/ EdgeOf(b, parent, child) = 0
            /\ \A i \in DOMAIN b : ~ (b[i].parent = parent /\ b[i].child = child)
         \/ EdgeOf(b, parent, child) \in DOMAIN b
            /\ b[EdgeOf(b, parent, child)].parent = parent
            /\ b[EdgeOf(b, parent, child)].child = child
<1> DEFINE I == {i \in 1 .. Len(b) : b[i].parent = parent /\ b[i].child = child}
<1>1. EdgeOf(b, parent, child) = IF I # {} THEN Min(I) ELSE 0
  BY DEF EdgeOf, SelectInSeq
<1>2. I # {} => Min(I) \in I
  <2>1. I \subseteq Nat
    OBVIOUS
  <2> HIDE DEF I
  <2> QED
    BY <2>1, MinOfSome
<1>3. DOMAIN b = 1 .. Len(b)
  OBVIOUS
<1>4. CASE I = {}
  BY <1>1, <1>3, <1>4
<1>5. CASE I # {}
  <2>1. EdgeOf(b, parent, child) \in I
    BY <1>1, <1>2, <1>5
  <2> QED
    BY <1>3, <2>1
<1> QED
  BY <1>4, <1>5

\* A transform more.
LEMMA AddedReflects ==
  ASSUME NEW T, Stored(T), NEW b, NEW all, Reflects(b, T, all), NEW t \in T
  PROVE  Reflects(AddTransform(b, t, Unbounded), T, all \cup {t})
<1> DEFINE more == all \cup {t}
           n == Len(b)
           r == AddTransform(b, t, Unbounded)
           Own(e) == Between(all, e.parent, e.child)
<1>1. /\ b \in Seq(EdgesOf(T)) /\ all \subseteq T
      /\ n \in Nat /\ DOMAIN b = 1 .. n /\ \A i \in 1 .. n : b[i] \in EdgesOf(T)
  BY DEF Reflects
<1>2. /\ \A i, j \in 1 .. n : b[i].parent = b[j].parent /\ b[i].child = b[j].child => i = j
      /\ \A u \in all : \E i \in 1 .. n : b[i].parent = u.parent /\ b[i].child = u.child
      /\ \A i \in 1 .. n : Keeps(b[i], Own(b[i]))
  BY <1>1 DEF Reflects
<1>3. \A p, c : /\ Between(all, p, c) \subseteq T
                /\ ~ (p = t.parent /\ c = t.child) => Between(more, p, c) = Between(all, p, c)
                /\ p = t.parent /\ c = t.child => Between(more, p, c) = Between(all, p, c) \cup {t}
  BY <1>1 DEF Between
<1>4. more \subseteq T
  BY <1>1
<1> HIDE DEF n
<1>5. CASE EdgeOf(b, t.parent, t.child) = 0
  <2> DEFINE new == [parent |-> t.parent, child |-> t.child, static |-> t.static, samples |-> <<>>]
             e == Sampled(new, t, Unbounded)
  <2>1. r = Append(b, e)
    BY <1>5 DEF AddTransform
  <2>2. \A i \in 1 .. n : ~ (b[i].parent = t.parent /\ b[i].child = t.child)
    BY <1>1, <1>5, EdgeFound
  <2>3. Between(all, t.parent, t.child) = {}
    BY <1>2, <2>2 DEF Between
  <2>4. new \in EdgesOf(T) /\ (Keeps(new, {}) \/ t.static)
    <3>1. t.static \in BOOLEAN /\ <<>> \in Seq(T)
      BY DEF Stored
    <3>2. new \in EdgesOf(T)
      BY <3>1 DEF EdgesOf
    <3>3. Sorted(<<>>) /\ ToSet(<<>>) = {}
      BY DEF Sorted, ToSet
    <3>4. ~ t.static => Keeps(new, {})
      BY <3>1, <3>3 DEF Keeps
    <3> HIDE DEF new
    <3> QED
      BY <3>2, <3>4
  <2>5. new.parent = t.parent /\ new.child = t.child
    OBVIOUS
  <2> HIDE DEF new
  <2>6. /\ e \in EdgesOf(T) /\ e.parent = t.parent /\ e.child = t.child
        /\ Keeps(e, {t})
    <3>1. {} \in SUBSET T /\ {} \cup {t} = {t}
      OBVIOUS
    <3> QED
      BY <2>4, <2>5, <3>1, SampledKeeps
  <2> HIDE DEF e, r
  <2>7. /\ r \in Seq(EdgesOf(T)) /\ DOMAIN r = 1 .. n + 1
        /\ r[n + 1] = e /\ \A i \in 1 .. n : r[i] = b[i]
    <3>1. e \in EdgesOf(T)
      BY <2>6
    <3>2. /\ Append(b, e) \in Seq(EdgesOf(T)) /\ Len(Append(b, e)) = Len(b) + 1
          /\ Append(b, e)[Len(b) + 1] = e /\ \A i \in 1 .. Len(b) : Append(b, e)[i] = b[i]
      BY <1>1, <3>1
    <3>3. DOMAIN Append(b, e) = 1 .. Len(Append(b, e))
      BY <3>2
    <3> QED
      BY <2>1, <3>2, <3>3 DEF n
  <2>8. \A i \in 1 .. n + 1 : i \in 1 .. n \/ i = n + 1
    BY <1>1
  <2>9. \A i, j \in 1 .. n + 1 : r[i].parent = r[j].parent /\ r[i].child = r[j].child => i = j
    BY <1>2, <2>2, <2>6, <2>7, <2>8
  <2>10. n + 1 \in 1 .. n + 1 /\ \A i \in 1 .. n : i \in 1 .. n + 1
    BY <1>1
  <2>11. \A u \in more : \E i \in 1 .. n + 1 : r[i].parent = u.parent /\ r[i].child = u.child
    BY <1>2, <2>6, <2>7, <2>10
  <2>12. \A i \in 1 .. n + 1 : Keeps(r[i], Between(more, r[i].parent, r[i].child))
    <3>1. Keeps(r[n + 1], Between(more, r[n + 1].parent, r[n + 1].child))
      <4>1. Between(more, t.parent, t.child) = {t}
        BY <1>3, <2>3
      <4> QED
        BY <2>6, <2>7, <4>1
    <3>2. ASSUME NEW i \in 1 .. n PROVE Keeps(r[i], Between(more, r[i].parent, r[i].child))
      <4>1. r[i] = b[i] /\ Keeps(b[i], Between(all, b[i].parent, b[i].child))
        BY <1>2, <2>7
      <4>2. Between(more, b[i].parent, b[i].child) = Between(all, b[i].parent, b[i].child)
        BY <1>3, <2>2
      <4> QED
        BY <4>1, <4>2
    <3> QED
      BY <2>8, <3>1, <3>2
  <2>13. Reflects(r, T, more)
    BY <1>4, <2>7, <2>9, <2>11, <2>12 DEF Reflects
  <2> QED
    BY <2>13 DEF r
<1>6. CASE EdgeOf(b, t.parent, t.child) # 0
  <2>1. PICK k \in 1 .. n : /\ k = EdgeOf(b, t.parent, t.child)
                            /\ b[k].parent = t.parent /\ b[k].child = t.child
    BY <1>1, <1>6, EdgeFound
  <2> DEFINE e == Sampled(b[k], t, Unbounded)
  <2>2. r = [b EXCEPT ![k] = e]
    BY <1>6, <2>1 DEF AddTransform
  <2>3. /\ e \in EdgesOf(T) /\ e.parent = t.parent /\ e.child = t.child
        /\ Keeps(e, Between(more, t.parent, t.child))
    <3> DEFINE own == Between(all, t.parent, t.child)
    <3>1. own \in SUBSET T /\ Keeps(b[k], own) /\ b[k] \in EdgesOf(T)
      BY <1>1, <1>2, <1>3, <2>1
    <3>2. Between(more, t.parent, t.child) = own \cup {t}
      BY <1>3
    <3> HIDE DEF own
    <3>3. e \in EdgesOf(T) /\ e.parent = b[k].parent /\ e.child = b[k].child /\ Keeps(e, own \cup {t})
      BY <3>1, SampledKeeps
    <3> QED
      BY <2>1, <3>2, <3>3
  <2> HIDE DEF e, r
  <2>4. /\ r \in Seq(EdgesOf(T)) /\ DOMAIN r = 1 .. n
        /\ r[k] = e /\ \A i \in 1 .. n : i # k => r[i] = b[i]
    <3>1. r \in [1 .. n -> EdgesOf(T)]
      BY <1>1, <2>2, <2>3
    <3> QED
      BY <1>1, <2>2, <3>1
  <2>5. \A i \in 1 .. n : r[i].parent = b[i].parent /\ r[i].child = b[i].child
    BY <2>1, <2>3, <2>4
  <2>6. \A u \in more : \E i \in 1 .. n : r[i].parent = u.parent /\ r[i].child = u.child
    BY <1>2, <2>1, <2>5
  <2>7. \A i \in 1 .. n : Keeps(r[i], Between(more, r[i].parent, r[i].child))
    <3>1. Keeps(r[k], Between(more, r[k].parent, r[k].child))
      BY <2>3, <2>4
    <3>2. ASSUME NEW i \in 1 .. n, i # k PROVE Keeps(r[i], Between(more, r[i].parent, r[i].child))
      <4>1. ~ (b[i].parent = t.parent /\ b[i].child = t.child)
        BY <1>2, <2>1, <3>2
      <4>2. r[i] = b[i] /\ Keeps(b[i], Between(all, b[i].parent, b[i].child))
        BY <1>2, <2>4, <3>2
      <4>3. Between(more, b[i].parent, b[i].child) = Between(all, b[i].parent, b[i].child)
        BY <1>3, <4>1
      <4> QED
        BY <4>2, <4>3
    <3> QED
      BY <3>1, <3>2
  <2>8. \A i, j \in 1 .. n : r[i].parent = r[j].parent /\ r[i].child = r[j].child => i = j
    BY <1>2, <2>5
  <2>9. Reflects(r, T, more)
    <3> HIDE DEF more
    <3> QED
      BY <1>4, <2>4, <2>6, <2>7, <2>8 DEF Reflects
  <2> QED
    BY <2>9 DEF r
<1> QED
  BY <1>5, <1>6

\* A buffer filled by transforms was given these.
LEMMA BufferedReflects ==
  ASSUME NEW T, Stored(T), NEW given \in Seq(T)
  PROVE  Reflects(Buffered(given), T, ToSet(given))
<1> DEFINE n == Len(given)
           Put(b, t) == AddTransform(b, t, Unbounded)
           Turn(f) == [k \in 0 .. n |-> IF k = 0 THEN <<>> ELSE Put(f[k - 1], given[k])]
           after == CHOOSE f : f = Turn(f)
           V == {b \in Seq(EdgesOf(T)) : \E all \in SUBSET T : Reflects(b, T, all)}
           First(k) == {given[j] : j \in 1 .. k}
<1>n. n \in Nat /\ \A k \in 1 .. n : given[k] \in T
  OBVIOUS
<1>1. Buffered(given) = after[n]
  BY DEF Buffered
<1>2. \A v \in V, t \in T : Put(v, t) \in V
  <2>1. ASSUME NEW v \in V, NEW t \in T PROVE Put(v, t) \in V
    <3>1. PICK all \in SUBSET T : Reflects(v, T, all)
      OBVIOUS
    <3>2. Reflects(Put(v, t), T, all \cup {t})
      BY <3>1, AddedReflects
    <3>3. all \cup {t} \in SUBSET T /\ Put(v, t) \in Seq(EdgesOf(T))
      BY <3>2 DEF Reflects
    <3> HIDE DEF Put
    <3> QED
      BY <3>2, <3>3
  <2> HIDE DEF V, Put
  <2> QED
    BY <2>1
<1>3. <<>> \in Seq(EdgesOf(T)) /\ Reflects(<<>>, T, {}) /\ <<>> \in V
  <2>1. <<>> \in Seq(EdgesOf(T)) /\ DOMAIN <<>> = {}
    OBVIOUS
  <2>2. Reflects(<<>>, T, {})
    BY <2>1 DEF Reflects
  <2> QED
    BY <2>1, <2>2
<1> HIDE DEF Put
<1>4. \E f : f = Turn(f)
  <2> DEFINE comb == [p \in (1 .. n) \X V |-> Put(p[2], given[p[1]])]
  <2>1. \A k \in 1 .. n, v \in V : comb[<<k, v>>] = Put(v, given[k])
    <3> HIDE DEF V, n
    <3> QED
      OBVIOUS
  <2>2. LoopIn(V, n, <<>>, comb)
    <3> HIDE DEF V, comb, Turn
    <3> QED
      BY <1>n, <1>2, <1>3, <2>1 DEF LoopIn
  <2> HIDE DEF V, comb
  <2>3. PICK f \in [0 .. n -> V] : f = Looped(f, n, <<>>, comb)
    <3> HIDE DEF Turn
    <3> QED
      BY <2>2, LoopExists
  <2> HIDE DEF n
  <2>4. \A k \in 0 .. n : k # 0 => k \in 1 .. n /\ f[k - 1] \in V
    BY <1>n, <2>3
  <2>5. f = Turn(f)
    BY <2>1, <2>3, <2>4 DEF Looped
  <2> QED
    BY <2>5
<1>5. after = Turn(after)
  <2> HIDE DEF Turn
  <2> QED
    BY <1>4
<1> HIDE DEF after, n
<1>6. after[0] = <<>> /\ \A k \in 1 .. n : after[k] = Put(after[k - 1], given[k])
  <2>1. \A k \in 0 .. n : after[k] = IF k = 0 THEN <<>> ELSE Put(after[k - 1], given[k])
    BY <1>5
  <2> HIDE DEF Turn
  <2>2. 0 \in 0 .. n /\ \A k \in 1 .. n : k \in 0 .. n /\ k # 0
    BY <1>n
  <2> QED
    BY <2>1, <2>2
<1> DEFINE W == {p \in (0 .. n) \X Seq(EdgesOf(T)) : Reflects(p[2], T, First(p[1]))}
           g == [k \in 0 .. n |-> <<k, after[k]>>]
<1> HIDE DEF V, Turn
<1>7. g[0] \in W
  <2>1. 0 \in 0 .. n /\ First(0) = {}
    BY <1>n
  <2>2. g[0] = <<0, <<>>>>
    BY <1>6, <2>1
  <2> HIDE DEF First
  <2>3. PICK e \in Seq(EdgesOf(T)) : e = <<>> /\ Reflects(e, T, First(0))
    BY <1>3, <2>1
  <2>4. g[0] = <<0, e>>
    BY <2>2, <2>3
  <2>5. <<0, e>> \in W
    BY <2>1, <2>3
  <2> HIDE DEF g, W
  <2> QED
    BY <2>4, <2>5
<1>8. ASSUME NEW k \in 1 .. n, g[k - 1] \in W PROVE g[k] \in W
  <2>1. k - 1 \in 0 .. n /\ k \in 0 .. n
    BY <1>n
  <2>2. Reflects(after[k - 1], T, First(k - 1))
    <3> HIDE DEF First
    <3> QED
      BY <1>8, <2>1
  <2>3. First(k) = First(k - 1) \cup {given[k]}
    <3>1. \A j \in 1 .. k : j \in 1 .. (k - 1) \/ j = k
      BY <1>n
    <3>2. \A j \in 1 .. (k - 1) : j \in 1 .. k
      BY <1>n
    <3> QED
      BY <1>n, <3>1, <3>2
  <2> HIDE DEF First
  <2>4. Reflects(after[k], T, First(k))
    BY <1>n, <1>6, <2>2, <2>3, AddedReflects DEF Put
  <2>5. after[k] \in Seq(EdgesOf(T))
    BY <2>4 DEF Reflects
  <2> QED
    BY <2>1, <2>4, <2>5
<1>9. \A k \in 0 .. n : g[k] \in W
  <2> HIDE DEF g, W
  <2> QED
    BY <1>n, <1>7, <1>8, LoopValues
<1>10. Reflects(after[n], T, First(n))
  <2>1. n \in 0 .. n
    BY <1>n
  <2> HIDE DEF First
  <2> QED
    BY <1>9, <2>1
<1>11. First(n) = ToSet(given)
  BY DEF ToSet, n
<1> HIDE DEF First
<1> QED
  BY <1>1, <1>10, <1>11

\* What a lookup may answer, of the transforms given for two frames.
Answer(got, own, time) ==
  LET old == {t \in own : t.time <= time}
  IN IF \E t \in own : t.static THEN got # <<>> /\ got[1] \in own /\ got[1].static
     ELSE IF old = {} THEN got = <<>>
     ELSE got # <<>> /\ got[1] \in old /\ \A t \in old : t.time <= got[1].time

\* The sample of an edge that is looked up.
LEMMA EdgeAnswers ==
  ASSUME NEW T, Stored(T), NEW e \in EdgesOf(T), NEW own \in SUBSET T, Keeps(e, own),
         NEW time \in Int
  PROVE  Answer(LookupEdge(e, time), own, time)
<1> DEFINE s == e.samples
           n == Len(s)
           got == LookupEdge(e, time)
<1>1. /\ s \in Seq(T) /\ n \in Nat /\ DOMAIN s = 1 .. n
      /\ \A i \in 1 .. n : s[i] \in T /\ s[i].time \in Int
  <2>1. s \in Seq(T)
    BY DEF EdgesOf
  <2> HIDE DEF s
  <2> QED
    BY <2>1 DEF Stored
<1>2. /\ Sorted(s) /\ ToSet(s) \subseteq own
      /\ e.static <=> \E t \in own : t.static
      /\ e.static => s # <<>> /\ s[1].static
      /\ ~ e.static => ToSet(s) = own
  BY DEF Keeps
<1>3. \A i \in 1 .. n : SubSeq(s, i, i) = <<s[i]>>
  <2>1. ASSUME NEW i \in 1 .. n PROVE SubSeq(s, i, i) = <<s[i]>>
    <3>1. i \in Int /\ i <= i /\ \A k \in i .. i : s[k] \in T
      BY <1>1
    <3>2. /\ SubSeq(s, i, i) \in Seq(T)
          /\ Len(SubSeq(s, i, i)) = IF i <= i THEN i - i + 1 ELSE 0
          /\ \A k \in 1 .. i - i + 1 : SubSeq(s, i, i)[k] = s[i + k - 1]
      <4> HIDE DEF s, n
      <4> QED
        BY <3>1, SubSeqProperties
    <3>3. i - i + 1 = 1 /\ i + 1 - 1 = i /\ 1 \in 1 .. 1
      BY <3>1
    <3>4. Len(SubSeq(s, i, i)) = 1 /\ SubSeq(s, i, i)[1] = s[i]
      <4> HIDE DEF s, n
      <4> QED
        BY <3>1, <3>2, <3>3
    <3>5. PICK r \in Seq(T) : r = SubSeq(s, i, i) /\ Len(r) = 1 /\ r[1] = s[i]
      BY <3>2, <3>4
    <3>6. r = <<s[i]>>
      <4> HIDE DEF s
      <4>1. s[i] \in T
        BY <1>1
      <4>2. <<s[i]>> \in Seq(T) /\ Len(<<s[i]>>) = 1 /\ <<s[i]>>[1] = s[i]
        BY <4>1
      <4>3. PICK q \in Seq(T) : q = <<s[i]>> /\ Len(q) = 1 /\ q[1] = s[i]
        BY <4>2
      <4>4. \A k \in 1 .. Len(r) : r[k] = q[k]
        <5>1. \A k \in 1 .. 1 : k = 1
          OBVIOUS
        <5> QED
          BY <3>5, <4>3, <5>1
      <4>5. r = q
        BY <3>5, <4>3, <4>4, SeqEqual
      <4> QED
        BY <4>3, <4>5
    <3> QED
      BY <3>5, <3>6
  <2> QED
    BY <2>1
<1>4. \A i \in 1 .. n : <<s[i]>> # <<>> /\ <<s[i]>>[1] = s[i]
  OBVIOUS
<1>5. ToSet(s) = {s[i] : i \in 1 .. n}
  BY <1>1 DEF ToSet
<1> HIDE DEF s
<1>6. CASE e.static
  <2>1. 1 \in 1 .. n /\ 1 # 0
    BY <1>1, <1>2, <1>6
  <2>2. got = <<s[1]>>
    BY <1>3, <1>6, <2>1 DEF LookupEdge, s
  <2>3. s[1] \in own /\ s[1].static
    BY <1>2, <1>5, <1>6, <2>1
  <2> HIDE DEF got
  <2>4. Answer(got, own, time)
    BY <1>2, <1>6, <2>2, <2>3 DEF Answer
  <2> QED
    BY <2>4 DEF got
<1>7. CASE ~ e.static
  <2>1. PICK c \in 0 .. n : \A i \in 1 .. n : s[i].time <= time <=> i <= c
    BY <1>2, SortedCut
  <2>2. Position(s, time) = c
    BY <1>2, <2>1, PositionIsCut
  <2>3. got = IF c = 0 THEN <<>> ELSE SubSeq(s, c, c)
    BY <1>7, <2>2 DEF LookupEdge, s
  <2> HIDE DEF got, n
  <2> DEFINE old == {t \in own : t.time <= time}
  <2>4. old = {s[i] : i \in 1 .. c}
    <3>1. own = {s[i] : i \in 1 .. n}
      BY <1>2, <1>5, <1>7
    <3>2. \A i \in 1 .. n : s[i] \in old <=> i <= c
      BY <2>1, <3>1
    <3>3. \A i : i \in 1 .. c <=> i \in 1 .. n /\ i <= c
      BY <1>1, <2>1
    <3>4. \A t \in old : \E i \in 1 .. n : t = s[i]
      BY <3>1
    <3> HIDE DEF old
    <3> QED
      BY <3>2, <3>3, <3>4
  <2>5. CASE c = 0
    <3>1. old = {} /\ got = <<>>
      BY <2>3, <2>4, <2>5
    <3> QED
      BY <1>2, <1>7, <3>1 DEF Answer, got
  <2>6. CASE c # 0
    <3>1. c \in 1 .. n /\ c \in 1 .. c
      BY <1>1, <2>1, <2>6
    <3>2. got = <<s[c]>> /\ got # <<>> /\ got[1] = s[c]
      BY <1>3, <1>4, <2>3, <2>6, <3>1
    <3>3. s[c] \in old
      BY <2>4, <3>1
    <3>4. \A i \in 1 .. c : s[i].time <= s[c].time
      <4>1. \A i \in 1 .. c : i \in 1 .. n /\ i <= c
        BY <3>1, <1>1
      <4> QED
        BY <1>2, <3>1, <4>1 DEF Sorted, n
    <3>5. \A t \in old : t.time <= s[c].time
      BY <2>4, <3>4
    <3>6. Answer(got, own, time)
      BY <1>2, <1>7, <3>2, <3>3, <3>5 DEF Answer
    <3> QED
      BY <3>6 DEF got
  <2> QED
    BY <2>5, <2>6
<1> QED
  BY <1>6, <1>7

\* A buffer answers with the latest of the transforms that it was given.
LEMMA BufferAnswers ==
  ASSUME NEW T, Stored(T), NEW b, NEW all, Reflects(b, T, all), NEW parent, NEW child,
         parent # child, NEW time \in Int
  PROVE  Answer(LookupTransform(b, parent, child, time), Between(all, parent, child), time)
<1> DEFINE i == EdgeOf(b, parent, child)
           own == Between(all, parent, child)
<1>1. /\ b \in Seq(EdgesOf(T)) /\ own \in SUBSET T
      /\ \A t \in all : \E k \in DOMAIN b : b[k].parent = t.parent /\ b[k].child = t.child
      /\ \A k \in DOMAIN b : b[k] \in EdgesOf(T) /\ Keeps(b[k], Between(all, b[k].parent, b[k].child))
  <2>1. b \in Seq(EdgesOf(T)) /\ all \subseteq T
    BY DEF Reflects
  <2>2. own \in SUBSET T
    BY <2>1 DEF Between
  <2>3. \A k \in DOMAIN b : b[k] \in EdgesOf(T)
    BY <2>1
  <2> QED
    BY <2>1, <2>2, <2>3 DEF Reflects
<1>2. \/ i = 0 /\ \A k \in DOMAIN b : ~ (b[k].parent = parent /\ b[k].child = child)
      \/ i \in DOMAIN b /\ i # 0 /\ b[i].parent = parent /\ b[i].child = child
  <2>1. 0 \notin DOMAIN b
    BY <1>1
  <2> QED
    BY <1>1, <2>1, EdgeFound
<1>3. LookupTransform(b, parent, child, time) = IF i = 0 THEN <<>> ELSE LookupEdge(b[i], time)
  BY DEF LookupTransform
<1> HIDE DEF i
<1>4. CASE i = 0
  <2>1. own = {}
    BY <1>1, <1>2, <1>4 DEF Between
  <2> QED
    BY <1>3, <1>4, <2>1 DEF Answer
<1>5. CASE i # 0
  <2>1. i \in DOMAIN b /\ b[i] \in EdgesOf(T) /\ Keeps(b[i], own)
    BY <1>1, <1>2, <1>5
  <2> HIDE DEF own
  <2>2. Answer(LookupEdge(b[i], time), own, time)
    BY <1>1, <2>1, EdgeAnswers
  <2> QED
    BY <1>3, <1>5, <2>2 DEF own
<1> QED
  BY <1>4, <1>5

-----------------------------------------------------------------------------
(* Filling a buffer from others.                                           *)

\* The items of two sequences, one after the other.
LEMMA ConcatItems ==
  ASSUME NEW T, NEW a \in Seq(T), NEW c \in Seq(T)
  PROVE  a \o c \in Seq(T) /\ ToSet(a \o c) = ToSet(a) \cup ToSet(c)
<1> DEFINE j == a \o c
<1>1. /\ j \in Seq(T) /\ Len(j) = Len(a) + Len(c)
      /\ \A i \in 1 .. Len(a) + Len(c) : j[i] = IF i <= Len(a) THEN a[i] ELSE c[i - Len(a)]
  BY ConcatProperties
<1>2. Len(a) \in Nat /\ Len(c) \in Nat
  OBVIOUS
<1>3. /\ ToSet(j) = {j[i] : i \in 1 .. Len(a) + Len(c)}
      /\ ToSet(a) = {a[i] : i \in 1 .. Len(a)} /\ ToSet(c) = {c[i] : i \in 1 .. Len(c)}
  <2>1. DOMAIN j = 1 .. Len(a) + Len(c) /\ DOMAIN a = 1 .. Len(a) /\ DOMAIN c = 1 .. Len(c)
    <3> HIDE DEF j
    <3> QED
      BY <1>1
  <2> HIDE DEF j
  <2> QED
    BY <2>1 DEF ToSet
<1> HIDE DEF j
<1>4. \A i \in 1 .. Len(a) + Len(c) : i \in 1 .. Len(a) \/ (i - Len(a) \in 1 .. Len(c) /\ ~ (i <= Len(a)))
  BY <1>2
<1>5. \A i \in 1 .. Len(a) : i \in 1 .. Len(a) + Len(c) /\ i <= Len(a)
  BY <1>2
<1>6. \A i \in 1 .. Len(c) : /\ i + Len(a) \in 1 .. Len(a) + Len(c) /\ ~ (i + Len(a) <= Len(a))
                             /\ i + Len(a) - Len(a) = i
  BY <1>2
<1>7. ToSet(j) \subseteq ToSet(a) \cup ToSet(c)
  <2>1. ASSUME NEW i \in 1 .. Len(a) + Len(c) PROVE j[i] \in ToSet(a) \cup ToSet(c)
    <3>1. CASE i \in 1 .. Len(a)
      <4>1. i <= Len(a) /\ j[i] = a[i]
        BY <1>1, <1>2, <3>1
      <4> QED
        BY <1>3, <3>1, <4>1
    <3>2. CASE i - Len(a) \in 1 .. Len(c) /\ ~ (i <= Len(a))
      <4>1. j[i] = c[i - Len(a)]
        BY <1>1, <3>2
      <4> QED
        BY <1>3, <3>2, <4>1
    <3> QED
      BY <1>4, <3>1, <3>2
  <2> QED
    BY <1>3, <2>1
<1>8. ToSet(a) \subseteq ToSet(j)
  BY <1>1, <1>3, <1>5
<1>9. ToSet(c) \subseteq ToSet(j)
  <2>1. \A i \in 1 .. Len(c) : j[i + Len(a)] = c[i]
    BY <1>1, <1>6
  <2> QED
    BY <1>3, <1>6, <2>1
<1> QED
  BY <1>1, <1>7, <1>8, <1>9 DEF j

\* The items of some sequences.
LEMMA JoinedItems ==
  ASSUME NEW T, NEW s \in Seq(Seq(T))
  PROVE  Joined(s) \in Seq(T) /\ ToSet(Joined(s)) = UNION {ToSet(s[k]) : k \in DOMAIN s}
<1> DEFINE n == Len(s)
           Turn(f) == [k \in 0 .. n |-> IF k = 0 THEN <<>> ELSE f[k - 1] \o s[k]]
           upto == CHOOSE f : f = Turn(f)
           V == Seq(T)
           First(k) == UNION {ToSet(s[j]) : j \in 1 .. k}
<1>n. n \in Nat /\ DOMAIN s = 1 .. n /\ \A k \in 1 .. n : s[k] \in V
  OBVIOUS
<1>1. Joined(s) = upto[n]
  BY DEF Joined
<1>2. \A k \in 1 .. n, v \in V : v \o s[k] \in V
  BY <1>n
<1>3. \E f : f = Turn(f)
  <2> DEFINE comb == [p \in (1 .. n) \X V |-> p[2] \o s[p[1]]]
  <2>1. \A k \in 1 .. n, v \in V : comb[<<k, v>>] = v \o s[k]
    <3> HIDE DEF V, n
    <3> QED
      OBVIOUS
  <2>2. <<>> \in V
    OBVIOUS
  <2>3. LoopIn(V, n, <<>>, comb)
    <3> HIDE DEF V, comb, Turn
    <3> QED
      BY <1>n, <1>2, <2>1, <2>2 DEF LoopIn
  <2> HIDE DEF V, comb
  <2>4. PICK f \in [0 .. n -> V] : f = Looped(f, n, <<>>, comb)
    <3> HIDE DEF Turn
    <3> QED
      BY <2>3, LoopExists
  <2> HIDE DEF n
  <2>5. \A k \in 0 .. n : k # 0 => k \in 1 .. n /\ f[k - 1] \in V
    BY <1>n, <2>4
  <2>6. f = Turn(f)
    BY <2>1, <2>4, <2>5 DEF Looped
  <2> QED
    BY <2>6
<1>4. upto = Turn(upto)
  <2> HIDE DEF Turn
  <2> QED
    BY <1>3
<1> HIDE DEF upto, n
<1>5. upto[0] = <<>> /\ \A k \in 1 .. n : upto[k] = upto[k - 1] \o s[k]
  <2>1. \A k \in 0 .. n : upto[k] = IF k = 0 THEN <<>> ELSE upto[k - 1] \o s[k]
    BY <1>4
  <2> HIDE DEF Turn
  <2>2. 0 \in 0 .. n /\ \A k \in 1 .. n : k \in 0 .. n /\ k # 0
    BY <1>n
  <2> QED
    BY <2>1, <2>2
<1> HIDE DEF Turn
<1>6. ASSUME NEW a \in V, NEW c \in V PROVE a \o c \in V /\ ToSet(a \o c) = ToSet(a) \cup ToSet(c)
  BY ConcatItems
<1> DEFINE W == {p \in (0 .. n) \X V : ToSet(p[2]) = First(p[1])}
           g == [k \in 0 .. n |-> <<k, upto[k]>>]
<1>7. g[0] \in W
  <2>1. 0 \in 0 .. n /\ First(0) = {}
    BY <1>n
  <2> HIDE DEF First
  <2>2. PICK e \in V : e = <<>> /\ ToSet(e) = First(0)
    <3>1. <<>> \in V /\ ToSet(<<>>) = {}
      BY DEF ToSet
    <3> HIDE DEF V
    <3> QED
      BY <2>1, <3>1
  <2>3. g[0] = <<0, e>>
    BY <1>5, <2>1, <2>2
  <2>4. <<0, e>> \in W
    BY <2>1, <2>2
  <2> HIDE DEF g, W
  <2> QED
    BY <2>3, <2>4
<1>8. ASSUME NEW k \in 1 .. n, g[k - 1] \in W PROVE g[k] \in W
  <2>1. k - 1 \in 0 .. n /\ k \in 0 .. n
    BY <1>n
  <2>2. upto[k - 1] \in V /\ ToSet(upto[k - 1]) = First(k - 1)
    <3> HIDE DEF First, V
    <3> QED
      BY <1>8, <2>1
  <2>3. First(k) = First(k - 1) \cup ToSet(s[k])
    <3>1. \A j \in 1 .. k : j \in 1 .. (k - 1) \/ j = k
      BY <1>n
    <3>2. \A j \in 1 .. (k - 1) : j \in 1 .. k
      BY <1>n
    <3>3. k \in 1 .. k
      BY <1>n
    <3>4. First(k) \subseteq First(k - 1) \cup ToSet(s[k])
      BY <3>1
    <3>5. First(k - 1) \subseteq First(k)
      BY <3>2
    <3>6. ToSet(s[k]) \subseteq First(k)
      BY <3>3
    <3> HIDE DEF First
    <3> QED
      BY <3>4, <3>5, <3>6
  <2> HIDE DEF First
  <2>4. upto[k] \in V /\ ToSet(upto[k]) = First(k)
    <3> HIDE DEF V
    <3> QED
      BY <1>n, <1>5, <1>6, <2>2, <2>3
  <2> HIDE DEF V
  <2> QED
    BY <2>1, <2>4
<1>9. \A k \in 0 .. n : g[k] \in W
  <2> HIDE DEF g, W
  <2> QED
    BY <1>n, <1>7, <1>8, LoopValues
<1>10. upto[n] \in V /\ ToSet(upto[n]) = First(n)
  <2>1. n \in 0 .. n
    BY <1>n
  <2> HIDE DEF First, V
  <2> QED
    BY <1>9, <2>1
<1>11. First(n) = UNION {ToSet(s[k]) : k \in DOMAIN s}
  BY <1>n
<1> HIDE DEF First
<1> QED
  BY <1>1, <1>10, <1>11

\* Some transforms from which a buffer learns as much as from all: those that are left
\* out are of frames with a static one.
Tells(some, all) ==
  /\ some \subseteq all
  /\ \A t \in all \ some :
       \E s \in some : s.static /\ s.parent = t.parent /\ s.child = t.child

\* What is answered from the ones is an answer from the others.
LEMMA AnswerFromMore ==
  ASSUME NEW T, Stored(T), NEW some, NEW all, all \subseteq T, Tells(some, all),
         NEW parent, NEW child, NEW time \in Int, NEW got,
         Answer(got, Between(some, parent, child), time)
  PROVE  Answer(got, Between(all, parent, child), time)
<1> DEFINE less == Between(some, parent, child)
           own == Between(all, parent, child)
<1>1. less \subseteq own
  BY DEF Between, Tells
<1>2. CASE \E t \in own : t.static
  <2>1. PICK t \in own : t.static
    BY <1>2
  <2>2. \E u \in less : u.static
    <3>1. CASE t \in some
      BY <2>1, <3>1 DEF Between
    <3>2. CASE t \notin some
      <4>1. PICK u \in some : u.static /\ u.parent = t.parent /\ u.child = t.child
        BY <2>1, <3>2 DEF Between, Tells
      <4> QED
        BY <2>1, <4>1 DEF Between
    <3> QED
      BY <3>1, <3>2
  <2> HIDE DEF less, own
  <2>3. got # <<>> /\ got[1] \in less /\ got[1].static
    BY <2>2 DEF Answer, less
  <2>4. Answer(got, own, time)
    BY <1>1, <2>1, <2>3 DEF Answer
  <2> QED
    BY <2>4 DEF own
<1>3. CASE ~ \E t \in own : t.static
  <2>1. own \subseteq less
    <3>1. ASSUME NEW t \in own, t \notin some PROVE FALSE
      <4>1. PICK u \in some : u.static /\ u.parent = t.parent /\ u.child = t.child
        BY <3>1 DEF Between, Tells
      <4>2. u \in own
        BY <4>1 DEF Between, Tells
      <4> QED
        BY <1>3, <4>1, <4>2
    <3> QED
      BY <3>1 DEF Between
  <2>2. own = less
    BY <1>1, <2>1
  <2> HIDE DEF own, less
  <2>3. Answer(got, less, time)
    BY DEF less
  <2>4. Answer(got, own, time)
    BY <2>2, <2>3
  <2> QED
    BY <2>4 DEF own
<1> QED
  BY <1>2, <1>3

\* A buffer lists transforms that tell as much as those it was given.
LEMMA ListTells ==
  ASSUME NEW T, Stored(T), NEW b, NEW all, Reflects(b, T, all)
  PROVE  ListTransforms(b) \in Seq(T) /\ Tells(ToSet(ListTransforms(b)), all)
<1> DEFINE n == Len(b)
           s == [k \in DOMAIN b |-> b[k].samples]
           some == ToSet(ListTransforms(b))
<1>1. /\ b \in Seq(EdgesOf(T)) /\ n \in Nat /\ DOMAIN b = 1 .. n
      /\ \A k \in 1 .. n : b[k] \in EdgesOf(T) /\ b[k].samples \in Seq(T)
  <2>1. b \in Seq(EdgesOf(T))
    BY DEF Reflects
  <2>2. n \in Nat /\ DOMAIN b = 1 .. n /\ \A k \in 1 .. n : b[k] \in EdgesOf(T)
    BY <2>1
  <2> QED
    BY <2>1, <2>2 DEF EdgesOf
<1>2. /\ \A t \in all : \E k \in 1 .. n : b[k].parent = t.parent /\ b[k].child = t.child
      /\ \A k \in 1 .. n : Keeps(b[k], Between(all, b[k].parent, b[k].child))
      /\ all \subseteq T
  BY <1>1 DEF Reflects
<1>3. ListTransforms(b) \in Seq(T) /\ some = UNION {ToSet(b[k].samples) : k \in 1 .. n}
  <2>1. s \in [1 .. n -> Seq(T)]
    BY <1>1
  <2>2. s \in Seq(Seq(T)) /\ DOMAIN s = 1 .. n /\ \A k \in 1 .. n : s[k] = b[k].samples
    BY <1>1, <2>1
  <2>3. ListTransforms(b) = Joined(s)
    BY DEF ListTransforms
  <2> HIDE DEF s
  <2>4. Joined(s) \in Seq(T) /\ ToSet(Joined(s)) = UNION {ToSet(s[k]) : k \in DOMAIN s}
    BY <2>2, JoinedItems
  <2>5. UNION {ToSet(s[k]) : k \in DOMAIN s} = UNION {ToSet(b[k].samples) : k \in 1 .. n}
    BY <2>2
  <2> QED
    BY <2>3, <2>4, <2>5
<1> HIDE DEF some, n
<1>4. ASSUME NEW k \in 1 .. n
      PROVE  /\ ToSet(b[k].samples) \subseteq Between(all, b[k].parent, b[k].child)
             /\ \/ Between(all, b[k].parent, b[k].child) \subseteq ToSet(b[k].samples)
                \/ \E u \in ToSet(b[k].samples) : u.static
  <2>1. Keeps(b[k], Between(all, b[k].parent, b[k].child)) /\ b[k].samples \in Seq(T)
    BY <1>1, <1>2
  <2>2. ASSUME b[k].samples # <<>> PROVE b[k].samples[1] \in ToSet(b[k].samples)
    <3>1. PICK e \in Seq(T) : e = b[k].samples
      BY <2>1
    <3>2. 1 \in DOMAIN e
      BY <2>2, <3>1
    <3> QED
      BY <3>1, <3>2 DEF ToSet
  <2> QED
    BY <2>1, <2>2 DEF Keeps
<1>5. some \subseteq all
  BY <1>3, <1>4 DEF Between
<1>6. ASSUME NEW t \in all, t \notin some
      PROVE  \E u \in some : u.static /\ u.parent = t.parent /\ u.child = t.child
  <2>1. PICK k \in 1 .. n : b[k].parent = t.parent /\ b[k].child = t.child
    BY <1>2
  <2>2. t \in Between(all, b[k].parent, b[k].child) /\ t \notin ToSet(b[k].samples)
    BY <1>3, <1>6, <2>1 DEF Between
  <2>3. PICK u \in ToSet(b[k].samples) : u.static
    BY <1>4, <2>2
  <2> QED
    BY <1>3, <1>4, <2>1, <2>3 DEF Between
<1>7. Tells(some, all)
  BY <1>5, <1>6 DEF Tells
<1> QED
  BY <1>3, <1>7 DEF some

-----------------------------------------------------------------------------
(* Rows in order of stamp.                                                 *)

\* Rows in order of stamp.
Ascending(rows) ==
  \A i, j \in 1 .. Len(rows) : i <= j => rows[i].stamp <= rows[j].stamp

\* A row is put where its stamp belongs.
LEMMA StampedKeeps ==
  ASSUME NEW R, \A r \in R : r.stamp \in Int, NEW v \in Seq(R), Ascending(v), NEW r \in R
  PROVE  Stamped(v, r) \in Seq(R) /\ Ascending(Stamped(v, r)) /\ ToSet(Stamped(v, r)) = ToSet(v) \cup {r}
<1> DEFINE L == Len(v)
           times == [k \in 1 .. L |-> [time |-> v[k].stamp]]
<1>1. L \in Nat /\ DOMAIN v = 1 .. L /\ \A i \in 1 .. L : v[i].stamp \in Int
  OBVIOUS
<1>2. Sorted(times) /\ Len(times) = L /\ \A i \in 1 .. L : times[i].time = v[i].stamp
  BY <1>1 DEF Sorted, Ascending
<1> HIDE DEF times
<1>3. PICK c \in 0 .. L : \A i \in 1 .. L : v[i].stamp <= r.stamp <=> i <= c
  <2>1. r.stamp \in Int
    OBVIOUS
  <2> HIDE DEF L
  <2>2. \E c \in 0 .. L : \A i \in 1 .. L : times[i].time <= r.stamp <=> i <= c
    BY <1>2, <2>1, SortedCut
  <2> QED
    BY <1>2, <2>2
<1>4. Stamped(v, r) = InsertAt(v, c + 1, r)
  <2>1. {k \in DOMAIN v : v[k].stamp <= r.stamp} = 1 .. c
    BY <1>1, <1>3
  <2>2. Cardinality(1 .. c) = c
    <3>1. c \in Nat
      BY <1>1, <1>3
    <3>2. Cardinality(1 .. c) = IF 1 > c THEN 0 ELSE c - 1 + 1
      BY <3>1, FS_Interval
    <3> QED
      BY <3>1, <3>2
  <2> QED
    BY <2>1, <2>2 DEF Stamped
<1> DEFINE s == InsertAt(v, c + 1, r)
<1>c. c \in 0 .. Len(v)
  BY <1>3
<1>5. /\ s \in Seq(R) /\ Len(s) = L + 1 /\ ToSet(s) = ToSet(v) \cup {r}
      /\ \A i \in 1 .. L + 1 : s[i] = IF i <= c THEN v[i] ELSE IF i = c + 1 THEN r ELSE v[i - 1]
  <2> HIDE DEF L, s
  <2>1. InsertAt(v, c + 1, r) \in Seq(R) /\ Len(InsertAt(v, c + 1, r)) = Len(v) + 1
    BY ONLY v \in Seq(R), r \in R, <1>c, InsertAtValues
  <2>2. ToSet(InsertAt(v, c + 1, r)) = ToSet(v) \cup {r}
    BY ONLY v \in Seq(R), r \in R, <1>c, InsertAtValues
  <2>3. \A i \in 1 .. Len(v) + 1 :
          InsertAt(v, c + 1, r)[i] = IF i <= c THEN v[i] ELSE IF i = c + 1 THEN r ELSE v[i - 1]
    BY ONLY v \in Seq(R), r \in R, <1>c, InsertAtValues
  <2> QED
    BY <2>1, <2>2, <2>3 DEF L, s
<1>6. \A i, j \in 1 .. L : i <= j => v[i].stamp <= v[j].stamp
  BY DEF Ascending
<1>r. r.stamp \in Int
  OBVIOUS
<1> HIDE DEF s, L
<1>8. ASSUME NEW i \in 1 .. L + 1
      PROVE  /\ s[i].stamp \in Int
             /\ i <= c => i \in 1 .. L /\ s[i] = v[i] /\ v[i].stamp <= r.stamp
             /\ i = c + 1 => s[i] = r
             /\ i > c + 1 => i - 1 \in 1 .. L /\ s[i] = v[i - 1] /\ v[i - 1].stamp > r.stamp
  <2>1. CASE i <= c
    <3>1. i \in 1 .. L /\ s[i] = v[i] /\ ~ (i = c + 1) /\ ~ (i > c + 1)
      BY <1>1, <1>3, <1>5, <2>1
    <3> QED
      BY <1>1, <1>3, <2>1, <3>1
  <2>2. CASE i = c + 1
    <3>1. s[i] = r /\ ~ (i <= c) /\ ~ (i > c + 1)
      BY <1>1, <1>3, <1>5, <2>2
    <3> QED
      BY <1>r, <2>2, <3>1
  <2>3. CASE i > c + 1
    <3>1. i - 1 \in 1 .. L /\ ~ (i <= c) /\ ~ (i = c + 1) /\ ~ (i - 1 <= c)
      BY <1>1, <1>3, <2>3
    <3>2. s[i] = v[i - 1] /\ v[i - 1].stamp \in Int /\ ~ (v[i - 1].stamp <= r.stamp)
      BY <1>1, <1>3, <1>5, <3>1
    <3> QED
      BY <1>r, <3>1, <3>2
  <2> QED
    BY <1>1, <1>3, <2>1, <2>2, <2>3
<1>9. ASSUME NEW i \in 1 .. L + 1, NEW j \in 1 .. L + 1, i <= j
      PROVE  s[i].stamp <= s[j].stamp
  <2>1. CASE j <= c
    BY <1>1, <1>3, <1>6, <1>8, <1>9, <2>1
  <2>2. CASE j = c + 1
    BY <1>1, <1>3, <1>8, <1>9, <2>2
  <2>3. CASE j > c + 1
    <3>1. CASE i <= c
      BY <1>1, <1>r, <1>8, <2>3, <3>1
    <3>2. CASE i = c + 1
      BY <1>1, <1>r, <1>8, <2>3, <3>2
    <3>3. CASE i > c + 1
      <4>1. i - 1 <= j - 1
        BY <1>9
      <4> QED
        BY <1>6, <1>8, <2>3, <3>3, <4>1
    <3>4. i <= c \/ i = c + 1 \/ i > c + 1
      BY <1>1, <1>3
    <3> QED
      BY <3>1, <3>2, <3>3, <3>4
  <2> QED
    BY <1>1, <1>3, <2>1, <2>2, <2>3
<1>7. Ascending(s)
  BY <1>5, <1>9 DEF Ascending
<1> QED
  BY <1>4, <1>5, <1>7 DEF s

\* The rows of a part are read in order of stamp, each of them.
LEMMA ByStampSorts ==
  ASSUME NEW R, \A r \in R : r.stamp \in Int, NEW rows \in Seq(R)
  PROVE  ByStamp(rows) \in Seq(R) /\ Ascending(ByStamp(rows)) /\ ToSet(ByStamp(rows)) = ToSet(rows)
<1> DEFINE n == Len(rows)
           Turn(f) == [k \in 0 .. n |-> IF k = 0 THEN <<>> ELSE Stamped(f[k - 1], rows[k])]
           sorted == CHOOSE f : f = Turn(f)
           V == {v \in Seq(R) : Ascending(v)}
<1>n. n \in Nat /\ DOMAIN rows = 1 .. n /\ \A k \in 1 .. n : rows[k] \in R
  OBVIOUS
<1>1. ByStamp(rows) = sorted[n]
  BY DEF ByStamp
<1>2. ASSUME NEW v \in V, NEW r \in R
      PROVE  Stamped(v, r) \in V /\ ToSet(Stamped(v, r)) = ToSet(v) \cup {r}
  BY StampedKeeps
<1>v. <<>> \in V
  BY DEF Ascending
<1> HIDE DEF V
<1>3. \E f : f = Turn(f)
  <2> DEFINE comb == [p \in (1 .. n) \X V |-> Stamped(p[2], rows[p[1]])]
  <2>1. \A k \in 1 .. n, v \in V : comb[<<k, v>>] = Stamped(v, rows[k])
    <3> HIDE DEF n
    <3> QED
      OBVIOUS
  <2>2. LoopIn(V, n, <<>>, comb)
    <3> HIDE DEF comb, Turn
    <3> QED
      BY <1>n, <1>2, <1>v, <2>1 DEF LoopIn
  <2> HIDE DEF comb
  <2>3. PICK f \in [0 .. n -> V] : f = Looped(f, n, <<>>, comb)
    <3> HIDE DEF Turn
    <3> QED
      BY <2>2, LoopExists
  <2> HIDE DEF n
  <2>4. \A k \in 0 .. n : k # 0 => k \in 1 .. n /\ f[k - 1] \in V
    BY <1>n, <2>3
  <2>5. f = Turn(f)
    BY <2>1, <2>3, <2>4 DEF Looped
  <2> QED
    BY <2>5
<1>4. sorted = Turn(sorted)
  <2> HIDE DEF Turn
  <2> QED
    BY <1>3
<1> HIDE DEF sorted, n
<1>5. sorted[0] = <<>> /\ \A k \in 1 .. n : sorted[k] = Stamped(sorted[k - 1], rows[k])
  <2>1. \A k \in 0 .. n : sorted[k] = IF k = 0 THEN <<>> ELSE Stamped(sorted[k - 1], rows[k])
    BY <1>4
  <2> HIDE DEF Turn
  <2>2. 0 \in 0 .. n /\ \A k \in 1 .. n : k \in 0 .. n /\ k # 0
    BY <1>n
  <2> QED
    BY <2>1, <2>2
<1> HIDE DEF Turn
<1> DEFINE Holds(k) == sorted[k] \in V /\ ToSet(sorted[k]) = {rows[j] : j \in 1 .. k}
           g == [k \in 0 .. n |-> IF Holds(k) THEN 1 ELSE 0]
           W == {1}
<1>6. \A k \in 0 .. n : g[k] \in W
  <2>1. g[0] \in W
    <3>1. Holds(0)
      BY <1>v, <1>5 DEF ToSet
    <3> HIDE DEF Holds
    <3> QED
      BY <1>n, <3>1
  <2>2. ASSUME NEW k \in 1 .. n, g[k - 1] \in W PROVE g[k] \in W
    <3>1. k - 1 \in 0 .. n /\ k \in 0 .. n
      BY <1>n
    <3>2. Holds(k - 1)
      <4> HIDE DEF Holds
      <4> QED
        BY <2>2, <3>1
    <3>3. sorted[k] \in V /\ ToSet(sorted[k]) = ToSet(sorted[k - 1]) \cup {rows[k]}
      BY <1>n, <1>2, <1>5, <3>2
    <3>4. 1 .. k = (1 .. k - 1) \cup {k}
      BY <1>n
    <3>5. Holds(k)
      BY <3>2, <3>3, <3>4
    <3> HIDE DEF Holds
    <3> QED
      BY <3>1, <3>5
  <2> HIDE DEF g, W
  <2> QED
    BY <1>n, <2>1, <2>2, LoopValues
<1>7. Holds(n)
  <2>1. n \in 0 .. n
    BY <1>n
  <2> HIDE DEF Holds
  <2> QED
    BY <1>6, <2>1
<1>8. ToSet(rows) = {rows[j] : j \in 1 .. n}
  BY <1>n DEF ToSet
<1> QED
  BY <1>1, <1>7, <1>8 DEF V

-----------------------------------------------------------------------------
(* The transforms of a file.                                               *)

\* A part that a file may have.
PartTyped(part) ==
  /\ part.channels \in Seq(ToSet(part.channels)) /\ part.rows \in Seq(ToSet(part.rows))
  /\ \A row \in ToSet(part.rows) : row.stamp \in Nat /\ TransformsTyped(row.value)

\* What the rows of some parts say of transforms to an engine of a source.
Given(parts, source) ==
  {t \in UNION {UNION {ToSet(RowTransforms(part, row, source)) : row \in ToSet(part.rows)} : part \in parts} :
     t.time \in Nat /\ t.static \in BOOLEAN /\ (t.static => t.time = 0)}

LEMMA GivenStored ==
  ASSUME NEW parts, NEW source
  PROVE  Stored(Given(parts, source))
BY DEF Stored, Given

\* What is stored of a message of transforms.
LEMMA StoredTyped ==
  ASSUME NEW channel, NEW all, all \in Seq(ToSet(all)),
         \A t \in ToSet(all) : t.static \in BOOLEAN,
         NEW time \in Nat, IsTransformChannel(channel)
  PROVE  LET s == StoredTransforms(channel, all, time)
         IN /\ s \in Seq(ToSet(s))
            /\ \A t \in ToSet(s) : t.time \in Nat /\ t.static \in BOOLEAN /\ (t.static => t.time = 0)
<1> DEFINE s == StoredTransforms(channel, all, time)
           Static(t) == IF channel.schema = "Transform" THEN t.static ELSE channel.topic = "/tf_static"
<1>1. PICK n \in Nat : DOMAIN all = 1 .. n /\ \A k \in 1 .. n : all[k] \in ToSet(all)
  <2>1. DOMAIN all = 1 .. Len(all) /\ Len(all) \in Nat
    OBVIOUS
  <2>2. \A k \in DOMAIN all : all[k] \in ToSet(all)
    BY DEF ToSet
  <2> QED
    BY <2>1, <2>2
<1>2. \A k \in 1 .. n : Static(all[k]) \in BOOLEAN
  BY <1>1
<1> DEFINE item(k) == [parent |-> all[k].parent, child |-> all[k].child,
                       translation |-> all[k].translation, rotation |-> all[k].rotation,
                       static |-> Static(all[k]), time |-> IF Static(all[k]) THEN 0 ELSE time]
<1>3. s = [k \in 1 .. n |-> item(k)]
  BY <1>1 DEF StoredTransforms
<1>4. \A k \in 1 .. n : item(k).static = Static(all[k]) /\ item(k).time = IF Static(all[k]) THEN 0 ELSE time
  OBVIOUS
<1> HIDE DEF item, s
<1>5. DOMAIN s = 1 .. n /\ \A k \in 1 .. n : s[k] = item(k)
  BY <1>3
<1>6. ToSet(s) = {s[k] : k \in 1 .. n}
  BY <1>5 DEF ToSet
<1>7. s \in Seq(ToSet(s))
  <2>1. s \in [1 .. n -> ToSet(s)]
    BY <1>3, <1>5, <1>6
  <2> QED
    BY <2>1
<1>8. \A t \in ToSet(s) : t.time \in Nat /\ t.static \in BOOLEAN /\ (t.static => t.time = 0)
  <2> HIDE DEF Static
  <2>1. ASSUME NEW k \in 1 .. n
        PROVE  s[k].time \in Nat /\ s[k].static \in BOOLEAN /\ (s[k].static => s[k].time = 0)
    BY <1>2, <1>4, <1>5
  <2> QED
    BY <1>6, <2>1
<1> QED
  BY <1>7, <1>8 DEF s

\* What is read of a row.
LEMMA RowTyped ==
  ASSUME NEW parts, NEW source, NEW part \in parts, PartTyped(part), NEW row \in ToSet(part.rows),
         row.value # NoBlob
  PROVE  RowTransforms(part, row, source) \in Seq(Given(parts, source))
<1> DEFINE c == ChannelOf(part, row)
           s == RowTransforms(part, row, source)
<1>1. CASE s = <<>>
  <2>1. <<>> \in Seq(Given(parts, source))
    OBVIOUS
  <2> QED
    BY <1>1, <2>1
<1>2. CASE s # <<>>
  <2>1. /\ s = StoredTransforms(c[1], row.value.transforms, Number(row.stamp))
        /\ IsTransformChannel(c[1]) /\ Decode(c[1].schema, row.value) # <<>>
    BY <1>2 DEF RowTransforms, HasTransforms
  <2> HIDE DEF c, s
  <2>2. c[1].schema \in {"Transform", "TFMessage"}
    BY <2>1 DEF IsTransformChannel
  <2>3. row.value # Garbled /\ row.value.schema = c[1].schema
    BY <2>1 DEF Decode
  <2>4. PICK all : all = row.value.transforms
    OBVIOUS
  <2>5. all \in Seq(ToSet(all)) /\ \A t \in ToSet(all) : t.static \in BOOLEAN
    BY <2>2, <2>3, <2>4 DEF PartTyped, TransformsTyped
  <2>6. Number(row.stamp) \in Nat
    <3>1. row.stamp \in Nat
      BY DEF PartTyped
    <3> QED
      BY <3>1, NumberGrows
  <2>7. /\ s \in Seq(ToSet(s))
        /\ \A t \in ToSet(s) : t.time \in Nat /\ t.static \in BOOLEAN /\ (t.static => t.time = 0)
    BY <2>1, <2>4, <2>5, <2>6, StoredTyped
  <2>8. ToSet(s) \subseteq Given(parts, source)
    BY <2>7 DEF Given, s
  <2>9. s \in Seq(Given(parts, source))
    BY <2>7, <2>8
  <2> QED
    BY <2>9 DEF s
<1> QED
  BY <1>1, <1>2

\* What is read of a part.
LEMMA PartRead ==
  ASSUME NEW parts, NEW source, NEW part \in parts, PartTyped(part)
  PROVE  PartTransforms(part, source) \in Seq(Given(parts, source))
<1> DEFINE R == ToSet(part.rows)
           rows == Readable(part)
           T == Given(parts, source)
           s == [k \in DOMAIN rows |-> RowTransforms(part, rows[k], source)]
<1>1. ByStamp(part.rows) \in Seq(R)
  BY ByStampSorts DEF PartTyped
<1>2. rows \in Seq(R) /\ \A k \in DOMAIN rows : rows[k] \in R /\ rows[k].value # NoBlob
  <2> DEFINE wanted == {r \in R : r.value # NoBlob}
             all == ByStamp(part.rows)
  <2>1. rows = Keeping(all, wanted)
    BY DEF Readable
  <2> HIDE DEF rows, wanted, R, all
  <2>2. /\ Keeping(all, wanted) \in Seq(R)
        /\ \A k \in DOMAIN Keeping(all, wanted) :
             \E i \in DOMAIN all : all[i] \in wanted /\ Keeping(all, wanted)[k] = all[i]
    <3>1. all \in Seq(R)
      BY <1>1 DEF all
    <3> QED
      BY <3>1, KeepingSifts
  <2>3. \A k \in DOMAIN rows : rows[k] \in wanted
    BY <2>1, <2>2
  <2> QED
    BY <2>1, <2>2, <2>3 DEF wanted
<1>3. PartTransforms(part, source) = Joined(s)
  BY DEF PartTransforms
<1> HIDE DEF rows, T
<1>4. \A k \in DOMAIN rows : RowTransforms(part, rows[k], source) \in Seq(T)
  BY <1>2, RowTyped DEF T
<1>5. s \in Seq(Seq(T))
  <2>1. DOMAIN rows = 1 .. Len(rows) /\ Len(rows) \in Nat
    BY <1>2
  <2>2. s \in [1 .. Len(rows) -> Seq(T)]
    BY <1>4, <2>1
  <2> HIDE DEF s
  <2> QED
    BY <2>1, <2>2
<1> HIDE DEF s
<1>6. Joined(s) \in Seq(T)
  BY <1>5, JoinedItems
<1> QED
  BY <1>3, <1>6 DEF T

\* What is read of some parts.
LEMMA PartsRead ==
  ASSUME NEW P, NEW source, \A part \in P : PartTyped(part), NEW parts \in Seq(P)
  PROVE  /\ TransformsOf(parts, source) \in Seq(Given(P, source))
         /\ ToSet(TransformsOf(parts, source)) =
              UNION {ToSet(PartTransforms(parts[n], source)) : n \in DOMAIN parts}
<1> DEFINE T == Given(P, source)
           s == [n \in DOMAIN parts |-> PartTransforms(parts[n], source)]
<1>1. DOMAIN parts = 1 .. Len(parts) /\ Len(parts) \in Nat
  OBVIOUS
<1>2. \A n \in DOMAIN parts : parts[n] \in P
  OBVIOUS
<1>3. \A n \in DOMAIN parts : PartTransforms(parts[n], source) \in Seq(T)
  BY <1>2, PartRead
<1> HIDE DEF T
<1>4. s \in Seq(Seq(T)) /\ DOMAIN s = DOMAIN parts /\ \A n \in DOMAIN parts : s[n] = PartTransforms(parts[n], source)
  <2>1. s \in [1 .. Len(parts) -> Seq(T)]
    BY <1>1, <1>3
  <2>2. DOMAIN s = DOMAIN parts /\ \A n \in DOMAIN parts : s[n] = PartTransforms(parts[n], source)
    OBVIOUS
  <2> HIDE DEF s
  <2> QED
    BY <1>1, <2>1, <2>2
<1>5. TransformsOf(parts, source) = Joined(s)
  BY DEF TransformsOf
<1> HIDE DEF s
<1>6. Joined(s) \in Seq(T) /\ ToSet(Joined(s)) = UNION {ToSet(s[n]) : n \in DOMAIN s}
  BY <1>4, JoinedItems
<1>7. UNION {ToSet(s[n]) : n \in DOMAIN s} = UNION {ToSet(PartTransforms(parts[n], source)) : n \in DOMAIN parts}
  BY <1>4
<1> QED
  BY <1>5, <1>6, <1>7 DEF T

\* A buffer filled by transforms, or by some that tell as much, answers with them.
LEMMA FilledAnswers ==
  ASSUME NEW T, Stored(T), NEW given \in Seq(T), NEW all, all \subseteq T,
         Tells(ToSet(given), all), NEW parent, NEW child, parent # child, NEW time \in Int
  PROVE  Answer(LookupTransform(Buffered(given), parent, child, time),
                Between(all, parent, child), time)
<1> DEFINE b == Buffered(given)
           some == ToSet(given)
<1>1. Reflects(b, T, some)
  BY BufferedReflects
<1> HIDE DEF b, some
<1>2. Answer(LookupTransform(b, parent, child, time), Between(some, parent, child), time)
  BY <1>1, BufferAnswers
<1>3. Tells(some, all)
  BY DEF some
<1>4. Answer(LookupTransform(b, parent, child, time), Between(all, parent, child), time)
  BY <1>2, <1>3, AnswerFromMore
<1> QED
  BY <1>4 DEF b

\* The buffers of the parts tell as much as the parts.
LEMMA MergeTells ==
  ASSUME NEW P, \A part \in P : PartTyped(part), NEW parts \in Seq(P)
  PROVE  \E given \in Seq(Given(P, "rosbag2")) :
           MergedBuffer(parts) = Buffered(given) /\ Tells(ToSet(given), ToSet(TransformsOf(parts, "rosbag2")))
<1> DEFINE T == Given(P, "rosbag2")
           D == DOMAIN parts
           others == [n \in D |-> Buffered(PartTransforms(parts[n], "rosbag2"))]
           s == [n \in D |-> ListTransforms(Buffered(PartTransforms(parts[n], "rosbag2")))]
           given == Joined(s)
<1>1. D = 1 .. Len(parts) /\ Len(parts) \in Nat
  OBVIOUS
<1>2. \A n \in D : parts[n] \in P
  OBVIOUS
<1>3. Stored(T)
  BY GivenStored
<1>4. \A n \in D : PartTransforms(parts[n], "rosbag2") \in Seq(T)
  BY <1>2, PartRead
<1> HIDE DEF T, D
<1>5. ASSUME NEW n \in D
      PROVE  LET list == ListTransforms(Buffered(PartTransforms(parts[n], "rosbag2")))
             IN list \in Seq(T) /\ Tells(ToSet(list), ToSet(PartTransforms(parts[n], "rosbag2")))
  <2>1. Reflects(Buffered(PartTransforms(parts[n], "rosbag2")), T, ToSet(PartTransforms(parts[n], "rosbag2")))
    BY <1>3, <1>4, BufferedReflects
  <2> QED
    BY <1>3, <2>1, ListTells
<1>6. DOMAIN others = D /\ \A n \in D : others[n] = Buffered(PartTransforms(parts[n], "rosbag2"))
  OBVIOUS
<1>7. MergedBuffer(parts) = Buffered(given)
  <2>1. MergedBuffer(parts) = Import(others)
    BY DEF MergedBuffer, D
  <2>2. [n \in DOMAIN others |-> ListTransforms(others[n])] = s
    BY <1>6
  <2> HIDE DEF others, s
  <2> QED
    BY <2>1, <2>2 DEF Import
<1>8. s \in Seq(Seq(T)) /\ DOMAIN s = D
      /\ \A n \in D : s[n] = ListTransforms(Buffered(PartTransforms(parts[n], "rosbag2")))
  <2>1. s \in [1 .. Len(parts) -> Seq(T)]
    BY <1>1, <1>5
  <2>2. DOMAIN s = D /\ \A n \in D : s[n] = ListTransforms(Buffered(PartTransforms(parts[n], "rosbag2")))
    OBVIOUS
  <2> HIDE DEF s
  <2> QED
    BY <1>1, <2>1, <2>2
<1> HIDE DEF others, s
<1>9. given \in Seq(T) /\ ToSet(given) = UNION {ToSet(s[n]) : n \in D}
  BY <1>8, JoinedItems
<1> HIDE DEF given
<1> DEFINE all == ToSet(TransformsOf(parts, "rosbag2"))
<1>10. all = UNION {ToSet(PartTransforms(parts[n], "rosbag2")) : n \in D}
  BY PartsRead DEF D
<1> HIDE DEF all
<1>11. \A n \in D : Tells(ToSet(s[n]), ToSet(PartTransforms(parts[n], "rosbag2")))
  BY <1>5, <1>8
<1>12. ToSet(given) \subseteq all
  BY <1>9, <1>10, <1>11 DEF Tells
<1>13. ASSUME NEW t \in all, t \notin ToSet(given)
       PROVE  \E u \in ToSet(given) : u.static /\ u.parent = t.parent /\ u.child = t.child
  <2>1. PICK n \in D : t \in ToSet(PartTransforms(parts[n], "rosbag2"))
    BY <1>10
  <2>2. t \notin ToSet(s[n])
    BY <1>9, <1>13
  <2>3. PICK u \in ToSet(s[n]) : u.static /\ u.parent = t.parent /\ u.child = t.child
    BY <1>11, <2>1, <2>2 DEF Tells
  <2> QED
    BY <1>9, <2>3
<1>14. Tells(ToSet(given), all)
  BY <1>12, <1>13 DEF Tells
<1> QED
  BY <1>7, <1>9, <1>14 DEF T, all

\* Between two frames, an engine of a recording answers with the latest transform in
\* the file that is not newer than the time asked for, or with a static one: in
\* whatever order the file holds them, and whether the buffer is filled by the whole
\* file, with a sidecar or without, or merged of the buffers of a folder's parts.
THEOREM LatestIsFound ==
  ASSUME NEW f \in Openable, NEW sidecar, NEW parent, NEW child, NEW time \in Int
  PROVE  LatestTransform(EngineOf(Files[f], sidecar), parent, child, time)
<1> DEFINE file == Files[f]
           engine == EngineOf(file, sidecar)
           source == Source(file)
           P == ToSet(file.parts)
           T == Given(P, source)
           all == ToSet(TransformsOf(engine.parts, source))
<1>s. engine.source = source
  BY DEF EngineOf, Source, McapEngine, BagEngine
<1>1. SUFFICES ASSUME parent # child
               PROVE  Answer(LookupTransform(engine.tf, parent, child, time),
                             Between(all, parent, child), time)
  <2> HIDE DEF engine, source
  <2>1. \/ parent = child
        \/ Answer(LookupTransform(engine.tf, parent, child, time), Between(all, parent, child), time)
    BY <1>1
  <2>2. AllTransforms(engine) = all
    BY <1>s DEF AllTransforms
  <2> HIDE DEF all
  <2> QED
    BY <2>1, <2>2 DEF LatestTransform, Answer, Between, engine
<1>2. WellFormed(file) /\ Resolve(file) # <<>>
  BY FilesAssumption DEF Openable
<1>3. file.parts \in Seq(P) /\ \A part \in P : PartTyped(part)
  BY <1>2 DEF WellFormed, PartTyped
<1>4. Stored(T)
  BY GivenStored
<1>5. ASSUME NEW given \in Seq(T), engine.tf = Buffered(given), Tells(ToSet(given), all), all \subseteq T
      PROVE  Answer(LookupTransform(engine.tf, parent, child, time), Between(all, parent, child), time)
  <2> HIDE DEF engine, all, T
  <2> QED
    BY <1>1, <1>4, <1>5, FilledAnswers
<1>6. ASSUME NEW parts \in Seq(P), engine.parts = parts
      PROVE  /\ TransformsOf(parts, source) \in Seq(T) /\ all \subseteq T /\ Tells(all, all)
             /\ all = UNION {ToSet(PartTransforms(parts[n], source)) : n \in DOMAIN parts}
  <2> HIDE DEF engine, P
  <2>1. TransformsOf(parts, source) \in Seq(T)
        /\ ToSet(TransformsOf(parts, source)) = UNION {ToSet(PartTransforms(parts[n], source)) : n \in DOMAIN parts}
    BY <1>3, PartsRead
  <2>2. ToSet(TransformsOf(parts, source)) \subseteq T
    <3> HIDE DEF T
    <3> QED
      BY <2>1 DEF ToSet
  <2> QED
    BY <1>6, <2>1, <2>2 DEF Tells
<1>7. CASE file.format = "mcap"
  <2> DEFINE part == file.parts[1]
             given == PartTransforms(part, "mcap")
  <2>1. engine.parts = file.parts /\ engine.tf = Buffered(given) /\ source = "mcap"
    BY <1>7 DEF EngineOf, Source, McapEngine, McapTfOnly
  <2>2. DOMAIN file.parts = {1} /\ part \in P
    <3>1. Len(file.parts) = 1
      BY <1>2, <1>7 DEF WellFormed
    <3>2. DOMAIN file.parts = 1 .. 1 /\ 1 .. 1 = {1}
      BY <1>3, <3>1
    <3> QED
      BY <3>2 DEF ToSet
  <2> HIDE DEF engine, P, source
  <2>3. given \in Seq(T)
    BY <1>3, <2>1, <2>2, PartRead
  <2>4. /\ all \subseteq T /\ Tells(all, all)
        /\ all = UNION {ToSet(PartTransforms(file.parts[n], source)) : n \in DOMAIN file.parts}
    BY <1>3, <1>6, <2>1
  <2>5. all = ToSet(given)
    BY <2>1, <2>2, <2>4
  <2> HIDE DEF all, given, T
  <2> QED
    BY <1>5, <2>1, <2>3, <2>4, <2>5
<1>8. CASE file.format # "mcap"
  <2> DEFINE parts == Resolve(file)
  <2>1. engine.parts = parts /\ source = "rosbag2"
        /\ (engine.tf = BagTfOnly(parts) \/ engine.tf = MergedBuffer(parts))
    BY <1>8 DEF EngineOf, Source, BagEngine
  <2>2. parts \in Seq(P)
    BY <1>2, Resolved
  <2> HIDE DEF engine, P, parts, source
  <2>3. TransformsOf(parts, source) \in Seq(T) /\ all \subseteq T /\ Tells(all, all) /\ all = ToSet(TransformsOf(parts, source))
    BY <1>6, <2>1, <2>2
  <2>4. CASE engine.tf = BagTfOnly(parts)
    <3>1. engine.tf = Buffered(TransformsOf(parts, source))
      BY <2>1, <2>4 DEF BagTfOnly
    <3> HIDE DEF all, T
    <3> QED
      BY <1>5, <2>3, <3>1
  <2>5. CASE engine.tf = MergedBuffer(parts)
    <3>1. PICK given \in Seq(T) : MergedBuffer(parts) = Buffered(given)
                                 /\ Tells(ToSet(given), ToSet(TransformsOf(parts, source)))
      BY <1>3, <2>1, <2>2, MergeTells
    <3> HIDE DEF all, T
    <3> QED
      BY <1>5, <2>3, <2>5, <3>1
  <2> QED
    BY <2>1, <2>4, <2>5
<1> QED
  BY <1>7, <1>8

\* Between any two different frames, at any time, the buffer of the open recording
\* (TfBuffer.lookupTransform) answers with a static transform of the recording, or the
\* latest one by then, or with nothing where there is none.
TransformsAreLatest ==
  Opened => \A parent, child : \A time \in Int : LatestTransform(Engine, parent, child, time)

\* Whatever was opened before, and whichever sidecar it was opened with, the recording
\* that is open answers every lookup with its latest transform.
THEOREM TransformsAreLatestAlways == Spec => []TransformsAreLatest
<1>1. ASSUME IInv, Opened, NEW parent, NEW child, NEW time \in Int
      PROVE  LatestTransform(Engine, parent, child, time)
  <2> DEFINE f == ingest[1].file
             sidecar == ingest[1].sidecar
  <2>1. f \in Openable
    BY <1>1 DEF IInv, OpsInv, SessionTyped
  <2>2. Engine = EngineOf(Files[f], sidecar)
    BY <2>1 DEF Engine, EngineFor, Tabulated, Engines
  <2> HIDE DEF f, sidecar
  <2> QED
    BY <2>1, <2>2, LatestIsFound
<1>2. IInv => TransformsAreLatest
  BY <1>1 DEF TransformsAreLatest
<1> QED
  BY <1>2, Invariance, PTL

-----------------------------------------------------------------------------
(* The index of a recording.                                               *)

\* A channel's place in an index, and the indexes of some channels and entries.
Places(C, E) == [channel : {c.id : c \in C}, schema : {c.schema : c \in C}, entries : Seq(E)]

Indexes(C, E) == UNION {[S -> Places(C, E)] : S \in SUBSET {c.topic : c \in C}}

\* An index is one of those if each of its topics has its place.
LEMMA IndexIn ==
  ASSUME NEW C, NEW E, NEW i
  PROVE  i \in Indexes(C, E) <=> /\ i = [t \in DOMAIN i |-> i[t]]
                                 /\ DOMAIN i \subseteq {c.topic : c \in C}
                                 /\ \A t \in DOMAIN i : i[t] \in Places(C, E)
<1> DEFINE T == {c.topic : c \in C}
           P == Places(C, E)
<1>1. Indexes(C, E) = UNION {[S -> P] : S \in SUBSET T}
  BY DEF Indexes
<1> HIDE DEF T, P
<1>2. ASSUME i \in Indexes(C, E)
      PROVE  i = [t \in DOMAIN i |-> i[t]] /\ DOMAIN i \subseteq T /\ \A t \in DOMAIN i : i[t] \in P
  <2>1. PICK S \in SUBSET T : i \in [S -> P]
    BY <1>1, <1>2
  <2> QED
    BY <2>1
<1>3. ASSUME i = [t \in DOMAIN i |-> i[t]], DOMAIN i \subseteq T, \A t \in DOMAIN i : i[t] \in P
      PROVE  i \in Indexes(C, E)
  <2>1. i \in [DOMAIN i -> P]
    BY <1>3
  <2> QED
    BY <1>1, <1>3, <2>1
<1> QED
  BY <1>2, <1>3 DEF T, P

\* A place with other entries.
LEMMA PlaceWith ==
  ASSUME NEW C, NEW E, NEW x \in Places(C, E), NEW s \in Seq(E)
  PROVE  LET y == [x EXCEPT !.entries = s]
         IN y \in Places(C, E) /\ y.entries = s
<1> DEFINE A == {c.id : c \in C}
           B == {c.schema : c \in C}
           V == Seq(E)
<1> HIDE DEF A, B, V
<1>1. \A z \in [channel : A, schema : B, entries : V], v \in V :
        LET y == [z EXCEPT !.entries = v]
        IN y \in [channel : A, schema : B, entries : V] /\ y.entries = v
  OBVIOUS
<1> QED
  BY <1>1 DEF Places, A, B, V

\* The entries of a topic.
LEMMA EntriesTyped ==
  ASSUME NEW C, NEW E, NEW i \in Indexes(C, E), NEW topic
  PROVE  /\ Entries(i, topic) \in Seq(E)
         /\ topic \in DOMAIN i => Entries(i, topic) = i[topic].entries
         /\ topic \notin DOMAIN i => Entries(i, topic) = <<>>
<1>1. \A t \in DOMAIN i : i[t].entries \in Seq(E)
  BY IndexIn DEF Places
<1>2. <<>> \in Seq(E)
  OBVIOUS
<1> QED
  BY <1>1, <1>2 DEF Entries

\* Registering a channel.
LEMMA RegisterKeeps ==
  ASSUME NEW C, NEW E, NEW i \in Indexes(C, E), NEW c \in C
  PROVE  LET r == Register(i, c)
         IN /\ r \in Indexes(C, E) /\ c.topic \in DOMAIN r
            /\ \A t : Entries(r, t) = Entries(i, t)
<1> DEFINE r == Register(i, c)
           old == Entries(i, c.topic)
           new == [channel |-> c.id, schema |-> c.schema, entries |-> old]
           D == DOMAIN i \cup {c.topic}
<1>1. r = [t \in D |-> IF t = c.topic THEN new ELSE i[t]]
  BY DEF Register
<1>2. new.entries = old /\ new \in Places(C, E)
  <2>1. old \in Seq(E)
    BY EntriesTyped
  <2> HIDE DEF old
  <2> QED
    BY <2>1 DEF Places
<1>3. DOMAIN i \subseteq {d.topic : d \in C} /\ \A t \in DOMAIN i : i[t] \in Places(C, E)
  BY IndexIn
<1> HIDE DEF r, new, D
<1>4. /\ DOMAIN r = D
      /\ \A t \in D : r[t] = IF t = c.topic THEN new ELSE i[t]
  BY <1>1
<1>5. r \in Indexes(C, E)
  <2>1. \A t \in D : r[t] \in Places(C, E)
    BY <1>2, <1>3, <1>4 DEF D
  <2>2. r = [t \in DOMAIN r |-> r[t]]
    BY <1>1
  <2>3. D \subseteq {d.topic : d \in C}
    BY <1>3 DEF D
  <2> QED
    BY <1>4, <2>1, <2>2, <2>3, IndexIn
<1>6. ASSUME NEW t PROVE Entries(r, t) = Entries(i, t)
  <2>1. CASE t = c.topic
    BY <1>2, <1>4, <2>1 DEF Entries, D
  <2>2. CASE t # c.topic
    BY <1>4, <2>2 DEF Entries, D
  <2> QED
    BY <2>1, <2>2
<1>7. c.topic \in DOMAIN r
  BY <1>4 DEF D
<1> QED
  BY <1>5, <1>6, <1>7 DEF r

\* Adding an entry.
LEMMA AddEntryAdds ==
  ASSUME NEW C, NEW E, NEW i \in Indexes(C, E), NEW c \in C, NEW e \in E
  PROVE  LET r == AddEntry(i, c, e)
         IN /\ r \in Indexes(C, E)
            /\ \A t : ToSet(Entries(r, t)) =
                 ToSet(Entries(i, t)) \cup (IF t = c.topic THEN {e} ELSE {})
<1> DEFINE g == Register(i, c)
           r == AddEntry(i, c, e)
           topic == c.topic
           new == [g[topic] EXCEPT !.entries = Append(@, e)]
<1>1. g \in Indexes(C, E) /\ topic \in DOMAIN g /\ \A t : Entries(g, t) = Entries(i, t)
  BY RegisterKeeps
<1>2. r = [g EXCEPT ![topic] = new]
  BY DEF AddEntry
<1> HIDE DEF g, r, topic
<1>3. /\ g = [t \in DOMAIN g |-> g[t]] /\ DOMAIN g \subseteq {d.topic : d \in C}
      /\ \A t \in DOMAIN g : g[t] \in Places(C, E)
  BY <1>1, IndexIn
<1>4. new \in Places(C, E) /\ new.entries = Append(g[topic].entries, e)
  <2> DEFINE x == g[topic]
             s == Append(x.entries, e)
  <2>1. x \in Places(C, E) /\ new = [x EXCEPT !.entries = s]
    BY <1>1, <1>3
  <2> HIDE DEF x, new
  <2>2. s \in Seq(E)
    BY <2>1 DEF Places
  <2> HIDE DEF s
  <2>3. new \in Places(C, E) /\ new.entries = s
    BY <2>1, <2>2, PlaceWith
  <2> QED
    BY <2>3 DEF x, s
<1> HIDE DEF new
<1>5. DOMAIN r = DOMAIN g /\ \A t \in DOMAIN g : r[t] = IF t = topic THEN new ELSE g[t]
  BY <1>2, <1>3
<1>6. r \in Indexes(C, E)
  <2>1. \A t \in DOMAIN g : r[t] \in Places(C, E)
    BY <1>3, <1>4, <1>5
  <2>2. r = [t \in DOMAIN r |-> r[t]]
    BY <1>2, <1>3
  <2> QED
    BY <1>3, <1>5, <2>1, <2>2, IndexIn
<1>7. ASSUME NEW t
      PROVE  ToSet(Entries(r, t)) = ToSet(Entries(i, t)) \cup (IF t = topic THEN {e} ELSE {})
  <2>1. CASE t = topic
    <3> DEFINE s == Entries(g, topic)
    <3>1. s \in Seq(E) /\ s = g[topic].entries
      BY <1>1, EntriesTyped
    <3>2. Entries(r, t) = Append(s, e)
      BY <1>1, <1>4, <1>5, <2>1, <3>1 DEF Entries
    <3> HIDE DEF s
    <3>3. ToSet(Append(s, e)) = ToSet(s) \cup {e}
      <4>1. /\ Len(s) \in Nat /\ DOMAIN s = 1 .. Len(s) /\ DOMAIN Append(s, e) = 1 .. Len(s) + 1
            /\ \A k \in 1 .. Len(s) : Append(s, e)[k] = s[k]
            /\ Append(s, e)[Len(s) + 1] = e
        BY <3>1
      <4> DEFINE n == Len(s)
                 a == Append(s, e)
      <4>2. 1 .. n + 1 = (1 .. n) \cup {n + 1}
        BY <4>1
      <4> HIDE DEF n, a
      <4> QED
        BY <4>1, <4>2 DEF ToSet, n, a
    <3> QED
      BY <1>1, <2>1, <3>2, <3>3 DEF s
  <2>2. CASE t # topic
    <3>1. Entries(r, t) = Entries(g, t)
      BY <1>5, <2>2 DEF Entries
    <3> QED
      BY <1>1, <2>2, <3>1
  <2> QED
    BY <2>1, <2>2
<1> QED
  BY <1>6, <1>7 DEF r, topic

\* Putting entries in order.
LEMMA InTimeSorts ==
  ASSUME NEW E, \A e \in E : e.time \in Int, NEW s \in Seq(E)
  PROVE  LET r == InTime(s)
         IN r \in Seq(E) /\ Sorted(r) /\ ToSet(r) = ToSet(s)
<1> DEFINE n == Len(s)
           Put(v, e) == InsertAt(v, Position(v, e.time) + 1, e)
           Turn(f) == [k \in 0 .. n |-> IF k = 0 THEN <<>> ELSE Put(f[k - 1], s[k])]
           sorted == CHOOSE f : f = Turn(f)
           V == {v \in Seq(E) : Sorted(v)}
<1>n. n \in Nat /\ DOMAIN s = 1 .. n /\ \A k \in 1 .. n : s[k] \in E
  OBVIOUS
<1>1. InTime(s) = sorted[n]
  BY DEF InTime
<1>2. ASSUME NEW v \in V, NEW e \in E
      PROVE  Put(v, e) \in V /\ ToSet(Put(v, e)) = ToSet(v) \cup {e}
  BY InsertKeepsSorted
<1>v. <<>> \in V
  BY DEF Sorted
<1> HIDE DEF Put, V
<1>3. \E f : f = Turn(f)
  <2> DEFINE comb == [p \in (1 .. n) \X V |-> Put(p[2], s[p[1]])]
  <2>1. \A k \in 1 .. n, v \in V : comb[<<k, v>>] = Put(v, s[k])
    <3> HIDE DEF n
    <3> QED
      OBVIOUS
  <2>2. LoopIn(V, n, <<>>, comb)
    <3> HIDE DEF comb, Turn
    <3> QED
      BY <1>n, <1>2, <1>v, <2>1 DEF LoopIn
  <2> HIDE DEF comb
  <2>3. PICK f \in [0 .. n -> V] : f = Looped(f, n, <<>>, comb)
    <3> HIDE DEF Turn
    <3> QED
      BY <2>2, LoopExists
  <2> HIDE DEF n
  <2>4. \A k \in 0 .. n : k # 0 => k \in 1 .. n /\ f[k - 1] \in V
    BY <1>n, <2>3
  <2>5. f = Turn(f)
    BY <2>1, <2>3, <2>4 DEF Looped
  <2> QED
    BY <2>5
<1>4. sorted = Turn(sorted)
  <2> HIDE DEF Turn
  <2> QED
    BY <1>3
<1> HIDE DEF sorted, n
<1>5. sorted[0] = <<>> /\ \A k \in 1 .. n : sorted[k] = Put(sorted[k - 1], s[k])
  <2>1. \A k \in 0 .. n : sorted[k] = IF k = 0 THEN <<>> ELSE Put(sorted[k - 1], s[k])
    BY <1>4
  <2> HIDE DEF Turn
  <2>2. 0 \in 0 .. n /\ \A k \in 1 .. n : k \in 0 .. n /\ k # 0
    BY <1>n
  <2> QED
    BY <2>1, <2>2
<1> HIDE DEF Turn
<1> DEFINE Holds(k) == sorted[k] \in V /\ ToSet(sorted[k]) = {s[j] : j \in 1 .. k}
           g == [k \in 0 .. n |-> IF Holds(k) THEN 1 ELSE 0]
           W == {1}
<1>6. \A k \in 0 .. n : g[k] \in W
  <2>1. g[0] \in W
    <3>1. Holds(0)
      BY <1>v, <1>5 DEF ToSet
    <3> HIDE DEF Holds
    <3> QED
      BY <1>n, <3>1
  <2>2. ASSUME NEW k \in 1 .. n, g[k - 1] \in W PROVE g[k] \in W
    <3>1. k - 1 \in 0 .. n /\ k \in 0 .. n
      BY <1>n
    <3>2. Holds(k - 1)
      <4> HIDE DEF Holds
      <4> QED
        BY <2>2, <3>1
    <3>3. sorted[k] \in V /\ ToSet(sorted[k]) = ToSet(sorted[k - 1]) \cup {s[k]}
      BY <1>n, <1>2, <1>5, <3>2
    <3>4. 1 .. k = (1 .. k - 1) \cup {k}
      BY <1>n
    <3>5. Holds(k)
      BY <3>2, <3>3, <3>4
    <3> HIDE DEF Holds
    <3> QED
      BY <3>1, <3>5
  <2> HIDE DEF g, W
  <2> QED
    BY <1>n, <2>1, <2>2, LoopValues
<1>7. Holds(n)
  <2>1. n \in 0 .. n
    BY <1>n
  <2> HIDE DEF Holds
  <2> QED
    BY <1>6, <2>1
<1>8. ToSet(s) = {s[j] : j \in 1 .. n}
  BY <1>n DEF ToSet
<1> QED
  BY <1>1, <1>7, <1>8 DEF V

\* Finalizing an index.
LEMMA FinalizeSorts ==
  ASSUME NEW C, NEW E, \A e \in E : e.time \in Int, NEW i \in Indexes(C, E)
  PROVE  LET r == Finalize(i)
         IN /\ r \in Indexes(C, E)
            /\ \A t : Sorted(Entries(r, t)) /\ ToSet(Entries(r, t)) = ToSet(Entries(i, t))
<1> DEFINE r == Finalize(i)
<1>1. DOMAIN i \subseteq {c.topic : c \in C} /\ \A t \in DOMAIN i : i[t] \in Places(C, E)
  BY IndexIn
<1>2. r = [t \in DOMAIN i |-> [i[t] EXCEPT !.entries = InTime(i[t].entries)]]
  BY DEF Finalize
<1> HIDE DEF r
<1>3. ASSUME NEW t \in DOMAIN i
      PROVE  /\ r[t] \in Places(C, E) /\ Sorted(r[t].entries)
             /\ ToSet(r[t].entries) = ToSet(i[t].entries)
  <2> DEFINE x == i[t]
             s == InTime(x.entries)
  <2>1. x \in Places(C, E) /\ r[t] = [x EXCEPT !.entries = s]
    BY <1>1, <1>2, <1>3
  <2> HIDE DEF x
  <2>2. x.entries \in Seq(E)
    BY <2>1 DEF Places
  <2>3. s \in Seq(E) /\ Sorted(s) /\ ToSet(s) = ToSet(x.entries)
    BY <2>2, InTimeSorts
  <2> HIDE DEF s
  <2>4. r[t] \in Places(C, E) /\ r[t].entries = s
    BY <2>1, <2>3, PlaceWith
  <2> QED
    BY <2>3, <2>4 DEF x
<1>4. DOMAIN r = DOMAIN i /\ r = [t \in DOMAIN r |-> r[t]]
  BY <1>2
<1>5. r \in Indexes(C, E)
  BY <1>1, <1>3, <1>4, IndexIn
<1>6. ASSUME NEW t PROVE Sorted(Entries(r, t)) /\ ToSet(Entries(r, t)) = ToSet(Entries(i, t))
  <2>1. Sorted(<<>>)
    BY DEF Sorted
  <2> QED
    BY <1>3, <1>4, <2>1 DEF Entries
<1> QED
  BY <1>5, <1>6 DEF r

\* Merging an index into another.
LEMMA MergeAdds ==
  ASSUME NEW C, NEW E, NEW i \in Indexes(C, E), NEW own \in Indexes(C, E)
  PROVE  LET r == MergeIndex(i, own)
         IN /\ r \in Indexes(C, E)
            /\ \A t : ToSet(Entries(r, t)) = ToSet(Entries(i, t)) \cup ToSet(Entries(own, t))
<1> DEFINE r == MergeIndex(i, own)
           D == DOMAIN i \cup DOMAIN own
<1>1. /\ DOMAIN i \subseteq {c.topic : c \in C} /\ \A t \in DOMAIN i : i[t] \in Places(C, E)
      /\ DOMAIN own \subseteq {c.topic : c \in C} /\ \A t \in DOMAIN own : own[t] \in Places(C, E)
  BY IndexIn
<1>2. r = [t \in D |-> IF t \notin DOMAIN own THEN i[t]
                       ELSE [own[t] EXCEPT !.entries = Entries(i, t) \o own[t].entries]]
  BY DEF MergeIndex
<1> HIDE DEF r
<1>3. DOMAIN r = D /\ r = [t \in DOMAIN r |-> r[t]]
  BY <1>2
<1>4. ASSUME NEW t \in DOMAIN own
      PROVE  r[t] \in Places(C, E) /\ r[t].entries = Entries(i, t) \o Entries(own, t)
  <2> DEFINE x == own[t]
             s == Entries(i, t) \o Entries(own, t)
  <2>1. Entries(i, t) \in Seq(E) /\ Entries(own, t) \in Seq(E) /\ Entries(own, t) = x.entries
    BY EntriesTyped
  <2>2. s \in Seq(E)
    BY <2>1
  <2>3. x \in Places(C, E) /\ r[t] = [x EXCEPT !.entries = s]
    BY <1>1, <1>2, <2>1
  <2> HIDE DEF x, s
  <2>4. r[t] \in Places(C, E) /\ r[t].entries = s
    BY <2>2, <2>3, PlaceWith
  <2> QED
    BY <2>4 DEF s
<1>5. \A t \in D : r[t] \in Places(C, E)
  BY <1>1, <1>2, <1>4
<1>6. r \in Indexes(C, E)
  BY <1>1, <1>3, <1>5, IndexIn
<1>7. ASSUME NEW t
      PROVE  ToSet(Entries(r, t)) = ToSet(Entries(i, t)) \cup ToSet(Entries(own, t))
  <2>1. CASE t \in DOMAIN own
    <3> DEFINE a == Entries(i, t)
               b == Entries(own, t)
    <3>1. a \in Seq(E) /\ b \in Seq(E)
      BY EntriesTyped
    <3>2. Entries(r, t) = a \o b
      BY <1>3, <1>4, <2>1 DEF Entries
    <3> HIDE DEF a, b
    <3>3. ToSet(a \o b) = ToSet(a) \cup ToSet(b)
      BY <3>1, ConcatItems
    <3> QED
      BY <3>2, <3>3 DEF a, b
  <2>2. CASE t \notin DOMAIN own
    <3>1. Entries(own, t) = <<>> /\ Entries(r, t) = Entries(i, t)
      BY <1>2, <1>3, <2>2 DEF Entries
    <3> QED
      BY <3>1 DEF ToSet
  <2> QED
    BY <2>1, <2>2
<1> QED
  BY <1>6, <1>7 DEF r

\* What is assumed of a part, and the rows of a topic with and without a blob.
PartSound(part) ==
  /\ part.channels \in Seq(ToSet(part.channels)) /\ part.rows \in Seq(ToSet(part.rows))
  /\ \A c, d \in ToSet(part.channels) : c.id = d.id => c = d
  /\ \A row \in ToSet(part.rows) : row.stamp \in Nat

HasTopic(part, r, topic) == \E c \in ToSet(part.channels) : c.id = r.channel /\ c.topic = topic

OfTopic(part, topic) == {r \in ToSet(part.rows) : HasTopic(part, r, topic)}

TopicRows(part, topic) == {r \in OfTopic(part, topic) : r.value # NoBlob}

\* Their entries.
RowEntries(part, n, topic) == {EntryOf(n, r) : r \in TopicRows(part, topic)}

\* The entries of some rows, as far as they are of a topic.
EntriesOf(part, n, rows, topic) == {EntryOf(n, r) : r \in rows \cap OfTopic(part, topic)}

\* The items that a filter keeps.
LEMMA KeptItems ==
  ASSUME NEW T, NEW s \in Seq(T), NEW wanted
  PROVE  Keeping(s, wanted) \in Seq(T) /\ ToSet(Keeping(s, wanted)) = ToSet(s) \cap wanted
<1> DEFINE r == Keeping(s, wanted)
<1>1. r \in Seq(T)
  BY KeepingSifts
<1>2. \A k \in DOMAIN r : \E i \in DOMAIN s : s[i] \in wanted /\ r[k] = s[i]
  BY KeepingSifts
<1>3. \A i \in DOMAIN s : s[i] \in wanted => \E k \in DOMAIN r : r[k] = s[i]
  BY KeepingSifts
<1> HIDE DEF r
<1>4. ToSet(r) = ToSet(s) \cap wanted
  BY <1>2, <1>3 DEF ToSet
<1> QED
  BY <1>1, <1>4 DEF r

\* The channel of a row.
LEMMA ChannelFound ==
  ASSUME NEW part, PartSound(part), NEW r
  PROVE  LET c == ChannelOf(part, r)
         IN /\ c # <<>> => c[1] \in ToSet(part.channels) /\ c[1].id = r.channel
            /\ \A topic : /\ c # <<>> /\ c[1].topic = topic <=> HasTopic(part, r, topic)
                          /\ (\E d \in ToSet(c) : d.topic = topic) <=> HasTopic(part, r, topic)
<1> DEFINE C == ToSet(part.channels)
           own == {d \in C : d.id = r.channel}
           c == ChannelOf(part, r)
<1>1. c \in Seq(C) /\ ToSet(c) = C \cap own
  BY KeptItems DEF ChannelOf, PartSound
<1>2. \A d, e \in own : d = e
  BY DEF PartSound
<1> HIDE DEF c
<1>3. ToSet(c) = own
  BY <1>1
<1>4. c # <<>> => c[1] \in ToSet(c)
  BY <1>1 DEF ToSet
<1>5. c = <<>> => ToSet(c) = {}
  BY DEF ToSet
<1>h. \A topic : HasTopic(part, r, topic) <=> \E d \in own : d.topic = topic
  BY DEF HasTopic
<1> HIDE DEF own
<1>6. ASSUME NEW topic
      PROVE  /\ c # <<>> /\ c[1].topic = topic <=> \E d \in own : d.topic = topic
             /\ (\E d \in ToSet(c) : d.topic = topic) <=> \E d \in own : d.topic = topic
  BY <1>2, <1>3, <1>4, <1>5
<1> QED
  BY <1>3, <1>4, <1>6, <1>h DEF own, c

\* The rows that are read of a part.
LEMMA RowsRead ==
  ASSUME NEW part, PartSound(part)
  PROVE  /\ Readable(part) \in Seq(ToSet(part.rows))
         /\ ToSet(Readable(part)) = {r \in ToSet(part.rows) : r.value # NoBlob}
<1> DEFINE R == ToSet(part.rows)
           all == ByStamp(part.rows)
           wanted == {r \in R : r.value # NoBlob}
<1>1. part.rows \in Seq(R) /\ \A r \in R : r.stamp \in Int
  BY DEF PartSound
<1>2. all \in Seq(R) /\ ToSet(all) = R
  <2> HIDE DEF R
  <2>1. all \in Seq(R) /\ ToSet(all) = ToSet(part.rows)
    BY <1>1, ByStampSorts
  <2> QED
    BY <2>1 DEF R
<1>3. Readable(part) = Keeping(all, wanted)
  BY DEF Readable
<1> HIDE DEF all, wanted
<1>4. Keeping(all, wanted) \in Seq(R) /\ ToSet(Keeping(all, wanted)) = R \cap wanted
  BY <1>2, KeptItems
<1>5. R \cap wanted = wanted
  BY DEF wanted
<1> QED
  BY <1>3, <1>4, <1>5 DEF wanted

\* One row more.
LEMMA RowIndexed ==
  ASSUME NEW part, PartSound(part), NEW C, ToSet(part.channels) \subseteq C,
         NEW E, NEW n, NEW i \in Indexes(C, E), NEW r \in ToSet(part.rows), EntryOf(n, r) \in E
  PROVE  LET new == IndexRow(i, part, r, n)
         IN /\ new \in Indexes(C, E)
            /\ \A t : ToSet(Entries(new, t)) =
                 ToSet(Entries(i, t)) \cup EntriesOf(part, n, {r}, t)
<1> DEFINE c == ChannelOf(part, r)
           new == IndexRow(i, part, r, n)
           e == EntryOf(n, r)
<1>1. /\ c # <<>> => c[1] \in ToSet(part.channels)
      /\ \A t : c # <<>> /\ c[1].topic = t <=> r \in OfTopic(part, t)
  <2>1. /\ c # <<>> => c[1] \in ToSet(part.channels)
        /\ \A t : c # <<>> /\ c[1].topic = t <=> HasTopic(part, r, t)
    BY ChannelFound
  <2> HIDE DEF c
  <2> QED
    BY <2>1 DEF OfTopic
<1>2. new = IF c = <<>> THEN i ELSE AddEntry(i, c[1], e)
  BY DEF IndexRow
<1>3. \A t : EntriesOf(part, n, {r}, t) =
               IF c # <<>> /\ c[1].topic = t THEN {e} ELSE {}
  <2> HIDE DEF c
  <2> QED
    BY <1>1 DEF EntriesOf
<1> HIDE DEF c, new, e
<1>4. CASE c = <<>>
  BY <1>2, <1>3, <1>4 DEF new
<1>5. CASE c # <<>>
  <2>1. c[1] \in C /\ e \in E
    BY <1>1, <1>5 DEF e
  <2>2. /\ AddEntry(i, c[1], e) \in Indexes(C, E)
        /\ \A t : ToSet(Entries(AddEntry(i, c[1], e), t)) =
             ToSet(Entries(i, t)) \cup (IF t = c[1].topic THEN {e} ELSE {})
    BY <2>1, AddEntryAdds
  <2> QED
    BY <1>2, <1>3, <1>5, <2>2 DEF new
<1> QED
  BY <1>4, <1>5

\* The index of nothing.
LEMMA EmptyIndex ==
  ASSUME NEW C, NEW E
  PROVE  <<>> \in Indexes(C, E) /\ \A t : ToSet(Entries(<<>>, t)) = {}
<1>1. DOMAIN <<>> = {} /\ <<>> = [t \in {} |-> <<>>[t]]
  OBVIOUS
<1>2. \A t : Entries(<<>>, t) = <<>>
  BY <1>1 DEF Entries
<1>3. ToSet(<<>>) = {}
  BY DEF ToSet
<1>4. <<>> \in Indexes(C, E)
  BY <1>1, IndexIn
<1> QED
  BY <1>2, <1>3, <1>4

\* The index of a part has an entry for each of its rows that can be read.
PartHeld(part, n, C, E) ==
  /\ IndexPart(part, n) \in Indexes(C, E)
  /\ \A t : ToSet(Entries(IndexPart(part, n), t)) = RowEntries(part, n, t)

LEMMA PartIndexed ==
  ASSUME NEW part, PartSound(part), NEW C, ToSet(part.channels) \subseteq C,
         NEW E, NEW n, \A r \in ToSet(part.rows) : EntryOf(n, r) \in E
  PROVE  PartHeld(part, n, C, E)
<1> DEFINE rows == Readable(part)
           m == Len(part.channels)
           z == m + Len(rows)
           V == Indexes(C, E)
           Next1(k, v) == IF k <= m THEN Register(v, part.channels[k])
                          ELSE IndexRow(v, part, rows[k - m], n)
           Turn(f) == [k \in 0 .. z |-> IF k = 0 THEN <<>> ELSE Next1(k, f[k - 1])]
           after == CHOOSE f : f = Turn(f)
<1>n. /\ m \in Nat /\ Len(rows) \in Nat /\ z \in Nat /\ \A k \in 1 .. m : part.channels[k] \in C
      /\ \A k \in 1 .. Len(rows) : rows[k] \in ToSet(part.rows)
      /\ ToSet(rows) = {rows[k] : k \in 1 .. Len(rows)}
      /\ ToSet(rows) = {r \in ToSet(part.rows) : r.value # NoBlob}
  <2>1. part.channels \in Seq(ToSet(part.channels))
    BY DEF PartSound
  <2>2. rows \in Seq(ToSet(part.rows)) /\ ToSet(rows) = {r \in ToSet(part.rows) : r.value # NoBlob}
    BY RowsRead
  <2> HIDE DEF rows
  <2>3. DOMAIN rows = 1 .. Len(rows) /\ Len(rows) \in Nat
    BY <2>2
  <2>4. \A k \in 1 .. Len(rows) : rows[k] \in ToSet(part.rows)
    BY <2>2
  <2>5. ToSet(rows) = {rows[k] : k \in 1 .. Len(rows)}
    BY <2>3 DEF ToSet
  <2> QED
    BY <2>1, <2>2, <2>3, <2>4, <2>5
<1>1. IndexPart(part, n) = after[z]
  BY DEF IndexPart
<1> HIDE DEF rows, m
<1>2. ASSUME NEW k \in 1 .. z, NEW v \in V
      PROVE  /\ Next1(k, v) \in V
             /\ \A t : ToSet(Entries(Next1(k, v), t)) = ToSet(Entries(v, t)) \cup
                  (IF k <= m THEN {} ELSE EntriesOf(part, n, {rows[k - m]}, t))
  <2>1. CASE k <= m
    <3>1. k \in 1 .. m
      BY <1>n, <2>1
    <3>2. part.channels[k] \in C
      BY <1>n, <3>1
    <3>3. /\ Register(v, part.channels[k]) \in V
          /\ \A t : Entries(Register(v, part.channels[k]), t) = Entries(v, t)
      BY <3>2, RegisterKeeps
    <3> QED
      BY <2>1, <3>3
  <2>2. CASE ~ (k <= m)
    <3>1. k - m \in 1 .. Len(rows)
      BY <1>n, <2>2
    <3> DEFINE r == rows[k - m]
    <3>2. r \in ToSet(part.rows) /\ EntryOf(n, r) \in E
      BY <1>n, <3>1
    <3> HIDE DEF r
    <3> DEFINE new == IndexRow(v, part, r, n)
    <3>3. new \in Indexes(C, E)
      BY <3>2, RowIndexed
    <3>4. \A t : ToSet(Entries(new, t)) =
                  ToSet(Entries(v, t)) \cup EntriesOf(part, n, {r}, t)
      BY <3>2, RowIndexed
    <3>5. Next1(k, v) = new
      BY <2>2 DEF r
    <3> HIDE DEF new, Next1
    <3> QED
      BY <2>2, <3>3, <3>4, <3>5 DEF r
  <2> QED
    BY <2>1, <2>2
<1>v. <<>> \in V /\ \A t : ToSet(Entries(<<>>, t)) = {}
  BY EmptyIndex
<1> HIDE DEF Next1, V, z
<1>3. \E f : f = Turn(f)
  <2> DEFINE comb == [p \in (1 .. z) \X V |-> Next1(p[1], p[2])]
  <2>1. \A k \in 1 .. z, v \in V : comb[<<k, v>>] = Next1(k, v)
    OBVIOUS
  <2>2. LoopIn(V, z, <<>>, comb)
    <3> HIDE DEF comb, Turn
    <3>1. z \in Nat /\ <<>> \in V
      BY <1>n, <1>v
    <3>2. \A k \in 1 .. z, v \in V : comb[<<k, v>>] \in V
      BY <1>2, <2>1
    <3> QED
      BY ONLY <3>1, <3>2 DEF LoopIn
  <2> HIDE DEF comb
  <2>3. PICK f \in [0 .. z -> V] : f = Looped(f, z, <<>>, comb)
    <3> HIDE DEF Turn
    <3> QED
      BY <2>2, LoopExists
  <2>4. \A k \in 0 .. z : k # 0 => k \in 1 .. z /\ f[k - 1] \in V
    BY <1>n, <2>3
  <2>5. f = Turn(f)
    BY <2>1, <2>3, <2>4 DEF Looped
  <2> QED
    BY <2>5
<1>4. after = Turn(after)
  <2> HIDE DEF Turn
  <2> QED
    BY <1>3
<1> HIDE DEF after
<1>5. after[0] = <<>> /\ \A k \in 1 .. z : after[k] = Next1(k, after[k - 1])
  <2>1. \A k \in 0 .. z : after[k] = IF k = 0 THEN <<>> ELSE Next1(k, after[k - 1])
    BY <1>4
  <2> HIDE DEF Turn
  <2>2. 0 \in 0 .. z /\ \A k \in 1 .. z : k \in 0 .. z /\ k # 0
    BY <1>n
  <2> QED
    BY <2>1, <2>2
<1> HIDE DEF Turn
<1> DEFINE Upto(k) == {rows[j] : j \in 1 .. (IF k <= m THEN 0 ELSE k - m)}
           Holds(k) == /\ after[k] \in V
                       /\ \A t : ToSet(Entries(after[k], t)) = EntriesOf(part, n, Upto(k), t)
           g == [k \in 0 .. z |-> IF Holds(k) THEN 1 ELSE 0]
           W == {1}
<1>6. \A k \in 0 .. z : g[k] \in W
  <2>1. g[0] \in W
    <3>1. Upto(0) = {}
      BY <1>n
    <3> HIDE DEF Upto
    <3>2. Holds(0)
      BY <1>v, <1>5, <3>1 DEF EntriesOf
    <3> HIDE DEF Holds
    <3> QED
      BY <1>n, <3>2
  <2>2. ASSUME NEW k \in 1 .. z, g[k - 1] \in W PROVE g[k] \in W
    <3>1. k - 1 \in 0 .. z /\ k \in 0 .. z
      BY <1>n
    <3>2. Holds(k - 1)
      <4> HIDE DEF Holds
      <4> QED
        BY <2>2, <3>1
    <3>3. Upto(k) = Upto(k - 1) \cup (IF k <= m THEN {} ELSE {rows[k - m]})
      <4>1. CASE k <= m
        <5>1. k - 1 <= m
          BY <1>n, <4>1
        <5> QED
          BY <4>1, <5>1
      <4>2. CASE ~ (k <= m)
        <5>1. k - m \in Nat /\ (IF k - 1 <= m THEN 0 ELSE k - 1 - m) = k - m - 1
          BY <1>n, <4>2
        <5>2. 1 .. k - m = (1 .. k - m - 1) \cup {k - m}
          BY <1>n, <4>2
        <5> QED
          BY <4>2, <5>1, <5>2
      <4> QED
        BY <4>1, <4>2
    <3> HIDE DEF Upto
    <3>4. /\ after[k] \in V
          /\ \A t : ToSet(Entries(after[k], t)) = ToSet(Entries(after[k - 1], t)) \cup
               (IF k <= m THEN {} ELSE EntriesOf(part, n, {rows[k - m]}, t))
      BY <1>2, <1>5, <3>2
    <3>5. Holds(k)
      BY <3>2, <3>3, <3>4 DEF EntriesOf
    <3> HIDE DEF Holds
    <3> QED
      BY <3>1, <3>5
  <2> HIDE DEF g, W
  <2> QED
    BY <1>n, <2>1, <2>2, LoopValues
<1>7. Holds(z)
  <2>1. z \in 0 .. z
    BY <1>n
  <2> HIDE DEF Holds
  <2> QED
    BY <1>6, <2>1
<1>8. Upto(z) = ToSet(rows)
  <2>1. (IF z <= m THEN 0 ELSE z - m) = Len(rows)
    BY <1>n DEF z
  <2> QED
    BY <1>n, <2>1
<1>9. \A t : EntriesOf(part, n, Upto(z), t) = RowEntries(part, n, t)
  <2>1. \A t : Upto(z) \cap OfTopic(part, t) = TopicRows(part, t)
    BY <1>n, <1>8 DEF TopicRows, OfTopic
  <2> QED
    BY <2>1 DEF EntriesOf, RowEntries
<1> HIDE DEF Upto
<1> QED
  BY <1>1, <1>7, <1>9 DEF PartHeld, V

\* The entries of a topic in all parts.
AllEntries(parts, topic) ==
  UNION {RowEntries(parts[k], k - 1, topic) : k \in DOMAIN parts}

\* The entries that its rows could have.
EntrySet(parts) == UNION {{EntryOf(k - 1, r) : r \in ToSet(parts[k].rows)} : k \in DOMAIN parts}

\* What an index holds of some parts.
IndexOf(i, parts) ==
  \A t : /\ Entries(i, t) \in Seq(EntrySet(parts)) /\ Sorted(Entries(i, t))
         /\ ToSet(Entries(i, t)) = AllEntries(parts, t)

\* Every one of them is at a time.
LEMMA EntriesTimed ==
  ASSUME NEW P, \A part \in P : PartSound(part), NEW parts \in Seq(P)
  PROVE  \A e \in EntrySet(parts) : e.time \in Int
<1>1. ASSUME NEW k \in DOMAIN parts, NEW r \in ToSet(parts[k].rows)
      PROVE  EntryOf(k - 1, r).time \in Int
  <2>1. parts[k] \in P
    OBVIOUS
  <2>2. r.stamp \in Nat
    BY <1>1, <2>1 DEF PartSound
  <2>3. Number(r.stamp) \in Nat
    BY <2>2, NumberGrows
  <2> QED
    BY <2>3 DEF EntryOf
<1> QED
  BY <1>1 DEF EntrySet

\* The index of some parts, each of them indexed on its own and merged.
LEMMA PartsIndexed ==
  ASSUME NEW P, \A part \in P : PartSound(part), NEW parts \in Seq(P)
  PROVE  IndexOf(IndexParts(parts), parts)
<1> DEFINE z == Len(parts)
           C == UNION {ToSet(part.channels) : part \in P}
           E == EntrySet(parts)
           V == Indexes(C, E)
           Next1(k, v) == MergeIndex(v, Finalize(IndexPart(parts[k], k - 1)))
           Turn(f) == [n \in 0 .. z |-> IF n = 0 THEN <<>> ELSE Next1(n, f[n - 1])]
           merged == CHOOSE f : f = Turn(f)
           Own(k, t) == RowEntries(parts[k], k - 1, t)
<1>n. z \in Nat /\ DOMAIN parts = 1 .. z /\ \A k \in 1 .. z : parts[k] \in P
  OBVIOUS
<1>e. \A e \in E : e.time \in Int
  BY EntriesTimed
<1>1. IndexParts(parts) = Finalize(merged[z])
  BY DEF IndexParts
<1>2. ASSUME NEW k \in 1 .. z, NEW v \in V
      PROVE  /\ Next1(k, v) \in V
             /\ \A t : ToSet(Entries(Next1(k, v), t)) = ToSet(Entries(v, t)) \cup Own(k, t)
  <2> DEFINE part == parts[k]
             n == k - 1
             own == IndexPart(part, n)
             final == Finalize(own)
  <2>1. part \in P /\ PartSound(part) /\ k \in DOMAIN parts
    BY <1>n
  <2>2. ToSet(part.channels) \subseteq C
    BY <2>1
  <2>3. \A r \in ToSet(part.rows) : EntryOf(n, r) \in E
    BY <2>1 DEF EntrySet
  <2>o. \A t : Own(k, t) = RowEntries(part, n, t)
    OBVIOUS
  <2>x. Next1(k, v) = MergeIndex(v, final)
    OBVIOUS
  <2> HIDE DEF part, C, E, n, Own, Next1
  <2>4. own \in Indexes(C, E) /\ \A t : ToSet(Entries(own, t)) = Own(k, t)
    <3>1. PartHeld(part, n, C, E)
      BY <2>1, <2>2, <2>3, PartIndexed
    <3> QED
      BY <2>o, <3>1 DEF PartHeld
  <2> HIDE DEF own
  <2>5. final \in Indexes(C, E) /\ \A t : ToSet(Entries(final, t)) = ToSet(Entries(own, t))
    BY <1>e, <2>4, FinalizeSorts
  <2> HIDE DEF final
  <2>6. /\ MergeIndex(v, final) \in Indexes(C, E)
        /\ \A t : ToSet(Entries(MergeIndex(v, final), t)) = ToSet(Entries(v, t)) \cup ToSet(Entries(final, t))
    BY <2>5, MergeAdds
  <2> QED
    BY <2>4, <2>5, <2>6, <2>x
<1>v. <<>> \in V /\ \A t : ToSet(Entries(<<>>, t)) = {}
  BY EmptyIndex
<1> HIDE DEF Next1, V, z, E, C
<1>3. \E f : f = Turn(f)
  <2> DEFINE comb == [p \in (1 .. z) \X V |-> Next1(p[1], p[2])]
  <2>1. \A k \in 1 .. z, v \in V : comb[<<k, v>>] = Next1(k, v)
    OBVIOUS
  <2>2. LoopIn(V, z, <<>>, comb)
    <3> HIDE DEF comb, Turn
    <3> QED
      BY <1>n, <1>2, <1>v, <2>1 DEF LoopIn
  <2> HIDE DEF comb
  <2>3. PICK f \in [0 .. z -> V] : f = Looped(f, z, <<>>, comb)
    <3> HIDE DEF Turn
    <3> QED
      BY <2>2, LoopExists
  <2>4. \A k \in 0 .. z : k # 0 => k \in 1 .. z /\ f[k - 1] \in V
    BY <1>n, <2>3
  <2>5. f = Turn(f)
    BY <2>1, <2>3, <2>4 DEF Looped
  <2> QED
    BY <2>5
<1>4. merged = Turn(merged)
  <2> HIDE DEF Turn
  <2> QED
    BY <1>3
<1> HIDE DEF merged
<1>5. merged[0] = <<>> /\ \A k \in 1 .. z : merged[k] = Next1(k, merged[k - 1])
  <2>1. \A k \in 0 .. z : merged[k] = IF k = 0 THEN <<>> ELSE Next1(k, merged[k - 1])
    BY <1>4
  <2> HIDE DEF Turn
  <2>2. 0 \in 0 .. z /\ \A k \in 1 .. z : k \in 0 .. z /\ k # 0
    BY <1>n
  <2> QED
    BY <2>1, <2>2
<1> HIDE DEF Turn, Own
<1> DEFINE Upto(k, t) == UNION {Own(j, t) : j \in 1 .. k}
           Holds(k) == merged[k] \in V /\ \A t : ToSet(Entries(merged[k], t)) = Upto(k, t)
           g == [k \in 0 .. z |-> IF Holds(k) THEN 1 ELSE 0]
           W == {1}
<1>6. \A k \in 0 .. z : g[k] \in W
  <2>1. g[0] \in W
    <3>1. \A t : Upto(0, t) = {}
      OBVIOUS
    <3> HIDE DEF Upto
    <3>2. Holds(0)
      BY <1>v, <1>5, <3>1
    <3> HIDE DEF Holds
    <3> QED
      BY <1>n, <3>2
  <2>2. ASSUME NEW k \in 1 .. z, g[k - 1] \in W PROVE g[k] \in W
    <3>1. k - 1 \in 0 .. z /\ k \in 0 .. z
      BY <1>n
    <3>2. Holds(k - 1)
      <4> HIDE DEF Holds
      <4> QED
        BY <2>2, <3>1
    <3>3. \A t : Upto(k, t) = Upto(k - 1, t) \cup Own(k, t)
      <4>1. 1 .. k = (1 .. k - 1) \cup {k}
        BY <1>n
      <4> QED
        BY <4>1
    <3> HIDE DEF Upto
    <3>4. merged[k] = Next1(k, merged[k - 1]) /\ merged[k - 1] \in V
      BY <1>5, <3>2
    <3>5. merged[k] \in V
      BY <1>2, <3>4
    <3>6. \A t : ToSet(Entries(merged[k], t)) = ToSet(Entries(merged[k - 1], t)) \cup Own(k, t)
      BY <1>2, <3>4
    <3>7. Holds(k)
      BY <3>2, <3>3, <3>5, <3>6
    <3> HIDE DEF Holds
    <3> QED
      BY <3>1, <3>7
  <2> HIDE DEF g, W
  <2> QED
    BY <1>n, <2>1, <2>2, LoopValues
<1>7. Holds(z)
  <2>1. z \in 0 .. z
    BY <1>n
  <2> HIDE DEF Holds
  <2> QED
    BY <1>6, <2>1
<1>8. \A t : Upto(z, t) = AllEntries(parts, t)
  BY <1>n DEF AllEntries, Own
<1> HIDE DEF Upto
<1> DEFINE m == merged[z]
<1>9. m \in Indexes(C, E) /\ \A t : ToSet(Entries(m, t)) = AllEntries(parts, t)
  BY <1>7, <1>8 DEF V
<1> HIDE DEF m
<1> DEFINE i == Finalize(m)
<1>10. i \in Indexes(C, E) /\ \A t : Sorted(Entries(i, t)) /\ ToSet(Entries(i, t)) = ToSet(Entries(m, t))
  BY <1>e, <1>9, FinalizeSorts
<1> HIDE DEF i
<1>11. \A t : Entries(i, t) \in Seq(E)
  BY <1>10, EntriesTyped
<1> QED
  BY <1>1, <1>9, <1>10, <1>11 DEF i, m, E, IndexOf

\* The index of a part by itself.
LEMMA OneIndexed ==
  ASSUME NEW P, \A part \in P : PartSound(part), NEW parts \in Seq(P), Len(parts) = 1
  PROVE  IndexOf(Finalize(IndexPart(parts[1], 0)), parts)
<1> DEFINE part == parts[1]
           C == ToSet(part.channels)
           E == EntrySet(parts)
           own == IndexPart(part, 0)
<1>1. DOMAIN parts = {1} /\ part \in P /\ PartSound(part)
  <2>1. DOMAIN parts = 1 .. 1 /\ 1 .. 1 = {1}
    OBVIOUS
  <2> QED
    BY <2>1
<1>2. E = {EntryOf(0, r) : r \in ToSet(part.rows)}
  BY <1>1 DEF EntrySet
<1>3. \A t : AllEntries(parts, t) = RowEntries(part, 0, t)
  BY <1>1 DEF AllEntries
<1>4. \A e \in E : e.time \in Int
  BY EntriesTimed
<1>5. \A r \in ToSet(part.rows) : EntryOf(0, r) \in E
  BY <1>2
<1> HIDE DEF part, E
<1>6. own \in Indexes(C, E) /\ \A t : ToSet(Entries(own, t)) = RowEntries(part, 0, t)
  <2>1. ToSet(part.channels) \subseteq C
    OBVIOUS
  <2>2. PartSound(part)
    BY <1>1
  <2> HIDE DEF C
  <2>3. PartHeld(part, 0, C, E)
    BY <1>5, <2>1, <2>2, PartIndexed
  <2> QED
    BY <2>3 DEF PartHeld
<1> HIDE DEF own, C
<1> DEFINE i == Finalize(own)
<1>7. i \in Indexes(C, E) /\ \A t : Sorted(Entries(i, t)) /\ ToSet(Entries(i, t)) = ToSet(Entries(own, t))
  BY <1>4, <1>6, FinalizeSorts
<1> HIDE DEF i
<1>8. \A t : Entries(i, t) \in Seq(E)
  BY <1>7, EntriesTyped
<1> QED
  BY <1>3, <1>6, <1>7, <1>8 DEF i, own, part, E, IndexOf

-----------------------------------------------------------------------------
(* Numbers: what rounding and storage ids keep apart.                      *)

\* Dividing.
LEMMA DivisionIs ==
  ASSUME NEW g \in Nat \ {0}, NEW q \in Nat, NEW b \in 0 .. g - 1
  PROVE  (g * q + b) \div g = q /\ (g * q + b) % g = b
<1> DEFINE a == g * q + b
           d == a \div g
<1>1. g * q \in Nat
  OBVIOUS
<1>2. a \in Nat
  BY <1>1
<1>3. d \in Nat /\ a = g * d + (a % g) /\ a % g \in 0 .. g - 1
  BY <1>2
<1>4. d = q
  <2>1. ASSUME d <= q - 1 PROVE FALSE
    <3>1. g * d <= g * (q - 1)
      BY <1>3, <2>1
    <3>2. g * (q - 1) = g * q - g
      OBVIOUS
    <3> QED
      BY <1>1, <1>3, <3>1, <3>2
  <2>2. ASSUME q <= d - 1 PROVE FALSE
    <3>1. g * q <= g * (d - 1)
      BY <1>3, <2>2
    <3>2. g * (d - 1) = g * d - g
      BY <1>3
    <3>3. g * d \in Nat
      BY <1>3
    <3> QED
      BY <1>1, <1>3, <3>1, <3>2, <3>3
  <2> QED
    BY <1>3, <2>1, <2>2
<1> QED
  BY <1>1, <1>3, <1>4

\* A storage id is of one file and one message.
LEMMA StorageIdSplits ==
  ASSUME NEW n \in Nat, NEW id \in 0 .. Shift - 1
  PROVE  StorageId(n, id) \div Shift = n /\ StorageId(n, id) % Shift = id
<1>1. n * Shift = Shift * n
  BY ShiftAssumption
<1>2. (Shift * n + id) \div Shift = n /\ (Shift * n + id) % Shift = id
  BY ShiftAssumption, DivisionIs
<1> QED
  BY <1>1, <1>2 DEF StorageId

\* The stamps that are read again for an entry are rounded to its time: the time
\* itself, and the stamp after it where no row has the time itself.
LEMMA NumberOfNear ==
  ASSUME NEW s \in Nat, NEW a \in Nat,
         a = Number(s) \/ (a = Number(s) + 1 /\ s # Number(s))
  PROVE  Number(a) = Number(s)
<1> DEFINE Low(x) == Grain * (x \div Grain)
           Down(x) == 2 * (x - Low(x)) < Grain \/ (2 * (x - Low(x)) = Grain /\ (Low(x) \div Grain) % 2 = 0)
<1>1. \A x : Number(x) = IF Down(x) THEN Low(x) ELSE Low(x) + Grain
  BY DEF Number
<1>g. Grain \in Nat \ {0}
  BY GrainAssumption
<1>2. PICK q \in Nat : Number(s) = Grain * q
  <2>1. s \div Grain \in Nat
    BY <1>g
  <2>2. Grain * (s \div Grain) + Grain = Grain * (s \div Grain + 1)
    BY <1>g, <2>1
  <2> HIDE DEF Down
  <2> QED
    BY <1>1, <2>1, <2>2
<1>3. ASSUME NEW b \in 0 .. Grain - 1
      PROVE  Low(Grain * q + b) = Grain * q /\ (Grain * q) \div Grain = q
  <2>1. (Grain * q + b) \div Grain = q
    BY <1>g, DivisionIs
  <2>2. 0 \in 0 .. Grain - 1 /\ Grain * q \in Nat
    BY <1>g
  <2>3. (Grain * q + 0) \div Grain = q
    BY <1>g, <2>2, DivisionIs
  <2>4. Grain * q + 0 = Grain * q
    BY <2>2
  <2> QED
    BY <2>1, <2>3, <2>4
<1>4. Number(Grain * q) = Grain * q
  <2>1. 0 \in 0 .. Grain - 1 /\ Grain * q \in Nat /\ Grain * q + 0 = Grain * q
    BY <1>g
  <2>2. Low(Grain * q) = Grain * q
    BY <1>3, <2>1
  <2>3. Down(Grain * q)
    <3> HIDE DEF Low
    <3> QED
      BY <1>g, <2>1, <2>2
  <2> HIDE DEF Low, Down
  <2> QED
    BY <1>1, <2>2, <2>3
<1>5. CASE a = Number(s)
  BY <1>2, <1>4, <1>5
<1>6. CASE a = Grain * q + 1 /\ s # Grain * q
  <2>1. CASE Grain = 1
    <3>1. Number(s) = s
      <4>1. s \div 1 = s
        OBVIOUS
      <4>2. Low(s) = s
        BY <2>1, <4>1
      <4>3. Down(s)
        <5> HIDE DEF Low
        <5> QED
          BY <2>1, <4>2
      <4> HIDE DEF Low, Down
      <4> QED
        BY <1>1, <4>2, <4>3
    <3> QED
      BY <1>2, <1>6, <3>1
  <2>2. CASE Grain = 2
    <3>1. 1 \in 0 .. Grain - 1
      BY <2>2
    <3>2. Low(a) = Grain * q /\ (Grain * q) \div Grain = q
      BY <1>3, <1>6, <3>1
    <3>3. Down(a) <=> q % 2 = 0
      <4>1. 2 * (a - Low(a)) = 2
        BY <1>6, <2>2, <3>2
      <4>2. (Low(a) \div Grain) % 2 = q % 2
        BY <3>2
      <4> HIDE DEF Low
      <4> QED
        BY <2>2, <4>1, <4>2
    <3>4. PICK d \in Nat : s \div 2 = d
      OBVIOUS
    <3>5. s = 2 * d \/ s = 2 * d + 1
      BY <3>4
    <3>6. Low(s) = 2 * d
      BY <2>2, <3>4
    <3>7. (2 * d) \div 2 = d
      OBVIOUS
    <3>8. CASE s = 2 * d
      <4>1. Down(s)
        <5> HIDE DEF Low
        <5> QED
          BY <2>2, <3>6, <3>8
      <4> HIDE DEF Low, Down
      <4>2. Number(s) = s
        BY <1>1, <3>6, <3>8, <4>1
      <4> QED
        BY <1>2, <1>6, <4>2
    <3>9. CASE s = 2 * d + 1
      <4>1. Down(s) <=> d % 2 = 0
        <5> HIDE DEF Low
        <5> QED
          BY <2>2, <3>6, <3>7, <3>9
      <4> HIDE DEF Low, Down
      <4>2. Number(s) = IF d % 2 = 0 THEN 2 * d ELSE 2 * d + 2
        BY <1>1, <2>2, <3>6, <4>1
      <4>3. 2 * q = IF d % 2 = 0 THEN 2 * d ELSE 2 * d + 2
        BY <1>2, <2>2, <4>2
      <4>4. q = IF d % 2 = 0 THEN d ELSE d + 1
        BY <4>3
      <4>5. q % 2 = 0
        BY <4>4
      <4> QED
        BY <1>1, <1>2, <3>2, <3>3, <4>5
    <3> QED
      BY <3>5, <3>8, <3>9
  <2>3. CASE Grain >= 3
    <3>1. 1 \in 0 .. Grain - 1
      BY <1>g, <2>3
    <3>2. Low(a) = Grain * q
      BY <1>3, <1>6, <3>1
    <3>3. Down(a)
      <4>1. 2 * (a - Low(a)) = 2
        <5>1. PICK l \in Nat : l = Grain * q
          BY <1>g
        <5> HIDE DEF Low
        <5> QED
          BY <1>6, <3>2, <5>1
      <4> HIDE DEF Low
      <4> QED
        BY <1>g, <2>3, <4>1
    <3> HIDE DEF Low, Down
    <3> QED
      BY <1>1, <1>2, <3>2, <3>3
  <2> QED
    BY <1>g, <2>1, <2>2, <2>3
<1> QED
  BY <1>2, <1>5, <1>6

-----------------------------------------------------------------------------
(* The nearest message.                                                    *)

\* The nearest entry of a topic is of a row that no other is nearer than.
LEMMA NearestEntry ==
  ASSUME NEW engine, IndexOf(engine.index, engine.parts), NEW topic, NEW time \in Int
  PROVE  LET near == FindNearest(Entries(engine.index, topic), time)
             rows == RowsOf(engine, topic)
         IN \/ near = <<>> /\ rows = {}
            \/ \E n \in DOMAIN engine.parts : \E r \in TopicRows(engine.parts[n], topic) :
                 /\ near = <<EntryOf(n - 1, r)>> /\ r \in rows
                 /\ \A q \in rows : Distance(Number(r.stamp), time) <= Distance(Number(q.stamp), time)
<1> DEFINE s == Entries(engine.index, topic)
           near == FindNearest(s, time)
           rows == RowsOf(engine, topic)
           parts == engine.parts
<1>1. rows = UNION {TopicRows(parts[n], topic) : n \in DOMAIN parts}
  <2>1. \A n \in DOMAIN parts :
          TopicRows(parts[n], topic) =
            {r \in ToSet(parts[n].rows) :
               /\ r.value # NoBlob
               /\ \E c \in ToSet(parts[n].channels) : c.id = r.channel /\ c.topic = topic}
    BY DEF TopicRows, OfTopic, HasTopic
  <2> QED
    BY <2>1 DEF RowsOf
<1>2. Sorted(s) /\ ToSet(s) = AllEntries(parts, topic) /\ Len(s) \in Nat /\ DOMAIN s = 1 .. Len(s)
  <2>1. s \in Seq(EntrySet(parts)) /\ Sorted(s) /\ ToSet(s) = AllEntries(parts, topic)
    BY DEF IndexOf
  <2> HIDE DEF s, parts
  <2> QED
    BY <2>1
<1> HIDE DEF s, rows, parts
<1>3. \A q \in rows : \E n \in DOMAIN parts : EntryOf(n - 1, q) \in ToSet(s)
  BY <1>1, <1>2 DEF AllEntries, RowEntries
<1>4. \A e \in ToSet(s) : \E n \in DOMAIN parts : \E r \in TopicRows(parts[n], topic) : e = EntryOf(n - 1, r)
  BY <1>2 DEF AllEntries, RowEntries
<1>5. \A q : \A n : EntryOf(n, q).time = Number(q.stamp)
  BY DEF EntryOf
<1>6. CASE Len(s) = 0
  <2>1. near = <<>>
    BY <1>2, <1>6, NearestFound
  <2>2. ToSet(s) = {}
    BY <1>2, <1>6 DEF ToSet
  <2>3. rows = {}
    BY <1>3, <2>2
  <2> HIDE DEF near
  <2> QED
    BY <2>1, <2>3 DEF near, s, rows
<1>7. CASE Len(s) # 0
  <2>1. PICK k : Nearest(s, time, k) /\ near = <<s[k]>>
    BY <1>2, <1>7, NearestFound
  <2>2. /\ k \in 1 .. Len(s)
        /\ \A i \in 1 .. Len(s) : Distance(s[k].time, time) <= Distance(s[i].time, time)
    BY <2>1 DEF Nearest
  <2>3. s[k] \in ToSet(s) /\ \A e \in ToSet(s) : Distance(s[k].time, time) <= Distance(e.time, time)
    BY <1>2, <2>2 DEF ToSet
  <2>4. PICK n \in DOMAIN parts : \E r \in TopicRows(parts[n], topic) : s[k] = EntryOf(n - 1, r)
    BY <1>4, <2>3
  <2>5. PICK r \in TopicRows(parts[n], topic) : s[k] = EntryOf(n - 1, r)
    BY <2>4
  <2>6. r \in rows
    BY <1>1, <2>5
  <2>7. ASSUME NEW q \in rows PROVE Distance(Number(r.stamp), time) <= Distance(Number(q.stamp), time)
    <3>1. PICK j \in DOMAIN parts : EntryOf(j - 1, q) \in ToSet(s)
      BY <1>3
    <3> QED
      BY <1>5, <2>3, <2>5, <3>1
  <2>8. near = <<EntryOf(n - 1, r)>>
    BY <2>1, <2>5
  <2> HIDE DEF near
  <2> QED
    BY <2>5, <2>6, <2>7, <2>8 DEF near, s, rows, parts
<1> QED
  BY <1>6, <1>7

\* A topic with a row has a schema.
LEMMA SchemaKnown ==
  ASSUME NEW engine, NEW topic, engine.topics = SessionTopics(engine.parts),
         NEW P, \A part \in P : PartSound(part), engine.parts \in Seq(P),
         NEW n \in DOMAIN engine.parts, NEW r \in OfTopic(engine.parts[n], topic)
  PROVE  BagSchema(engine, topic) # <<>>
<1> DEFINE parts == engine.parts
           T == engine.topics
           Own == {e \in T : e.topic = topic}
           S == {d.schema : d \in Own}
           Of(c) == [topic |-> c.topic, schema |-> c.schema, metadata |-> c.metadata]
           Named(k) == {Of(c) : c \in ToSet(parts[k].channels)}
<1>1. T = UNION {Named(k) : k \in DOMAIN parts}
  BY DEF SessionTopics
<1>2. DOMAIN parts = 1 .. Len(parts) /\ Len(parts) \in Nat /\ \A k \in DOMAIN parts : PartSound(parts[k])
  BY SMT
<1>3. S # {}
  <2>1. PICK c \in ToSet(parts[n].channels) : c.topic = topic
    BY DEF OfTopic, HasTopic
  <2>2. Of(c) \in T /\ Of(c).topic = topic
    BY <1>1, <2>1
  <2> QED
    BY <2>2
<1>4. ASSUME NEW k \in DOMAIN parts PROVE IsFiniteSet(Named(k))
  <2> DEFINE C == parts[k].channels
             f == [j \in 1 .. Len(C) |-> Of(C[j])]
  <2>1. C \in Seq(ToSet(C))
    BY <1>2 DEF PartSound
  <2>2. DOMAIN C = 1 .. Len(C) /\ Len(C) \in Nat
    BY <2>1
  <2>3. Named(k) = {Of(C[j]) : j \in 1 .. Len(C)}
    BY <2>2 DEF ToSet
  <2> HIDE DEF C, Of, Named
  <2>4. f \in Surjection(1 .. Len(C), Named(k))
    BY <2>3 DEF Surjection
  <2>5. IsFiniteSet(1 .. Len(C))
    BY <2>2, FS_Interval
  <2> HIDE DEF f
  <2> QED
    BY <2>4, <2>5, FS_Surjection
<1>5. IsFiniteSet({Named(k) : k \in DOMAIN parts})
  <2> DEFINE N == {Named(k) : k \in DOMAIN parts}
             f == [k \in 1 .. Len(parts) |-> Named(k)]
  <2> HIDE DEF Named
  <2>1. f \in Surjection(1 .. Len(parts), N)
    BY <1>2 DEF Surjection
  <2>2. IsFiniteSet(1 .. Len(parts))
    <3>1. PICK l \in Nat : l = Len(parts)
      BY <1>2
    <3>2. 1 \in Int /\ l \in Int
      OBVIOUS
    <3>3. IsFiniteSet(1 .. l)
      BY ONLY <3>2, FS_Interval
    <3> HIDE DEF f, N, parts
    <3> QED
      BY <3>1, <3>3
  <2> HIDE DEF f, N
  <2>3. IsFiniteSet(N)
    BY <2>1, <2>2, FS_Surjection
  <2> QED
    BY <2>3 DEF N
<1>6. IsFiniteSet(T)
  <2> DEFINE N == {Named(k) : k \in DOMAIN parts}
  <2>1. \A U \in N : IsFiniteSet(U)
    BY <1>4
  <2>2. T = UNION N
    BY <1>1
  <2>3. IsFiniteSet(N)
    BY <1>5
  <2> HIDE DEF N, T
  <2> QED
    BY <2>1, <2>2, <2>3, FS_UNION
<1>7. IsFiniteSet(S)
  <2> DEFINE f == [d \in Own |-> d.schema]
  <2>1. IsFiniteSet(Own)
    BY <1>6, FS_Subset
  <2> HIDE DEF Own
  <2>2. f \in Surjection(Own, S)
    BY DEF Surjection
  <2> HIDE DEF f, S
  <2> QED
    BY <2>1, <2>2, FS_Surjection
<1> DEFINE b == BagSchema(engine, topic)
           m == Cardinality(S)
<1>8. b = CHOOSE f \in [1 .. m -> S] : IsInjective(f)
  BY DEF BagSchema, SetToSeq
<1> HIDE DEF S, b
<1>9. m \in Nat /\ m > 0 /\ \E f \in [1 .. m -> S] : IsInjective(f)
  <2>1. m \in Nat /\ ExistsBijection(1 .. m, S)
    BY <1>7, FS_CardinalityType
  <2>2. m # 0
    BY <1>3, <1>7, FS_EmptySet
  <2> HIDE DEF m
  <2> QED
    BY <2>1, <2>2 DEF ExistsBijection, Bijection, Injection
<1> HIDE DEF m
<1>10. b \in [1 .. m -> S]
  BY <1>8, <1>9
<1>11. 1 \in DOMAIN b
  BY <1>9, <1>10
<1> QED
  BY <1>11 DEF b

\* The first of the rows that are kept of some in order of stamp.
LEMMA FirstKept ==
  ASSUME NEW R, NEW s \in Seq(R), Ascending(s), NEW wanted
  PROVE  LET kept == Keeping(s, wanted)
         IN /\ kept = <<>> <=> ToSet(s) \cap wanted = {}
            /\ kept # <<>> =>
                 /\ kept[1] \in ToSet(s) \cap wanted
                 /\ \A r \in ToSet(s) \cap wanted : kept[1].stamp <= r.stamp
<1> DEFINE kept == Keeping(s, wanted)
<1>1. /\ kept \in Seq(R)
      /\ \A k \in DOMAIN kept : \E i \in DOMAIN s : s[i] \in wanted /\ kept[k] = s[i]
      /\ \A i \in DOMAIN s : s[i] \in wanted => \E k \in DOMAIN kept : kept[k] = s[i]
      /\ \A j, k \in DOMAIN kept : j < k =>
           \E a, b \in DOMAIN s : a < b /\ kept[j] = s[a] /\ kept[k] = s[b]
  BY KeepingSifts
<1>2. ToSet(kept) = ToSet(s) \cap wanted
  BY KeptItems
<1> HIDE DEF kept
<1>3. DOMAIN s = 1 .. Len(s) /\ Len(s) \in Nat /\ DOMAIN kept = 1 .. Len(kept) /\ Len(kept) \in Nat
  BY <1>1
<1>4. kept = <<>> <=> ToSet(kept) = {}
  <2>1. kept = <<>> <=> Len(kept) = 0
    BY <1>1
  <2>2. /\ Len(kept) = 0 => DOMAIN kept = {}
        /\ Len(kept) # 0 => 1 \in DOMAIN kept
    BY <1>3
  <2>3. DOMAIN kept = {} <=> ToSet(kept) = {}
    BY DEF ToSet
  <2> QED
    BY <2>1, <2>2, <2>3, Zenon
<1>5. ASSUME kept # <<>>, NEW r \in ToSet(kept) PROVE kept[1].stamp <= r.stamp
  <2>1. 1 \in DOMAIN kept
    BY <1>1, <1>3, <1>5
  <2>2. PICK k \in DOMAIN kept : r = kept[k]
    BY <1>5 DEF ToSet
  <2>3. PICK a, b \in DOMAIN s : a <= b /\ kept[1] = s[a] /\ r = s[b]
    <3>1. CASE k = 1
      <4>1. PICK i \in DOMAIN s : kept[1] = s[i]
        BY <1>1, <2>1
      <4>2. i <= i
        BY <1>3
      <4> QED
        BY <2>2, <3>1, <4>1, <4>2
    <3>2. CASE k # 1
      <4>1. 1 < k
        BY <1>3, <3>2
      <4>2. PICK a, b \in DOMAIN s : a < b /\ kept[1] = s[a] /\ kept[k] = s[b]
        BY <1>1, <2>1, <4>1
      <4>3. a <= b
        BY <1>3, <4>2
      <4> QED
        BY <2>2, <4>2, <4>3
    <3> QED
      BY <3>1, <3>2
  <2> QED
    BY <1>3, <2>3 DEF Ascending
<1>6. kept # <<>> => kept[1] \in ToSet(kept)
  <2>1. kept # <<>> => 1 \in DOMAIN kept
    BY <1>1, <1>3
  <2> QED
    BY <2>1 DEF ToSet
<1> QED
  BY <1>2, <1>4, <1>5, <1>6 DEF kept

\* Between the time of an entry and the stamp after it an MCAP file has a row of that
\* time, or none.
FindsAgain(engine, topic, part, r) ==
  LET near == Number(r.stamp)
      rows == McapRows(engine, topic, near, near + 1)
  IN /\ rows # <<>> => rows[1] \in TopicRows(part, topic) /\ Number(rows[1].stamp) = near
     /\ r.stamp = near => rows # <<>>

LEMMA McapFinds ==
  ASSUME NEW engine, NEW part, part = engine.parts[1], PartSound(part),
         \A row \in ToSet(part.rows) : row.value # NoBlob,
         NEW topic, NEW r \in TopicRows(part, topic)
  PROVE  FindsAgain(engine, topic, part, r)
<1> DEFINE near == Number(r.stamp)
           all == ByStamp(part.rows)
           R == ToSet(part.rows)
           wanted == {q \in R : /\ q.stamp >= near /\ q.stamp <= near + 1
                                /\ \E c \in ToSet(ChannelOf(part, q)) : c.topic = topic}
           rows == McapRows(engine, topic, near, near + 1)
           Of == TopicRows(part, topic)
<1>1. rows = Keeping(all, wanted)
  BY DEF McapRows
<1>2. all \in Seq(R) /\ Ascending(all) /\ ToSet(all) = R
  <2>1. part.rows \in Seq(R) /\ \A q \in R : q.stamp \in Int
    BY DEF PartSound
  <2> HIDE DEF R, all
  <2> QED
    BY <2>1, ByStampSorts DEF R, all
<1>3. \A q \in R : (\E c \in ToSet(ChannelOf(part, q)) : c.topic = topic) <=> HasTopic(part, q, topic)
  BY ChannelFound
<1>4. Of = {q \in R : HasTopic(part, q, topic)}
  BY DEF TopicRows, OfTopic
<1>5. wanted = {q \in Of : q.stamp >= near /\ q.stamp <= near + 1}
  BY <1>3, <1>4
<1>6. Of \subseteq R /\ \A q \in R : q.stamp \in Nat
  BY <1>4 DEF PartSound
<1>7. near \in Nat
  <2>1. r.stamp \in Nat /\ r.stamp <= r.stamp
    BY <1>6
  <2> QED
    BY <2>1, NumberGrows
<1> HIDE DEF all, R, Of, wanted, rows, near
<1>8. /\ rows = <<>> <=> R \cap wanted = {}
      /\ rows # <<>> => /\ rows[1] \in R \cap wanted
                        /\ \A q \in R \cap wanted : rows[1].stamp <= q.stamp
  BY <1>1, <1>2, FirstKept
<1>9. R \cap wanted = wanted
  BY <1>5, <1>6
<1>10. r \in Of /\ r.stamp \in Nat
  BY <1>6 DEF Of
<1>11. r.stamp = near => r \in wanted
  BY <1>5, <1>7, <1>10
<1>12. ASSUME rows # <<>> PROVE rows[1] \in Of /\ Number(rows[1].stamp) = near
  <2> DEFINE a == rows[1].stamp
  <2>1. rows[1] \in Of /\ a >= near /\ a <= near + 1 /\ a \in Nat
    BY <1>5, <1>6, <1>8, <1>9, <1>12
  <2>2. r.stamp = near => a <= near
    BY <1>8, <1>9, <1>11, <1>12
  <2> HIDE DEF a
  <2>3. a = near \/ (a = near + 1 /\ r.stamp # near)
    BY <1>7, <2>1, <2>2
  <2>4. Number(a) = near
    BY <1>10, <2>1, <2>3, NumberOfNear DEF near
  <2> QED
    BY <2>1, <2>4 DEF a
<1> QED
  BY <1>8, <1>9, <1>11, <1>12 DEF FindsAgain, rows, near, Of

\* The payload that is kept of a row of a database.
LEMMA PayloadFound ==
  ASSUME NEW engine, NEW n \in Nat \ {0}, NEW part, part = engine.parts[n], PartSound(part),
         \A row \in ToSet(part.rows) :
           /\ row.id \in 0 .. Shift - 1
           /\ \A other \in ToSet(part.rows) : other.id = row.id => other = row,
         NEW r \in ToSet(part.rows), r.value # NoBlob
  PROVE  Payload(engine, StorageId(n - 1, r.id)) = <<r.value>>
<1> DEFINE ref == StorageId(n - 1, r.id)
           R == ToSet(part.rows)
           wanted == {q \in R : q.id = ref % Shift /\ q.value # NoBlob}
           rows == Keeping(part.rows, wanted)
<1>1. ref \div Shift = n - 1 /\ ref % Shift = r.id
  <2>1. n - 1 \in Nat /\ r.id \in 0 .. Shift - 1
    OBVIOUS
  <2> QED
    BY <2>1, StorageIdSplits
<1> HIDE DEF ref
<1>2. ref \div Shift + 1 = n
  BY <1>1
<1>3. Payload(engine, ref) = IF rows = <<>> THEN <<>> ELSE <<rows[1].value>>
  BY <1>2 DEF Payload
<1>4. wanted = {r}
  BY <1>1
<1>5. rows \in Seq(R) /\ ToSet(rows) = R \cap wanted
  <2>1. part.rows \in Seq(R)
    BY DEF PartSound
  <2> HIDE DEF wanted, R
  <2> QED
    BY <2>1, KeptItems DEF R
<1>6. ToSet(rows) = {r}
  BY <1>4, <1>5
<1> HIDE DEF rows, wanted
<1>7. rows # <<>> /\ rows[1] = r
  <2>1. DOMAIN rows = 1 .. Len(rows) /\ Len(rows) \in Nat
    BY <1>5
  <2>2. DOMAIN rows # {}
    BY <1>6 DEF ToSet
  <2>3. 1 \in DOMAIN rows
    BY <2>1, <2>2
  <2> QED
    BY <1>6, <2>3 DEF ToSet
<1> QED
  BY <1>3, <1>7 DEF ref

\* The nearest message of an MCAP file.
LEMMA McapNearest ==
  ASSUME NEW engine, engine.source = "mcap", DOMAIN engine.parts = {1},
         NEW part, part = engine.parts[1], PartSound(part),
         \A row \in ToSet(part.rows) : row.value # NoBlob,
         IndexOf(engine.index, engine.parts), NEW topic, NEW time \in Int
  PROVE  NearestIsNearest(engine, topic, time)
<1> DEFINE near == FindNearest(Entries(engine.index, topic), time)
           rows == RowsOf(engine, topic)
           got == MessageNear(engine, topic, time)
           read(t) == McapRows(engine, topic, t, t + 1)
           Nearer(t) == \A q \in rows : Distance(t, time) <= Distance(Number(q.stamp), time)
           Message1(t) == [k \in 1 .. (IF read(t) = <<>> THEN 0 ELSE 1) |-> McapMessage(engine, topic, read(t)[1])]
<1>1. \/ near = <<>> /\ rows = {}
      \/ \E r \in TopicRows(part, topic) :
           near = <<EntryOf(0, r)>> /\ r \in rows /\ Nearer(Number(r.stamp))
  <2>1. \/ near = <<>> /\ rows = {}
        \/ \E n \in DOMAIN engine.parts : \E r \in TopicRows(engine.parts[n], topic) :
             /\ near = <<EntryOf(n - 1, r)>> /\ r \in rows
             /\ \A q \in rows : Distance(Number(r.stamp), time) <= Distance(Number(q.stamp), time)
    BY NearestEntry
  <2>2. 1 - 1 = 0
    OBVIOUS
  <2> HIDE DEF near, rows
  <2> QED
    BY <2>1, <2>2
<1>2. got = IF near = <<>> THEN <<>> ELSE Message1(near[1].time)
  BY DEF MessageNear, McapMessageNear
<1>3. TopicRows(part, topic) \subseteq rows
  <2>1. TopicRows(part, topic) =
          {r \in ToSet(part.rows) :
             /\ r.value # NoBlob
             /\ \E c \in ToSet(part.channels) : c.id = r.channel /\ c.topic = topic}
    BY DEF TopicRows, OfTopic, HasTopic
  <2> QED
    BY <2>1 DEF RowsOf
<1>4. SUFFICES /\ rows # {} /\ Exact(engine) => got # <<>>
               /\ got # <<>> => \E r \in rows : /\ Number(r.stamp) = got[1].time
                                                /\ got[1].decoded = Decode(got[1].schema, r.value)
                                                /\ Nearer(Number(r.stamp))
  <2> HIDE DEF rows, got
  <2> QED
    BY <1>4 DEF NearestIsNearest, rows, got
<1>5. CASE near = <<>>
  <2> HIDE DEF near, rows, got
  <2>1. got = <<>> /\ rows = {}
    BY <1>1, <1>2, <1>5
  <2> QED
    BY <2>1
<1>6. ASSUME NEW r \in TopicRows(part, topic), near = <<EntryOf(0, r)>>, Nearer(Number(r.stamp))
      PROVE  /\ Exact(engine) => got # <<>>
             /\ got # <<>> => \E q \in rows : /\ Number(q.stamp) = got[1].time
                                              /\ got[1].decoded = Decode(got[1].schema, q.value)
                                              /\ Nearer(Number(q.stamp))
  <2> DEFINE t == Number(r.stamp)
             q == read(t)[1]
  <2>1. near # <<>> /\ near[1].time = t
    BY <1>6 DEF EntryOf
  <2>2. got = Message1(t)
    <3> HIDE DEF near, Message1, got, t
    <3> QED
      BY <1>2, <2>1
  <2>3. /\ read(t) # <<>> => q \in TopicRows(part, topic) /\ Number(q.stamp) = t
        /\ r.stamp = t => read(t) # <<>>
    <3>1. FindsAgain(engine, topic, part, r)
      BY McapFinds
    <3> QED
      BY <3>1 DEF FindsAgain
  <2>4. Exact(engine) => r.stamp = t
    <3>1. r \in ToSet(engine.parts[1].rows)
      BY DEF TopicRows, OfTopic
    <3> QED
      BY <3>1 DEF Exact
  <2>5. DOMAIN got = 1 .. (IF read(t) = <<>> THEN 0 ELSE 1)
    <3> HIDE DEF got, t, read
    <3> QED
      BY <2>2
  <2>6. read(t) # <<>> => got # <<>> /\ got[1] = McapMessage(engine, topic, q)
    <3> HIDE DEF got, t, read
    <3> QED
      BY <2>2, <2>5
  <2>7. read(t) = <<>> => got = <<>>
    <3> HIDE DEF got, t, read
    <3> QED
      BY <2>2, <2>5
  <2>8. /\ McapMessage(engine, topic, q).time = Number(q.stamp)
        /\ McapMessage(engine, topic, q).decoded = Decode(McapMessage(engine, topic, q).schema, q.value)
    <3> HIDE DEF q
    <3> QED
      BY DEF McapMessage, Message
  <2> HIDE DEF got, q, t, read, rows
  <2> QED
    BY <1>3, <1>6, <2>3, <2>4, <2>6, <2>7, <2>8 DEF t
<1> HIDE DEF got, rows, near, Nearer
<1> QED
  BY <1>1, <1>5, <1>6

\* The nearest message of a rosbag2 database or a folder of them.
LEMMA BagNearest ==
  ASSUME NEW engine, engine.source = "rosbag2", engine.topics = SessionTopics(engine.parts),
         NEW P, engine.parts \in Seq(P),
         \A part \in P :
           /\ PartSound(part)
           /\ \A row \in ToSet(part.rows) :
                /\ row.id \in 0 .. Shift - 1
                /\ \A other \in ToSet(part.rows) : other.id = row.id => other = row,
         IndexOf(engine.index, engine.parts), NEW topic, NEW time \in Int
  PROVE  NearestIsNearest(engine, topic, time)
<1> DEFINE near == FindNearest(Entries(engine.index, topic), time)
           rows == RowsOf(engine, topic)
           got == MessageNear(engine, topic, time)
           parts == engine.parts
           schemas == BagSchema(engine, topic)
           Nearer(t) == \A q \in rows : Distance(t, time) <= Distance(Number(q.stamp), time)
<1>1. \/ near = <<>> /\ rows = {}
      \/ \E n \in DOMAIN parts : \E r \in TopicRows(parts[n], topic) :
           near = <<EntryOf(n - 1, r)>> /\ r \in rows /\ Nearer(Number(r.stamp))
  BY NearestEntry
<1>2. got = IF near = <<>> THEN <<>>
            ELSE BagMessage(topic, schemas, near[1].time, Payload(engine, near[1].ref))
  BY DEF MessageNear, BagMessageNear
<1>3. SUFFICES /\ rows # {} => got # <<>>
               /\ got # <<>> => \E r \in rows : /\ Number(r.stamp) = got[1].time
                                                /\ got[1].decoded = Decode(got[1].schema, r.value)
                                                /\ Nearer(Number(r.stamp))
  <2> HIDE DEF rows, got
  <2> QED
    BY <1>3 DEF NearestIsNearest, rows, got
<1>4. CASE near = <<>>
  <2> HIDE DEF near, rows, got
  <2>1. got = <<>> /\ rows = {}
    BY <1>1, <1>2, <1>4
  <2> QED
    BY <2>1
<1>5. ASSUME NEW n \in DOMAIN parts, NEW r \in TopicRows(parts[n], topic),
             near = <<EntryOf(n - 1, r)>>
      PROVE  /\ got # <<>> /\ got[1].time = Number(r.stamp)
             /\ got[1].decoded = Decode(got[1].schema, r.value)
  <2>1. near # <<>> /\ near[1].time = Number(r.stamp) /\ near[1].ref = StorageId(n - 1, r.id)
    BY <1>5 DEF EntryOf
  <2>2. r \in OfTopic(parts[n], topic) /\ r \in ToSet(parts[n].rows) /\ r.value # NoBlob
    BY DEF TopicRows, OfTopic
  <2>3. schemas # <<>>
    BY <2>2, SchemaKnown
  <2>4. n \in Nat \ {0} /\ parts[n] \in P
    OBVIOUS
  <2>5. Payload(engine, StorageId(n - 1, r.id)) = <<r.value>>
    <3> DEFINE part == parts[n]
    <3>1. PartSound(part) /\ part = engine.parts[n]
      BY <2>4
    <3>2. \A row \in ToSet(part.rows) :
            /\ row.id \in 0 .. Shift - 1
            /\ \A other \in ToSet(part.rows) : other.id = row.id => other = row
      BY <2>4
    <3>3. r \in ToSet(part.rows)
      BY <2>2
    <3>4. n \in Nat \ {0} /\ r.value # NoBlob
      BY <2>2, <2>4
    <3> HIDE DEF part, parts
    <3> QED
      BY ONLY <3>1, <3>2, <3>3, <3>4, PayloadFound
  <2> HIDE DEF got, near, schemas
  <2>6. got = BagMessage(topic, schemas, Number(r.stamp), <<r.value>>)
    BY <1>2, <2>1, <2>5
  <2>7. got = <<Message(topic, schemas[1], Number(r.stamp), r.value)>>
    BY <2>3, <2>6 DEF BagMessage
  <2> QED
    BY <2>7 DEF Message
<1> HIDE DEF got, rows, near, Nearer, parts
<1> QED
  BY <1>1, <1>4, <1>5

\* At any time, an engine that has indexed a recording itself (getRawMessageNearTime)
\* hands out a message of the topic that no other of the file is nearer than, decoded
\* from that message's own bytes: in whatever order the file holds its messages, in a
\* single database as in a folder of them, and although times are rounded.  Only an
\* MCAP file whose stamps are not exact may have no answer.
THEOREM NearestIsFound ==
  ASSUME NEW f \in Openable, NEW topic, NEW time \in Int
  PROVE  NearestIsNearest(EngineOf(Files[f], NoManifest), topic, time)
<1> DEFINE file == Files[f]
           engine == EngineOf(file, NoManifest)
           P == ToSet(file.parts)
<1>1. WellFormed(file) /\ Resolve(file) # <<>>
  BY FilesAssumption DEF Openable
<1>2. file.parts \in Seq(P) /\ \A part \in P : PartSound(part)
  BY <1>1 DEF WellFormed, PartSound
<1>3. ~ Usable(NoManifest, file, Source(file))
  BY DEF Usable
<1>4. CASE file.format = "mcap"
  <2> DEFINE part == file.parts[1]
  <2>1. /\ engine.source = "mcap" /\ engine.parts = file.parts
        /\ engine.index = Finalize(IndexPart(part, 0))
    BY <1>3, <1>4 DEF EngineOf, Source, McapEngine
  <2>2. Len(file.parts) = 1
    BY <1>1, <1>4 DEF WellFormed
  <2>3. DOMAIN file.parts = {1} /\ part \in P
    <3>1. DOMAIN file.parts = 1 .. 1 /\ 1 .. 1 = {1}
      BY <1>2, <2>2
    <3> QED
      BY <3>1 DEF ToSet
  <2>4. \A row \in ToSet(part.rows) : row.value # NoBlob
    BY <1>1, <1>4, <2>3 DEF WellFormed
  <2> HIDE DEF engine, P
  <2>5. IndexOf(engine.index, engine.parts)
    BY <1>2, <2>1, <2>2, OneIndexed
  <2> QED
    BY <1>2, <2>1, <2>3, <2>4, <2>5, McapNearest DEF engine
<1>5. CASE file.format # "mcap"
  <2> DEFINE parts == Resolve(file)
  <2>1. /\ engine.source = "rosbag2" /\ engine.parts = parts
        /\ engine.topics = SessionTopics(parts)
        /\ engine.index = IF Len(parts) = 1 THEN Finalize(IndexPart(parts[1], 0)) ELSE IndexParts(parts)
    BY <1>3, <1>5 DEF EngineOf, Source, BagEngine
  <2>2. parts \in Seq(P)
    BY <1>1, Resolved
  <2>3. \A part \in P : \A row \in ToSet(part.rows) :
          /\ row.id \in 0 .. Shift - 1
          /\ \A other \in ToSet(part.rows) : other.id = row.id => other = row
    BY <1>1, <1>5 DEF WellFormed
  <2> HIDE DEF engine, P, parts
  <2>4. IndexOf(engine.index, engine.parts)
    BY <1>2, <2>1, <2>2, OneIndexed, PartsIndexed
  <2> QED
    BY <1>2, <2>1, <2>2, <2>3, <2>4, BagNearest DEF engine
<1> QED
  BY <1>4, <1>5
=============================================================================
