--------------------------- MODULE AutowareSystem ---------------------------
(***************************************************************************)
(* The Autoware reference system that create_autoware_nodes builds: which   *)
(* nodes there are, what they subscribe to, with which periods and PiCAS   *)
(* priorities, and how the executables spread them over executors and      *)
(* processes. A topic has the name of the node that publishes it, but for  *)
(* the second output of EuclideanClusterDetector.                          *)
(***************************************************************************)
EXTENDS Naturals, Sequences, FiniteSets

(* Sensors with their source_kind. *)
Sensors ==
    [FrontLidarDriver |-> 1, RearLidarDriver |-> 2, PointCloudMap |-> 3, Visualizer |-> 4,
     Lanelet2Map |-> 5, EuclideanClusterSettings |-> 6]

(* Transforms with the topic each subscribes to. *)
Transforms ==
    [PointsTransformerFront |-> "FrontLidarDriver", PointsTransformerRear |-> "RearLidarDriver",
     VoxelGridDownsampler |-> "PointCloudFusion", PointCloudMapLoader |-> "PointCloudMap",
     RayGroundFilter |-> "PointCloudFusion", ObjectCollisionEstimator |-> "EuclideanClusterDetector",
     MPCController |-> "BehaviorPlanner", ParkingPlanner |-> "Lanelet2MapLoader",
     LanePlanner |-> "Lanelet2MapLoader"]

(* Fusions with input_0, which triggers, and input_1, which is kept. *)
Fusions ==
    [PointCloudFusion |-> <<"PointsTransformerFront", "PointsTransformerRear">>,
     NDTLocalizer |-> <<"PointCloudMapLoader", "VoxelGridDownsampler">>,
     VehicleInterface |-> <<"MPCController", "BehaviorPlanner">>,
     Lanelet2GlobalPlanner |-> <<"Visualizer", "NDTLocalizer">>,
     Lanelet2MapLoader |-> <<"Lanelet2Map", "Lanelet2GlobalPlanner">>]

Cyclics ==
    [BehaviorPlanner |-> <<"ObjectCollisionEstimator", "NDTLocalizer", "Lanelet2GlobalPlanner",
                           "Lanelet2MapLoader", "ParkingPlanner", "LanePlanner">>]

(* The connections of an Intersection: input topic and output topic. *)
Intersections ==
    [EuclideanClusterDetector |->
        <<<<"RayGroundFilter", "EuclideanClusterDetector">>,
          <<"EuclideanClusterSettings", "EuclideanIntersection">>>>]

Commands == [VehicleDBWSystem |-> "VehicleInterface", IntersectionOutput |-> "EuclideanIntersection"]

AllNodeNames ==
    DOMAIN Sensors \cup DOMAIN Transforms \cup DOMAIN Fusions \cup DOMAIN Cyclics
        \cup DOMAIN Intersections \cup DOMAIN Commands

(* create_autoware_nodes: all nodes, or the ones that were selected. *)
create_autoware_nodes(selected) == IF selected = {} THEN AllNodeNames ELSE AllNodeNames \cap selected

(* The period of a source: what the environment gives, or the configured one *)
(* scaled by a number of tenths.                                             *)
input_period(period, tenths, explicit) ==
    IF explicit.given THEN explicit.value ELSE (period * tenths) \div 10

-----------------------------------------------------------------------------
(* The names on the messages that arrive at a topic, when the last message *)
(* of BehaviorPlanner was made from the inputs in cached.                   *)

RECURSIVE Lineage(_, _)
Lineage(topic, cached) ==
    IF topic \in DOMAIN Sensors THEN {topic}
    ELSE IF topic \in DOMAIN Transforms THEN {topic} \cup Lineage(Transforms[topic], cached)
    ELSE IF topic \in DOMAIN Fusions
         THEN {topic} \cup Lineage(Fusions[topic][1], cached) \cup Lineage(Fusions[topic][2], cached)
    ELSE IF topic \in DOMAIN Cyclics
         THEN {topic} \cup UNION {Lineage(t, cached) : t \in cached}
    ELSE LET n == CHOOSE x \in DOMAIN Intersections :
                     \E i \in DOMAIN Intersections[x] : Intersections[x][i][2] = topic
             i == CHOOSE k \in DOMAIN Intersections[n] : Intersections[n][k][2] = topic
         IN  {n} \cup Lineage(Intersections[n][i][1], cached)

CyclicInputs == {Cyclics.BehaviorPlanner[i] : i \in DOMAIN Cyclics.BehaviorPlanner}

-----------------------------------------------------------------------------
(* nodes::timing: the periods of the timers, in milliseconds. The other *)
(* entries are loads of the number cruncher.                            *)

TimingDefault ==
    [FrontLidarDriver |-> 100, RearLidarDriver |-> 100, PointCloudMap |-> 120, Visualizer |-> 60,
     Lanelet2Map |-> 100, EuclideanClusterSettings |-> 25, BehaviorPlanner |-> 100]
TimingBenchmarkThroughput == [n \in DOMAIN TimingDefault |-> 0]
TimingBenchmarkCPUUsage == TimingDefault

(* callback::priority::Default: the callbacks of each node in the order of its *)
(* inputs, the timer of BehaviorPlanner last. The higher the more critical.    *)
Priority ==
    [FrontLidarDriver |-> <<51>>, RearLidarDriver |-> <<50>>, PointCloudMap |-> <<22>>,
     Lanelet2Map |-> <<30>>, Visualizer |-> <<27>>, PointsTransformerRear |-> <<52>>,
     PointsTransformerFront |-> <<53>>, PointCloudFusion |-> <<55, 54>>,
     PointCloudMapLoader |-> <<24>>, VoxelGridDownsampler |-> <<23>>, RayGroundFilter |-> <<56>>,
     NDTLocalizer |-> <<26, 25>>, EuclideanClusterSettings |-> <<47>>, IntersectionOutput |-> <<49>>,
     EuclideanClusterDetector |-> <<57, 48>>, Lanelet2GlobalPlanner |-> <<29, 28>>,
     Lanelet2MapLoader |-> <<32, 31>>, ParkingPlanner |-> <<33>>, LanePlanner |-> <<34>>,
     ObjectCollisionEstimator |-> <<58>>, BehaviorPlanner |-> <<59, 39, 35, 36, 38, 37, 65>>,
     MPCController |-> <<68>>, VehicleInterface |-> <<67, 66>>, VehicleDBWSystem |-> <<69>>]

(* The topics behind a node's callbacks, and the callback that publishes one. *)
InputTopics(n) ==
    CASE n \in DOMAIN Sensors       -> <<>>
      [] n \in DOMAIN Transforms    -> <<Transforms[n]>>
      [] n \in DOMAIN Fusions       -> Fusions[n]
      [] n \in DOMAIN Cyclics       -> Cyclics[n]
      [] n \in DOMAIN Intersections -> [i \in DOMAIN Intersections[n] |-> Intersections[n][i][1]]
      [] OTHER                      -> <<Commands[n]>>

PublishingPriority(topic) ==
    IF topic = "EuclideanIntersection" THEN Priority.EuclideanClusterDetector[2]
    ELSE IF topic \in DOMAIN Cyclics THEN Priority[topic][Len(Priority[topic])]
    ELSE Priority[topic][1]
Publisher(topic) == IF topic = "EuclideanIntersection" THEN "EuclideanClusterDetector" ELSE topic

-----------------------------------------------------------------------------
(* The executables. Each runs some of the nodes in one executor or in several. *)

(* picas_multi_executors: four executors of one process. *)
ExecutorNodes ==
    <<{"VehicleDBWSystem", "VehicleInterface", "MPCController", "BehaviorPlanner"},
      {"FrontLidarDriver", "RearLidarDriver", "PointsTransformerFront", "PointsTransformerRear",
       "PointCloudFusion", "RayGroundFilter", "ObjectCollisionEstimator"},
      {"EuclideanClusterDetector", "EuclideanClusterSettings", "IntersectionOutput"},
      {"PointCloudMap", "PointCloudMapLoader", "VoxelGridDownsampler", "NDTLocalizer", "Visualizer",
       "Lanelet2Map", "LanePlanner", "ParkingPlanner", "Lanelet2MapLoader", "Lanelet2GlobalPlanner"}>>

(* A node goes to the first executor that lists it; an unlisted one to none. *)
ExecutorOf(n) ==
    LET listed == {e \in DOMAIN ExecutorNodes : n \in ExecutorNodes[e]}
    IN  {e \in listed : \A f \in listed : e <= f}

(* group_staticsinglethreaded: one process per group. *)
groups ==
    [planning_control_high     |->
        {"VehicleDBWSystem", "VehicleInterface", "MPCController", "BehaviorPlanner"},
     perception_collision_high |->
        {"FrontLidarDriver", "RearLidarDriver", "PointsTransformerFront", "PointsTransformerRear",
         "PointCloudFusion", "RayGroundFilter", "ObjectCollisionEstimator"},
     intersection_medium       |->
        {"EuclideanClusterDetector", "EuclideanClusterSettings", "IntersectionOutput"},
     map_localization_medium   |->
        {"PointCloudMap", "PointCloudMapLoader", "VoxelGridDownsampler", "NDTLocalizer",
         "Visualizer", "Lanelet2Map", "LanePlanner", "ParkingPlanner", "Lanelet2MapLoader",
         "Lanelet2GlobalPlanner"}]

GroupMain(args) ==
    IF Len(args) # 1 THEN [exit |-> 1, nodes |-> {}]
    ELSE IF args[1] = "--help" THEN [exit |-> 0, nodes |-> {}]
    ELSE IF args[1] \notin DOMAIN groups THEN [exit |-> 1, nodes |-> {}]
    ELSE [exit |-> 0, nodes |-> create_autoware_nodes(groups[args[1]])]

(* node_staticsinglethreaded: one process per node. *)
kNodeNames ==
    {"FrontLidarDriver", "RearLidarDriver", "PointCloudMap", "Visualizer", "Lanelet2Map",
     "EuclideanClusterSettings", "PointsTransformerFront", "PointsTransformerRear",
     "VoxelGridDownsampler", "PointCloudMapLoader", "RayGroundFilter", "ObjectCollisionEstimator",
     "MPCController", "ParkingPlanner", "LanePlanner", "PointCloudFusion", "NDTLocalizer",
     "VehicleInterface", "Lanelet2GlobalPlanner", "Lanelet2MapLoader", "BehaviorPlanner",
     "EuclideanClusterDetector", "VehicleDBWSystem", "IntersectionOutput"}

is_source_node(n) ==
    n \in {"FrontLidarDriver", "RearLidarDriver", "PointCloudMap", "Visualizer", "Lanelet2Map",
           "EuclideanClusterSettings"}

(* A number in the environment: whether it is given, whether it parses, and its *)
(* value; the scale counts tenths. Other variables are "unset" or their text.   *)
Unset == [given |-> FALSE, parses |-> TRUE, value |-> 0]

ScaleRefused(env) ==
    env.scale.given /\ (~env.scale.parses \/ env.scale.value \notin 1 .. 100)
input_period_scale(env) == IF env.scale.given THEN env.scale.value ELSE 10

PeriodRefused_AnyNode(env, n) ==
    env.period.given /\ (env.scale.given \/ ~env.period.parses \/ env.period.value <= 0)
PeriodRefused(env, n) ==
    /\ env.period.given
    /\ \/ env.scale.given
       \/ ~is_source_node(n)
       \/ ~env.period.parses
       \/ env.period.value <= 0
source_period(env) == env.period

StructuredRefused(env) == env.structured \notin {"unset", "0", "1"}
structured_output_enabled(env) == env.structured # "0"

ScheduleRefused(env, n) ==
    env.schedule # "unset" /\ (~is_source_node(n) \/ ~source_period(env).given \/ env.schedule = "")

(* main() of one node: it refuses to start, or runs the node with this period *)
(* (0 where the node has no timer), schedule and output.                      *)
NodeMain(env, n) ==
    IF \/ n \notin kNodeNames
       \/ PeriodRefused(env, n) \/ ScheduleRefused(env, n) \/ ScaleRefused(env)
       \/ StructuredRefused(env)
    THEN [started |-> FALSE]
    ELSE [started |-> TRUE, nodes |-> create_autoware_nodes({n}),
          cycle |-> IF n \in DOMAIN Sensors
                    THEN input_period(TimingDefault[n], input_period_scale(env), source_period(env))
                    ELSE IF n \in DOMAIN Cyclics THEN TimingDefault[n] ELSE 0,
          schedule |-> env.schedule, structured |-> structured_output_enabled(env)]
=============================================================================
