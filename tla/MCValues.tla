------------------------------ MODULE MCValues ------------------------------
(***************************************************************************)
(* The pure computations of the system, each against what it is meant to   *)
(* compute, for every input of small sets. A behaviour is one input; its   *)
(* field kind says which computation it is for.                            *)
(***************************************************************************)
EXTENDS Integers, FiniteSets, Sequences, SequencesExt, FiniteSetsExt, Functions

VARIABLE input

A == INSTANCE AutowareSystem
P == INSTANCE PicasAnalysis WITH MaxR <- 20000
C == INSTANCE ChainRecords WITH
        Capacity <- 3, Width <- 16, PipeBuf <- 4, WarmUp <- 10,
        NameRank <- [FrontLidarDriver |-> 1, ObjectCollisionEstimator |-> 2, RearLidarDriver |-> 3]
T == INSTANCE TimeArithmetic WITH Second <- 4, Max64 <- 31, Max32 <- 3, MaxU32 <- 7
Q == INSTANCE QoS WITH Second <- 4, Max64 <- 31, Max32 <- 3, MaxU32 <- 7
V == INSTANCE ParameterValues
G == INSTANCE GraphQueries WITH MaxName <- 6

UpTo(S, n) == UNION {[1 .. k -> S] : k \in 0 .. n}

-----------------------------------------------------------------------------
(* ChainRecords *)

Lidars == {"FrontLidarDriver", "RearLidarDriver"}
HistoryInputs ==
    [kind : {"history"},
     h : UpTo([node : Lidars \cup {"ObjectCollisionEstimator"}, seq : {1, 2}, t : {1, 2},
               dropped : {0, 1}], 3)]
SampleInputs == [kind : {"samples"}, values : UpTo(0 .. 3, 4)]

(* Newest by sequence number, then by time. *)
Newest(entries) ==
    {e \in entries : \A f \in entries : e.seq > f.seq \/ (e.seq = f.seq /\ e.t >= f.t)}

(* Each source has one root, its newest sample; the reference of the record  *)
(* is one of the roots, the oldest or the latest of them; the record lists   *)
(* it among its roots.                                                       *)
RootsAreNewest(h) ==
    LET roots == C!extract_source_roots(h, Lidars)
        entries(n) == {C!Root(h[i]) : i \in C!Entries(h, n)}
        listed == [i \in DOMAIN h |-> C!Root(h[i])]
    IN  /\ DOMAIN roots = C!Names(h) \cap Lidars
        /\ \A n \in DOMAIN roots : roots[n] \in Newest(entries(n))
        /\ \A oldest \in BOOLEAN :
              LET chosen == C!select_source_reference(Range(roots), oldest)
              IN  /\ Cardinality(chosen) = 1
                  /\ \A r \in chosen : \A n \in DOMAIN roots :
                        IF oldest THEN r.t <= roots[n].t ELSE r.t >= roots[n].t
        /\ \A i \in DOMAIN h : C!normalized_source_roots(listed, listed[i])[h[i].node] = listed[i]

(* merge_history_into_sample starts from one entry per node, the newest one, *)
(* in the order in which the nodes were first named.                         *)
DuplicatesRemoved(h) ==
    LET d == C!Deduplicated(h)
    IN  /\ [i \in DOMAIN d |-> d[i].node] = C!extract_lineage(h)
        /\ \A i \in DOMAIN d : \A j \in C!Entries(h, d[i].node) :
              h[j] = d[i] \/ ~C!is_newer_node_snapshot(h[j], d[i])
        /\ C!merge_history_into_sample(<<>>, d) = d

(* A record is written whole or counted as an error, and the next record says *)
(* how many errors there were before it.                                      *)
RecordsCounted(h) ==
    LET roots == [i \in DOMAIN h |-> C!Root(h[i])]
        empty == [written |-> <<>>, errors |-> 0]
        chain(result) ==
            C!emit_structured_chain_record(empty, C!NoRoot, "sink", 1, C!extract_lineage(h), roots,
                "completed", C!sum_drops(h, C!HotPathNodes), result)
    IN  \A first \in C!WriteResults : \A second \in C!WriteResults :
            LET out == C!emit_structured_source_record(chain(first), C!NoRoot, second)
            IN  /\ Len(out.written) + out.errors = 2
                /\ Len(out.written) <= Cardinality({k \in 1 .. 2 : <<first, second>>[k] = "all"})
                /\ second = "all" =>
                      Last(out.written).instrumentation_error_count = 2 - Len(out.written)

(* print_sample_path takes the latency of the hot path from the later lidar:    *)
(* it is that of the newest root of a history with one entry per node, no more  *)
(* than the latency since the message's oldest sample, and a deadline that is   *)
(* met by the latter is met by the former.                                      *)
PathsAgree(h) ==
    LET nodes == C!build_node_map(h)
        roots == C!extract_source_roots(h, Lidars)
        path == C!HotPath(h)
        end == nodes["ObjectCollisionEstimator"].t
        elapsed(r) == C!elapsed_ns(r.t, end)
    IN  (Len(h) = Cardinality(C!Names(h)) /\ path.found /\ DOMAIN roots # {}) =>
            \A r \in C!select_source_reference(Range(roots), FALSE) :
                elapsed(r).ok =>
                    /\ path.latency = elapsed(r).elapsed
                    /\ \A now \in end .. end + 1 : path.latency <= C!Latency(h, now)
                    /\ \A deadline \in 0 .. 1 :
                          C!deadline_status(C!Latency(h, end), deadline) = "completed"
                             => C!deadline_status(path.latency, deadline) = "completed"

(* What a node writes last into a history is what it is then known by, if it     *)
(* fits; the period of a node between two of its samples is a positive number    *)
(* of time units for each of them, or is not defined.                            *)
OwnEntryIsLast(h) ==
    \A e \in [node : {"ObjectCollisionEstimator"}, seq : {3}, t : {3}, dropped : {0}] :
        LET new == C!set_sample(C!Deduplicated(h), e)
            period(i) == C!PlannerPeriod(h[i], e)
        IN  /\ e \in Range(new) => C!build_node_map(new)[e.node] = e
            /\ (e.node \notin C!Names(h) /\ e \in Range(new)) => C!get_sample_timestamp(new) = e.t
            /\ \A i \in C!Entries(h, e.node) : period(i)[1] = e.t - h[i].t /\ period(i)[2] > 0

(* The running mean and variance are those of all values so far. *)
StatisticsExact(v) ==
    LET s == FoldLeft(C!statistic_set, C!NoStatistic, v)
        n == Len(v)
        sum == FoldLeft(+, 0, v)
        squares == FoldLeft(+, 0, [i \in DOMAIN v |-> v[i] * v[i]])
    IN  n > 0 =>
            /\ s.n = n /\ s.average[1] * n = sum * s.average[2]
            /\ s.variance[1] * n * n = (n * squares - sum * sum) * s.variance[2]
            /\ s.min = Min(Range(v)) /\ s.max = Max(Range(v))

(* What a chain record says of a message is exact for every history: one     *)
(* root per source and it is the newest, the reference among them, one entry *)
(* per node after the duplicates are removed, every failed write counted;    *)
(* and print_sample_path's running statistics are those of all samples.      *)
RecordsAreExact ==
    /\ input.kind = "history" =>
          /\ RootsAreNewest(input.h) /\ DuplicatesRemoved(input.h) /\ RecordsCounted(input.h)
          /\ PathsAgree(input.h) /\ OwnEntryIsLast(input.h)
    /\ input.kind = "samples" => StatisticsExact(input.values)
-----------------------------------------------------------------------------
(* AutowareSystem and PicasAnalysis *)

LineageInputs == [kind : {"lineage"}, cached : SUBSET A!CyclicInputs]

Numbers(values) ==
    {A!Unset} \cup [given : {TRUE}, parses : {FALSE}, value : {0}]
              \cup [given : {TRUE}, parses : {TRUE}, value : values]

EnvironmentInputs ==
    [kind : {"environment"},
     node : {"FrontLidarDriver", "RayGroundFilter", "BehaviorPlanner", "Unknown"},
     env : [scale : Numbers({0, 1, 15, 100, 101}), period : Numbers({-1, 0, 7}),
            structured : {"unset", "0", "1", "yes"}, schedule : {"unset", "", "file"}]]

CalibrationInputs == [kind : {"calibration"}, calib : {1, 7, 200}, speed : {1, 3, 50, 123, 499}]

(* The validators of sample_management.hpp expect exactly the names that the     *)
(* graph of create_autoware_nodes puts on a message: at ObjectCollisionEstimator *)
(* and IntersectionOutput on every one, at VehicleDBWSystem on those whose       *)
(* planner cycle had the three inputs no other input goes through. A node's time *)
(* is the number of nodes before it: it grows along every chain.                 *)
LineageIsExpected(cached) ==
    LET at(topic) == [n \in A!Lineage(topic, cached) |-> [t |-> Cardinality(A!Lineage(n, cached))]]
    IN  /\ C!validate_hot_path_lineage(at("ObjectCollisionEstimator"))
        /\ C!validate_intersection_lineage(at("EuclideanIntersection"))
        /\ C!validate_dbw_lineage(at("VehicleInterface"))
             <=> {"ObjectCollisionEstimator", "ParkingPlanner", "LanePlanner"} \subseteq cached

(* Every node runs in one executor of picas_multi_executors, in one group's    *)
(* process and in one process of its own.                                      *)
DeployedOnce ==
    /\ A!kNodeNames = A!AllNodeNames
    /\ \A n \in A!AllNodeNames :
          /\ Cardinality(A!ExecutorOf(n)) = 1
          /\ Cardinality({g \in DOMAIN A!groups : n \in A!GroupMain(<<g>>).nodes}) = 1
          /\ A!is_source_node(n) <=> n \in DOMAIN A!Sensors
    /\ A!TimingBenchmarkCPUUsage = A!TimingDefault
    /\ DOMAIN A!TimingBenchmarkThroughput = DOMAIN A!Sensors \cup DOMAIN A!Cyclics

(* Within an executor a subscriber has a higher priority than the callback    *)
(* that publishes to it: a chain that has begun is not overtaken by its own   *)
(* next activation. The one exception is VehicleInterface after MPCController. *)
PrioritiesFollowChains ==
    \A n \in A!AllNodeNames : \A i \in DOMAIN A!InputTopics(n) :
        LET topic == A!InputTopics(n)[i]
        IN  \/ A!ExecutorOf(n) # A!ExecutorOf(A!Publisher(topic))
            \/ A!Priority[n][i] > A!PublishingPriority(topic)
            \/ <<n, topic>> = <<"VehicleInterface", "MPCController">>

(* A node starts only if all of its environment is valid for it, and then runs *)
(* with what the environment says.                                            *)
EnvironmentHonoured(env, n) ==
    LET main == A!NodeMain(env, n)
    IN  main.started =>
            /\ main.nodes = {n}
            /\ env.period.given => n \in DOMAIN A!Sensors /\ main.cycle = env.period.value
            /\ n \in DOMAIN A!Sensors => main.cycle > 0
            /\ main.schedule # "unset" => env.period.given
            /\ (env.scale.given /\ n \in DOMAIN A!Sensors) =>
                    main.cycle * 10 = A!TimingDefault[n] * env.scale.value

(* case_study.cpp runs the tasks on the executors, the CPUs and in the order of *)
(* priorities, of tasks and of executors, that the analysis is about; loads are *)
(* rounded to milliseconds. Without PiCAS the tasks of each of the first four   *)
(* executors stay together.                                                     *)
AnalysedIsRun ==
    \A k \in DOMAIN P!tasks :
        LET a == P!Analysed(k)
        IN  /\ P!RunExecutor[k] = P!AnalysedExecutor[a]
            /\ P!RunCpu[P!RunExecutor[k]] = P!AnalysedCpu[P!AnalysedExecutor[a]] + 1
            /\ P!data[a].T = 10 * P!TimerPeriod(P!tasks[k].T) \/ P!tasks[k].T = 0
            /\ 10 * P!tasks[k].C - P!data[a].C \in -5 .. 10
            /\ P!DefaultExecutor[k] \in 1 .. 4
            /\ \A l \in DOMAIN P!tasks :
                  /\ P!RunPriority[k] < P!RunPriority[l]
                        => P!AnalysedPriority[a] < P!AnalysedPriority[P!Analysed(l)]
                  /\ P!RunRt[P!RunExecutor[k]] < P!RunRt[P!RunExecutor[l]]
                        <=> P!CaseStudy.rt[P!AnalysedExecutor[a]]
                                < P!CaseStudy.rt[P!AnalysedExecutor[P!Analysed(l)]]
                  /\ (P!RunExecutor[k] = P!RunExecutor[l] /\ P!RunExecutor[k] < 5)
                        => P!DefaultExecutor[k] = P!DefaultExecutor[l]

(* The six real-time chains of the case study meet their periods by the analysis. *)
RealTimeChainsSchedulable ==
    LET latency == P!response_time_callbacks(P!CaseStudy)
    IN  \A c \in 1 .. 6 : P!Schedulable(P!CaseStudy, latency, c)

(* The Autoware system is built and deployed as the rest of the code assumes:  *)
(* the lineages the validators expect are those of the graph, each node runs   *)
(* once in every deployment, priorities rise along every chain, the            *)
(* environment is honoured or refused. The PiCAS case study is the one that is *)
(* analysed, its real-time chains meet their periods, and one calibration of   *)
(* the dummy load suffices.                                                    *)
SystemAsDeployed ==
    /\ input.kind = "lineage" => LineageIsExpected(input.cached)
    /\ input.kind = "environment" => EnvironmentHonoured(input.env, input.node)
    /\ input.kind = "system" =>
          DeployedOnce /\ PrioritiesFollowChains /\ AnalysedIsRun /\ RealTimeChainsSchedulable
    /\ input.kind = "calibration" =>
          P!Calibrated(input.speed * P!NextCalibration(input.calib, input.calib * input.speed))
-----------------------------------------------------------------------------
(* TimeArithmetic *)

TimeInputs == [kind : {"time"}, x : T!Int64, y : T!Int64]
RmwTimeInputs == [kind : {"rmw_time"}, t : [sec : 0 .. 63, nsec : 0 .. 63]]
ScaleInputs == [kind : {"scale"}, x : T!Int64 \ {T!Min64}, num : -5 .. 5, den : 0 .. 2]
RateInputs == [kind : {"rate"}, last : 0 .. 8, period : 1 .. 3, now : 0 .. 8]

(* The sum or difference is exact, or it is refused because it does not fit. *)
Exact(result, value) == IF result.throws THEN value \notin T!Int64 ELSE result.ns = value /\ value \in T!Int64
(* Durations also refuse the smallest int64_t as a result. *)
ExactOrLeast(result, value) == Exact(result, value) \/ (result.throws /\ value = T!Min64)

ArithmeticExact(x, y) ==
    /\ Exact(T!TimePlus(x, y), x + y) /\ Exact(T!DurationPlusTime(x, y), x + y)
    /\ Exact(T!TimePlusAssign(x, y), x + y)
    /\ Exact(T!TimeMinusDuration(x, y), x - y) /\ Exact(T!TimeMinusAssign(x, y), x - y)
    /\ Exact(T!TimeMinusTime([clock |-> "ros", ns |-> x], [clock |-> "ros", ns |-> y]), x - y)
    /\ \A clock \in {"ros", "steady"} :
          LET difference == T!TimeMinusTime([clock |-> clock, ns |-> x], [clock |-> "ros", ns |-> y])
              less == T!TimeLess([clock |-> clock, ns |-> x], [clock |-> "ros", ns |-> y])
          IN  /\ clock # "ros" => difference.throws /\ less.throws
              /\ ~difference.throws => less.less = (difference.ns < 0)
    /\ (x # T!Min64 /\ y # T!Min64) =>
          ExactOrLeast(T!DurationPlus(x, y), x + y) /\ ExactOrLeast(T!DurationMinus(x, y), x - y)

(* A time or a duration whose seconds fit an int32_t comes back from a message *)
(* unchanged; a longer duration is cut to the nearest that fits. Whole numbers *)
(* of seconds below the least int32_t are left out: those wrap.                *)
MessagesExact(x) ==
    LET sec == x \div 4
        back == T!DurationFromMessage(T!DurationToMessage(x))
    IN  /\ (x >= 0 /\ sec <= 3) => T!TimeFromMessage(T!TimeToMessage(x)) = T!Value(x)
        /\ sec \in -4 .. 3 => back = x /\ T!DurationFromMessage(T!TimeToMessage(x)) = x
        /\ (x >= 0 /\ sec <= 3) => T!Value(x) = T!TimeMax \/ x < T!TimeMax.ns
        /\ sec > 3 => T!DurationToMessage(x).sec = 3
        /\ (sec < -4 /\ x % 4 # 0) => back = -16

(* Time and Duration compute exactly or throw, convert to messages and back    *)
(* without loss, and saturate where they are said to; a Rate never sleeps      *)
(* longer than its period and, after it has fallen behind, is not behind still. *)
TimeIsExact ==
    /\ input.kind = "time" => ArithmeticExact(input.x, input.y) /\ MessagesExact(input.x)
    /\ input.kind = "rmw_time" =>
          T!from_rmw_time(input.t) = Min({31, input.t.sec * 4 + input.t.nsec})
    /\ input.kind = "scale" =>
          LET r == T!DurationTimes(input.x, input.num, input.den)
          IN  r.throws \/ (r.ns = T!Quot(input.x * input.num, input.den) /\ r.ns \in T!Int64)
    /\ input.kind = "rate" =>
          LET r == T!RateSleep(input.last, input.period, input.now)
          IN  /\ r.slept => r.time <= input.period
              /\ ~r.slept => T!RateSleep(r.last, input.period, input.now).time >= 0
-----------------------------------------------------------------------------
(* ParameterValues and QoS *)

FileNodes == {<<"n">>, <<"*">>, <<"**">>, <<"a", "*">>, <<"**", "n">>}
Files == UpTo([node : FileNodes, params : {<<[name |-> "p", value |-> v]>> : v \in {1, 2}}], 2)
FileInputs ==
    [kind : {"files"}, fqn : {<<"n">>, <<"a", "n">>}, global : UpTo([node : FileNodes,
        params : {<<[name |-> "p", value |-> 3]>>}], 1), local : Files,
     given : {<<>>, <<[name |-> "p", value |-> 4]>>}]

ParameterNames == {<<"a">>, <<"a", "b">>, <<"a", "b", "c">>, <<"b">>}
ListInputs ==
    [kind : {"list"}, names : SUBSET ParameterNames, asked : ParameterNames, depth : 0 .. 3]

Profile ==
    [avoid_ros_namespace_conventions |-> FALSE, deadline |-> [sec |-> 2, nsec |-> 1],
     durability |-> "volatile", history |-> "keep_last", depth |-> 5, lifespan |-> [sec |-> 0, nsec |-> 0],
     liveliness |-> "automatic", liveliness_lease_duration |-> [sec |-> 1, nsec |-> 0],
     reliability |-> "reliable"]

Given(type, v) == [type |-> type, v |-> v]
QosInputs ==
    [kind : {"qos"}, entity : {"publisher", "subscription"},
     policies : {{"history", "depth", "reliability"}, {"depth", "deadline", "lifespan"}, {}},
     depth : {"none", "nine", "negative", "bogus"}, deadline : {"none", "nine", "negative", "bogus"},
     history : {"none", "keep_all", "bogus"}]
Overrides == [nine |-> Given("integer", 9), negative |-> Given("integer", -1),
              keep_all |-> Given("string", "keep_all"), bogus |-> Given("string", "bogus")]

(* Of a parameter that several files and the code give, the code's value counts, *)
(* then the last one of the node's own files, then the last of the global ones.  *)
LastGivenWins(fqn, global, local, given) ==
    LET in(file) == V!parameter_map_from(file, fqn)
        values == in(global) \o in(local) \o given
        resolved == V!resolve_parameter_overrides(fqn, global, local, given)
    IN  IF values = <<>> THEN DOMAIN resolved = {} ELSE resolved["p"] = values[Len(values)].value

(* A list to a depth holds what at most that many more parts name; a client    *)
(* that asks for one parameter is told whether it is there.                    *)
ListsAreComplete(names, asked, depth) ==
    /\ V!list_parameters(names, {asked}, depth) =
          {n \in names : n = asked \/ \E k \in 1 .. 3 : /\ Len(n) = Len(asked) + k
                                                       /\ IsPrefix(asked, n) /\ (depth = 0 \/ k < depth)}
    /\ V!ClientHasParameter(names, asked) <=> asked \in names
    /\ {asked \o n : n \in V!ByPrefix(names, asked)} = V!list_parameters(names, {asked}, 0) \ {asked}
    /\ \A prefix \in V!ListedPrefixes(names) :
          \E n \in V!list_parameters(names, {prefix}, 2) : Front(n) = prefix

(* What a policy's parameter shows is the policy in effect, for the entity that *)
(* declared it and for a later one that finds it declared; the policies that    *)
(* are not listed keep their values; what cannot be applied, or what the        *)
(* options' callback rejects, is refused.                                       *)
QosFollowsParameters(i) ==
    LET options == Q!QosOverridingOptions(i.policies, {}, "")
        name(p) == Q!ParameterName("t", i.entity, "", p)
        chosen == {p \in i.policies \cap {"depth", "deadline", "history"} : i[p] # "none"}
        overrides == [m \in {name(p) : p \in chosen} |-> Overrides[i[CHOOSE q \in chosen : name(q) = m]]]
        listed == i.policies \cap Range(Q!allowed_policies(i.entity))
        first == Q!declare_qos_parameters(options, <<>>, overrides, "t", Profile, i.entity)
        second == Q!declare_qos_parameters(options, first.declared, overrides, "t",
                                           Q!keep_last(Profile, 7), i.entity)
        refused(p) == i[p] = "bogus" \/ (p = "deadline" /\ i[p] = "negative")
        validated == Q!with_default_policies({first.qos}, "")
    IN  /\ Q!NewQoS(Q!from_rmw(Profile), Profile) = Profile
        /\ Q!Failed(Q!declare_qos_parameters_none(options, Profile)) <=> i.policies # {}
        /\ i.policies = validated.policy_kinds =>
              Q!Failed(Q!declare_qos_parameters(validated, <<>>, overrides, "t", Profile, i.entity).qos)
        /\ Q!Failed(first.qos) <=> \E p \in chosen \cap listed : refused(p)
        /\ ~Q!Failed(first.qos) =>
              /\ \A p \in listed \ {"depth"} : Q!GetPolicy(first.qos, p) = first.declared[name(p)].v
              /\ \A p \in listed : second.qos[p] = first.qos[p]
              /\ \A p \in DOMAIN Profile \ chosen : first.qos[p] = Profile[p]

(* Overrides reach what they name: parameter files in their order of            *)
(* precedence, lists of parameters to their depth, every C++ type asked for as  *)
(* it was constructed, and QoS policies for each entity that declares them.     *)
OverridesApplied ==
    /\ input.kind = "files" => LastGivenWins(input.fqn, input.global, input.local, input.given)
    /\ input.kind = "list" => ListsAreComplete(input.names, input.asked, input.depth)
    /\ input.kind = "qos" => QosFollowsParameters(input)
    /\ input.kind = "system" =>
          \A t \in V!CppTypes :
              /\ V!RequestedType[t] = V!ConstructedType[t]
              /\ V!parameter_value_from({V!RequestedType[t]}) = V!RequestedType[t]
-----------------------------------------------------------------------------
(* NodeNames and GraphQueries *)

Extensions == {<<"s">>, <<"s", "/">>, <<"s", "/", "t">>, <<"/", "s">>, <<>>, <<"~">>}
NameInputs ==
    [kind : {"names"}, ns : {<<"/">>, <<"/", "a">>}, outer : Extensions, inner : Extensions,
     name : {<<"x">>, <<"/", "x">>, <<"~", "/", "x">>, <<"x", "/">>, <<"x", "/", "y">>, <<"~">>}]
AnswerInputs ==
    [kind : {"answer"}, answer : UpTo([name : {"a", "b"}, types : {<<>>, <<"t">>, <<"t", "u">>}], 2),
     get : BOOLEAN, fini : BOOLEAN]
ArrayInputs ==
    [kind : {"arrays"}, names : [1 .. 2 -> {<<"m">>, <<>>}], namespaces : [1 .. 2 -> {<<"/">>, <<"/", "a">>, <<>>}],
     get : BOOLEAN, fini : [1 .. 2 -> BOOLEAN]]

EndpointInputs ==
    [kind : {"endpoints"}, topic : {<<"x">>, <<"/", "x">>, <<"~">>, <<"x", "/">>, <<"x", "/", "y", "/", "z">>},
     ns : {<<"/">>, <<"/", "a">>}, graph : [{<<"/", "x">>, <<"/", "y">>} -> 0 .. 2],
     renamed : BOOLEAN, no_mangle : BOOLEAN, get : BOOLEAN, fini : BOOLEAN]
NodeInputs == [kind : {"nodes"}, node : {<<"n">>, <<>>, <<"~">>, <<"/", "n">>},
               ns : {<<>>, <<"/">>, <<"a">>, <<"/", "a">>, <<"/", "a", "/">>, <<"~">>}]

Expanded(node, name) == G!expand_topic_or_service_name(G!CreatedOn(node, name), <<"n">>, node.ns, FALSE)

(* A sub-node of a sub-node is the sub-node of both extensions, and a trailing  *)
(* slash makes no difference. A relative name on it lies under its effective    *)
(* namespace, absolute and private names are those of the node itself; what is  *)
(* refused is refused as the name it is.                                        *)
SubNodesCompose(i) ==
    LET node == [ns |-> i.ns, sub |-> <<>>]
        outer == G!create_sub_node(node, i.outer)
        within == [ns |-> i.ns, sub |-> outer.name]
        inner == G!create_sub_node(within, i.inner)
        sub == [ns |-> i.ns, sub |-> inner.name]
        full == Expanded(sub, i.name)
        relative == ~G!IsAbsolute(i.name) /\ ~G!IsPrivate(i.name)
    IN  (~G!Fails(outer) /\ ~G!Fails(inner)) =>
            /\ G!create_sub_node(node, outer.name \o <<"/">> \o i.inner) = inner
            /\ G!ValidNamespace(G!effective_namespace(sub))
            /\ full.error \in {"none", "InvalidTopicNameError"}
            /\ (relative /\ ~G!Fails(full)) =>
                    full.name = G!effective_namespace(sub) \o <<"/">> \o i.name
            /\ ~relative => full = Expanded(node, i.name)
            /\ G!get_parameter_or(sub, i.name) = G!get_parameter(sub, i.name) <=> sub.sub = <<>> \/ ~relative
            /\ G!create_sub_node(within, <<"s", "/">>) = G!create_sub_node(within, <<"s">>)

Pairs(answer) == UNION {{<<answer[i].name, t>> : t \in Range(answer[i].types)} : i \in DOMAIN answer}

(* Every structure rcl filled is finalized once on every path, a failure is    *)
(* reported, and an answer is complete.                                        *)
QueriesRelease(i) ==
    \A o \in {G!get_topic_names_and_types(i.answer, i.get, i.fini),
               G!get_service_names_and_types(i.answer, i.get, i.fini),
               G!get_service_names_and_types_by_node(i.answer, i.get, i.fini),
               G!get_client_names_and_types_by_node(i.answer, i.get, i.fini),
               G!get_publisher_names_and_types_by_node(i.answer, i.get, i.fini),
               G!get_subscriber_names_and_types_by_node(i.answer, i.get, i.fini)} :
        /\ o.finis = <<1>>
        /\ ~i.get => o.throws
        /\ ~o.throws => UNION {{<<n, t>> : t \in Range(o.value[n])} : n \in DOMAIN o.value} = Pairs(i.answer)

ArraysRelease(i) ==
    LET o == G!get_node_names(i.names, i.namespaces, i.get, i.fini)
        with == G!get_node_names_with_enclaves(i.names, i.namespaces, i.namespaces, i.get,
                                               Append(i.fini, TRUE))
    IN  /\ o.finis = <<1, 1>> /\ with.finis = <<1, 1, 1>>
        /\ with.throws = o.throws /\ Len(with.value) = Len(o.value)
        /\ o.throws <=> ~i.get \/ FALSE \in Range(i.fini)
        /\ ~o.throws => Range(o.value) =
              {G!Under(i.namespaces[k], i.names[k]) : k \in {j \in 1 .. 2 : i.names[j] # <<>> /\ i.namespaces[j] # <<>>}}

(* The count of a topic's endpoints and the list of them agree, except where a    *)
(* rule renames the topic: the count is of the name as it was given. A name that *)
(* is refused is refused by both. The list is finalized once it was asked for.   *)
EndpointsAgree(i) ==
    LET node == [name |-> <<"n">>, ns |-> i.ns]
        rules == IF i.renamed THEN [n \in {<<"/", "x">>} |-> <<"/", "y">>] ELSE [n \in {} |-> n]
        full == G!expand_topic_or_service_name(i.topic, node.name, node.ns, FALSE)
        resolved == G!resolve_topic_or_service_name(rules, i.topic, node.name, node.ns, FALSE)
    IN  \A q \in {<<G!count_publishers(i.graph, node, i.topic, i.get),
                  G!get_publishers_info_by_topic(i.graph, node, rules, i.topic, i.no_mangle, i.get, i.fini)>>,
                <<G!count_subscribers(i.graph, node, i.topic, i.get),
                  G!get_subscriptions_info_by_topic(i.graph, node, rules, i.topic, i.no_mangle, i.get, i.fini)>>} :
            LET count == q[1]
                list == q[2]
            IN  /\ count.throws <=> G!Fails(full) \/ ~i.get
                /\ list.finis = <<1>> \/ (list.finis = <<0>> /\ G!Fails(full) /\ list.throws)
                /\ (~count.throws /\ ~list.throws /\ ~i.no_mangle) =>
                      /\ list.value = G!CountAt(i.graph, resolved.name)
                      /\ ~i.renamed \/ resolved = full => list.value = count.value
                /\ (~i.renamed /\ ~G!Fails(full)) => resolved = full

(* A node that can be created is one on which a topic can be; a refused one is *)
(* refused by the name or the namespace it was given.                          *)
NodesAreNamed(i) ==
    LET node == G!NewNodeBase(i.node, i.ns)
    IN  IF G!Fails(node) THEN node.error \in {"InvalidNodeNameError", "InvalidNamespaceError"}
        ELSE ~G!Fails(G!expand_topic_or_service_name(<<"x">>, i.node, node.name, FALSE))

(* Names nest as sub-nodes do, and the queries of the graph answer completely  *)
(* and release what they were given.                                           *)
NamesNest ==
    /\ input.kind = "names" => SubNodesCompose(input)
    /\ input.kind = "answer" => QueriesRelease(input)
    /\ input.kind = "arrays" => ArraysRelease(input)
    /\ input.kind = "endpoints" => EndpointsAgree(input)
    /\ input.kind = "nodes" => NodesAreNamed(input)
-----------------------------------------------------------------------------
Init ==
    \/ input \in HistoryInputs \/ input \in SampleInputs
    \/ input \in LineageInputs \/ input \in EnvironmentInputs \/ input \in CalibrationInputs
    \/ input = [kind |-> "system"]
    \/ input \in TimeInputs \/ input \in RmwTimeInputs \/ input \in ScaleInputs \/ input \in RateInputs
    \/ input \in FileInputs \/ input \in ListInputs \/ input \in QosInputs
    \/ input \in NameInputs \/ input \in AnswerInputs \/ input \in ArrayInputs
    \/ input \in EndpointInputs \/ input \in NodeInputs

Next == UNCHANGED input

Spec == Init /\ [][Next]_input

(* The profile of /parameter_events under each of the two names an override may have. *)
EventsInit ==
    input \in [kind : {"events"}, name : {<<"depth">>, <<"publisher", "depth">>}, depth : {7, 9}]
EventsSpec == EventsInit /\ [][Next]_input

(* node.cpp:213-214 says of the QoS of /parameter_events: "we have got what we *)
(* wanted directly from the overrides, but declare the parameters anyway so    *)
(* they are visible": the declared parameters show the profile in effect.      *)
ParameterEventsVisible ==
    LET node == Q!NewNode([m \in {<<"qos_overrides", "/parameter_events">> \o input.name}
                              |-> Given("integer", input.depth)], Profile)
    IN  node.effective = node.shown.qos
=============================================================================
