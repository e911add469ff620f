---------------------------- MODULE ChainRecords ----------------------------
(***************************************************************************)
(* What sample_management.hpp computes from the history of one message:    *)
(* the nodes and the source samples it goes back to, the checks of its     *)
(* lineage, the structured record of a completed chain, and the running    *)
(* statistics that print_sample_path keeps. Timestamps and counts are      *)
(* unsigned and wrap at Width.                                             *)
(***************************************************************************)
EXTENDS SampleManagement, Integers, FiniteSets, FiniteSetsExt, Functions

CONSTANTS
    NameRank,    \* node names -> Nat, their lexicographic order
    Width,       \* 2^64, the modulus of uint64_t
    PipeBuf,     \* PIPE_BUF, in the unit of RecordSize
    WarmUp       \* 10, messages that print_sample_path skips, and one more

(* A history names a node twice only where it was not built by set_sample. *)
Entries(h, n) == {i \in DOMAIN h : h[i].node = n}

elapsed_ns(start, end) ==
    IF end < start THEN [ok |-> FALSE, errors |-> 1] ELSE [ok |-> TRUE, errors |-> 0, elapsed |-> end - start]

deadline_status(latency, deadline) ==
    IF latency > deadline THEN "violated" ELSE "completed"

(* The first entry of each node, as a map from names. *)
build_node_map(h) == [n \in Names(h) |-> h[Min(Entries(h, n))]]

has_node(nodes, n) == n \in DOMAIN nodes

(* The expected names are distinct in every call. *)
has_exact_nodes(nodes, expected) ==
    /\ Cardinality(DOMAIN nodes) = Cardinality(expected)
    /\ \A n \in expected : has_node(nodes, n)

ts_before(nodes, a, b) ==
    has_node(nodes, a) /\ has_node(nodes, b) /\ nodes[a].t < nodes[b].t

(* Every entry of a node of the lineage counts, a second one of it too. *)
sum_drops(h, lineage) ==
    FoldFunction(+, 0, [i \in DOMAIN h |-> IF h[i].node \in lineage THEN h[i].dropped ELSE 0])

-----------------------------------------------------------------------------
(* The source samples a message goes back to. *)

Root(e) == [node |-> e.node, seq |-> e.seq, t |-> e.t]
NoRoot == [node |-> "", seq |-> 0, t |-> 0]

is_newer_source_identity(a, b) == a.seq > b.seq \/ (a.seq = b.seq /\ a.t > b.t)

source_reference_before(a, b) ==
    \/ a.t < b.t
    \/ a.t = b.t /\ NameRank[a.node] < NameRank[b.node]
    \/ a.t = b.t /\ a.node = b.node /\ a.seq < b.seq

(* One root enters the map of the roots so far. *)
Enter_Always(roots, r) == (r.node :> r) @@ roots
Enter(roots, r) ==
    IF r.node \in DOMAIN roots /\ ~is_newer_source_identity(r, roots[r.node])
    THEN roots ELSE (r.node :> r) @@ roots

NoRoots == [n \in {} |-> NoRoot]

extract_source_roots(h, source_nodes) ==
    FoldLeft(LAMBDA roots, e : IF e.node \in source_nodes THEN Enter(roots, Root(e)) ELSE roots,
             NoRoots, h)

(* The set of the one root that std::min_element or std::max_element finds. *)
select_source_reference(roots, use_minimum) ==
    IF roots = {} THEN {NoRoot}
    ELSE {r \in roots : \A s \in roots : ~(IF use_minimum THEN source_reference_before(s, r)
                                           ELSE source_reference_before(r, s))}

(* The reference replaces whatever root of its node was there. *)
normalized_source_roots(roots, reference) ==
    LET unique == FoldLeft(LAMBDA m, r : IF r.node = "" THEN m ELSE Enter(m, r), NoRoots, roots)
    IN  IF reference.node = "" THEN unique ELSE (reference.node :> reference) @@ unique

(* The nodes in the order of their first entries. *)
extract_lineage(h) ==
    FoldLeft(LAMBDA l, e : IF e.node \in Range(l) THEN l ELSE Append(l, e.node), <<>>, h)

-----------------------------------------------------------------------------
(* The lineages of the Autoware system's chains. *)

HotPathExpected(nodes) ==
    {"PointCloudFusion", "RayGroundFilter", "EuclideanClusterDetector", "ObjectCollisionEstimator"}
    \cup (IF has_node(nodes, "FrontLidarDriver")
          THEN {"FrontLidarDriver", "PointsTransformerFront"} ELSE {})
    \cup (IF has_node(nodes, "RearLidarDriver")
          THEN {"RearLidarDriver", "PointsTransformerRear"} ELSE {})

validate_hot_path_lineage(nodes) ==
    /\ has_node(nodes, "FrontLidarDriver") \/ has_node(nodes, "RearLidarDriver")
    /\ has_exact_nodes(nodes, HotPathExpected(nodes))
    /\ ts_before(nodes, "RayGroundFilter", "EuclideanClusterDetector")
    /\ ts_before(nodes, "EuclideanClusterDetector", "ObjectCollisionEstimator")

DbwExpected ==
    {"FrontLidarDriver", "RearLidarDriver", "PointsTransformerFront", "PointsTransformerRear",
     "PointCloudFusion", "VoxelGridDownsampler", "RayGroundFilter", "EuclideanClusterDetector",
     "ObjectCollisionEstimator", "PointCloudMap", "PointCloudMapLoader", "NDTLocalizer",
     "Visualizer", "Lanelet2GlobalPlanner", "Lanelet2Map", "Lanelet2MapLoader",
     "ParkingPlanner", "LanePlanner", "BehaviorPlanner", "MPCController", "VehicleInterface"}

validate_dbw_lineage(nodes) ==
    /\ has_exact_nodes(nodes, DbwExpected)
    /\ ts_before(nodes, "PointCloudFusion", "VoxelGridDownsampler")
    /\ ts_before(nodes, "BehaviorPlanner", "MPCController")
    /\ ts_before(nodes, "MPCController", "VehicleInterface")

validate_intersection_lineage(nodes) ==
    has_exact_nodes(nodes, {"EuclideanClusterSettings", "EuclideanClusterDetector"})

-----------------------------------------------------------------------------
(* The structured records. A record is the fields its reader parses; its size *)
(* is what its lists add, so that the limit of one atomic write can be met.   *)

make_structured_chain_record(reference, sink, latency, lineage, roots, status, drops, errors) ==
    [record_type |-> "completion", source |-> reference, sink |-> sink, latency |-> latency,
     contributing_source_roots |-> normalized_source_roots(roots, reference),
     lineage |-> extract_lineage([i \in DOMAIN lineage |-> [node |-> lineage[i]]]),
     status |-> status, drop_count |-> drops, instrumentation_error_count |-> errors]

make_structured_source_record(source, errors) ==
    [record_type |-> "source", source |-> source, instrumentation_error_count |-> errors]

RecordSize(r) ==
    IF r.record_type = "source" THEN 1
    ELSE 1 + Len(r.lineage) + Cardinality(DOMAIN r.contributing_source_roots)

(* write() takes the whole record, a part of it, or fails; only the first is *)
(* not counted as an error.                                                  *)
WriteResults == {"all", "part", "failed"}

write_structured_record(out, r, result) ==
    IF RecordSize(r) > PipeBuf \/ result # "all" THEN [out EXCEPT !.errors = @ + 1]
    ELSE [out EXCEPT !.written = Append(@, r)]

emit_structured_chain_record(out, reference, sink, latency, lineage, roots, status, drops, result) ==
    write_structured_record(out,
        make_structured_chain_record(reference, sink, latency, lineage, roots, status, drops, out.errors),
        result)

emit_structured_source_record(out, source, result) ==
    write_structured_record(out, make_structured_source_record(source, out.errors), result)

get_sample_timestamp(h) == IF h = <<>> THEN 0 ELSE h[Len(h)].t

(* The first loop of merge_history_into_sample leaves one entry per node, at *)
(* the place of its first and with the newest snapshot.                      *)
Deduplicated(h) ==
    FoldLeft(LAMBDA u, e :
                IF e.node \notin Names(u) THEN Append(u, e)
                ELSE IF is_newer_node_snapshot(e, u[Index(u, e.node)])
                     THEN [u EXCEPT ![Index(u, e.node)] = e] ELSE u,
             <<>>, h)

-----------------------------------------------------------------------------
(* statistic_value_t: the average and the variance are exact fractions      *)
(* <<numerator, denominator>> of the doubles the code keeps; deviation is   *)
(* the square root of the variance.                                         *)

NoStatistic == [n |-> 0, average |-> <<0, 1>>, variance |-> <<0, 1>>, min |-> Width - 1, max |-> 0]

Plus(a, b) == <<a[1] * b[2] + b[1] * a[2], a[2] * b[2]>>
Times(a, b) == <<a[1] * b[1], a[2] * b[2]>>

Updated(s, value, d2) ==
    LET n == s.n + 1
        average == <<s.n * s.average[1] + value * s.average[2], s.average[2] * n>>
        delta == Plus(<<value, 1>>, <<-s.average[1], s.average[2]>>)
        delta2 == Plus(<<value, 1>>, <<-average[1], average[2]>>)
        total == Plus(Times(s.variance, <<s.n, 1>>), Times(delta, IF d2 THEN delta2 ELSE delta))
    IN  [n |-> n, average |-> average, variance |-> <<total[1], total[2] * n>>,
         min |-> IF value < s.min THEN value ELSE s.min,
         max |-> IF value > s.max THEN value ELSE s.max]

statistic_set(s, value) == Updated(s, value, TRUE)

(* print_sample_path: what one message adds to the statistics of its sink. *)
(* Nothing is kept for the first WarmUp - 1 messages of all sinks together. *)
Counted(benchmark_counter) == benchmark_counter >= WarmUp

HotPathNodes == {"ObjectCollisionEstimator", "FrontLidarDriver", "PointsTransformerFront",
                 "PointCloudFusion", "RayGroundFilter", "EuclideanClusterDetector"}

(* The estimator's time less the later lidar's, modulo Width. *)
HotPath(h) ==
    LET lidars == {h[i].t : i \in {k \in DOMAIN h : h[k].node \in {"FrontLidarDriver", "RearLidarDriver"}}}
        estimator == Entries(h, "ObjectCollisionEstimator")
    IN  [found |-> estimator # {},
         latency |-> ((IF estimator = {} THEN 0 ELSE h[Min(estimator)].t)
                        - (IF lidars = {} THEN 0 ELSE Max(lidars))) % Width,
         drops |-> IF estimator = {} THEN 0 ELSE sum_drops(h, HotPathNodes)]

(* The period of the behaviour planner between two messages, as a fraction: *)
(* its denominator is 0 when the two carry the same planner sample. A first *)
(* sample taken at time 0 counts as none.                                   *)
PlannerPeriod(previous, e) ==
    IF previous.t = 0 THEN <<>> ELSE <<(e.t - previous.t) % Width, (e.seq - previous.seq) % Width>>

Latency(h, now) == (now - Min({h[i].t : i \in DOMAIN h})) % Width
=============================================================================
