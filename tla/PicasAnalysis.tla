---------------------------- MODULE PicasAnalysis ---------------------------
(***************************************************************************)
(* The response-time analysis of PiCAS (picas-analysis/*.m) as operators   *)
(* on a system, a record of                                                *)
(*   callbacks   a sequence of [T, C, chain], T = 0 where the callback is  *)
(*               no timer; the callbacks of a chain follow its timer       *)
(*   listens     for each callback, the one whose topic it subscribes to   *)
(*   executor    for each callback, its executor                           *)
(*   cpu, rt     for each executor, its CPU and real-time priority         *)
(*   priority    for each callback, its priority                           *)
(* Times are integers; the caller chooses the unit.                        *)
(***************************************************************************)
EXTENDS Integers, Sequences, FiniteSets, FiniteSetsExt, Functions

CONSTANT MaxR     \* bound: a response time the iteration of the analysis gives up at

Ids(s) == DOMAIN s.callbacks
Chains(s) == {s.callbacks[i].chain : i \in Ids(s)}
OfChain(s, c) == {i \in Ids(s) : s.callbacks[i].chain = c}
IsTimer(s, i) == s.callbacks[i].T # 0
CpuOf(s, i) == s.cpu[s.executor[i]]
RtOf(s, i) == s.rt[s.executor[i]]

TotalC(s, ids) == FoldFunctionOnSet(+, 0, [i \in Ids(s) |-> s.callbacks[i].C], ids)

(* Chain::add_callback: every callback knows the execution time of its chain. *)
chain_c(s, i) == TotalC(s, OfChain(s, s.callbacks[i].chain))

(* Priorities: the chains in their order, and the last callback of a chain   *)
(* before the others, its timer last, count down from the number of tasks.   *)
AssignedPriority(callbacks) ==
    [i \in DOMAIN callbacks |->
        Cardinality(DOMAIN callbacks)
            - Cardinality({j \in DOMAIN callbacks :
                  \/ callbacks[j].chain < callbacks[i].chain
                  \/ callbacks[j].chain = callbacks[i].chain /\ j > i})]

(* All callbacks of the chain are on one CPU. *)
chain_on_cpu(s, i) ==
    \A j \in OfChain(s, s.callbacks[i].chain) : CpuOf(s, j) = CpuOf(s, i)

(* The part of a chain on one CPU is analysed at its lowest callback, for all *)
(* of its execution time there.                                               *)
Segment(s, i) == {j \in OfChain(s, s.callbacks[i].chain) : CpuOf(s, j) = CpuOf(s, i)}
segment_flag(s, i) == \A j \in Segment(s, i) : s.priority[i] <= s.priority[j]

OwnTime(s, i) == IF segment_flag(s, i) THEN TotalC(s, Segment(s, i)) ELSE s.callbacks[i].C

(* A lower callback of another chain in the same executor cannot be preempted. *)
Blocking(s, i) ==
    Max({0} \cup {s.callbacks[j].C : j \in
            {k \in Ids(s) : /\ s.executor[k] = s.executor[i]
                            /\ s.callbacks[k].chain # s.callbacks[i].chain
                            /\ s.priority[k] < s.priority[i]}})

(* The timer of a chain, found through the executors in their order. *)
find_timer_callback(s, chain) ==
    CHOOSE i \in OfChain(s, chain) : IsTimer(s, i)

Ceiling(a, b) == (a + b - 1) \div b

(* What callback j adds to the response time r of callback i. *)
Interferes(s, i, j) ==
    /\ j # i
    /\ CpuOf(s, j) = CpuOf(s, i)
    /\ chain_on_cpu(s, i) => s.callbacks[j].chain # s.callbacks[i].chain
    /\ \/ RtOf(s, i) < RtOf(s, j)
       \/ RtOf(s, i) = RtOf(s, j) /\ s.priority[i] < s.priority[j]

Interference(s, i, j, r) ==
    LET timer == find_timer_callback(s, s.callbacks[j].chain)
        T == s.callbacks[timer].T
        P == IF chain_on_cpu(s, j) THEN Max({chain_c(s, j), T}) ELSE T
    IN  IF s.priority[timer] >= s.priority[i] \/ CpuOf(s, timer) # CpuOf(s, i)
        THEN Ceiling(r, P) * s.callbacks[j].C
        ELSE s.callbacks[j].C

Workload(s, i, r) ==
    FoldFunctionOnSet(+, 0, [j \in Ids(s) |-> Interference(s, i, j, r)],
                      {j \in Ids(s) : Interferes(s, i, j)})

(* The loop ends when the response time stops growing. On a CPU that is       *)
(* overloaded it never does: the code has no limit, the model gives up at     *)
(* MaxR.                                                                      *)
RECURSIVE Iterate(_, _, _)
Iterate(s, i, r) ==
    LET next == Workload(s, i, r) + OwnTime(s, i) + Blocking(s, i)
    IN  IF next <= r \/ next > MaxR THEN next ELSE Iterate(s, i, next)

wcrt(s, i) == Iterate(s, i, OwnTime(s, i) + Blocking(s, i))

(* Theorem 1: the latency of a chain is the sum of its segments, and one     *)
(* period more where it exceeds the period.                                  *)
chain_latency(s, c) ==
    LET sum == FoldFunctionOnSet(+, 0, [i \in Ids(s) |-> wcrt(s, i)],
                                 {i \in OfChain(s, c) : segment_flag(s, i)})
        T == s.callbacks[find_timer_callback(s, c)].T
    IN  IF sum > T THEN sum + T ELSE sum

response_time_callbacks(s) == [c \in Chains(s) |-> chain_latency(s, c)]

Schedulable(s, latency, c) == latency[c] <= s.callbacks[find_timer_callback(s, c)].T

-----------------------------------------------------------------------------
(* The case study as the analysis describes it, in tenths of a millisecond. *)

Regular(c, n) == [T |-> 0, C |-> c, chain |-> n]
Timer(t, c, n) == [T |-> t, C |-> c, chain |-> n]

data ==
    <<Timer(800, 23, 1), Regular(161, 1),
      Timer(800, 23, 2), Regular(22, 2), Regular(184, 2), Regular(91, 2),
      Timer(1000, 231, 3), Regular(79, 3), Regular(142, 3), Regular(179, 3),
      Timer(1000, 206, 4), Regular(179, 4), Regular(66, 4),
      Timer(1600, 17, 5), Regular(110, 5), Regular(66, 5), Regular(79, 5),
      Timer(10000, 17, 6), Regular(1959, 6),
      Timer(1200, 332, 7), Regular(22, 7), Timer(1200, 332, 8), Regular(66, 8),
      Timer(1200, 332, 9), Regular(66, 9), Timer(1200, 332, 10), Regular(17, 10),
      Timer(1200, 332, 11), Regular(22, 11), Timer(1200, 332, 12), Regular(22, 12)>>

(* Callbacks 1 and 3 stand for one timer that starts two chains. *)
AnalysedPriority == LET p == AssignedPriority(data) IN [p EXCEPT ![1] = p[3]]

AnalysedExecutor ==
    <<1, 1, 1, 2, 2, 2, 3, 3, 3, 3, 4, 4, 4, 5, 5, 5, 5, 6, 6, 7, 8, 9, 10, 11, 12, 13, 14, 15, 16,
      17, 18>>

AnalysedCpu == <<1, 2, 3, 4, 1, 4, 3, 2, 2, 4, 1, 3, 4, 1, 1, 2, 2, 3>>

CaseStudy ==
    [callbacks |-> data, executor |-> AnalysedExecutor, cpu |-> AnalysedCpu,
     rt |-> [e \in 1 .. 18 |-> 19 - e], priority |-> AnalysedPriority]

-----------------------------------------------------------------------------
(* The case study as case_study.cpp runs it, in milliseconds: task 1 starts *)
(* the chains 1 and 2.                                                      *)

tasks ==
    <<Timer(80, 2, 1), Regular(16, 1), Regular(2, 2), Regular(18, 2), Regular(9, 2),
      Timer(100, 23, 3), Regular(8, 3), Regular(14, 3), Regular(18, 3),
      Timer(100, 21, 4), Regular(18, 4), Regular(7, 4),
      Timer(160, 2, 5), Regular(11, 5), Regular(7, 5), Regular(8, 5),
      Timer(1000, 2, 6), Regular(196, 6),
      Timer(120, 33, 7), Regular(2, 7), Timer(120, 33, 8), Regular(7, 8),
      Timer(120, 33, 9), Regular(7, 9), Timer(120, 33, 10), Regular(2, 10),
      Timer(120, 33, 11), Regular(2, 11), Timer(120, 33, 12), Regular(2, 12)>>

(* StartNode: a period the constructor does not know becomes 10 s. *)
KnownPeriods == {70, 80, 100, 120, 160, 200, 1000}
TimerPeriod(period) == IF period \in KnownPeriods THEN period ELSE 10000

RunExecutor ==
    <<1, 1, 2, 2, 2, 3, 3, 3, 3, 4, 4, 4, 5, 5, 5, 5, 6, 6, 7, 8, 9, 10, 11, 12, 13, 14, 15, 16, 17,
      18>>
RunCpu == <<2, 3, 4, 5, 2, 5, 4, 3, 3, 5, 2, 4, 5, 2, 2, 3, 3, 4>>
RunRt == [e \in 1 .. 18 |-> 91 - e]
RunPriority ==
    <<26, 30, 27, 28, 29, 22, 23, 24, 25, 19, 20, 21, 15, 16, 17, 18, 13, 14, 11, 12, 9, 10, 7, 8, 5,
      6, 3, 4, 1, 2>>

(* Without PiCAS the tasks share four executors. *)
DefaultExecutor ==
    <<1, 1, 2, 2, 2, 3, 3, 3, 3, 4, 4, 4, 1, 1, 1, 1, 4, 4, 3, 2, 2, 4, 1, 3, 4, 1, 1, 2, 2, 3>>

(* example.cpp, in seconds: one timer and three subscriptions to its topic. *)
Example ==
    [callbacks |-> <<Timer(10, 1, 1), Regular(1, 1), Regular(1, 1), Regular(1, 1)>>,
     listens |-> <<0, 1, 1, 1>>, executor |-> <<1, 1, 1, 1>>, cpu |-> <<5>>, rt |-> <<90>>,
     priority |-> <<10, 11, 12, 13>>]

(* main: dummy_load_calib is set anew until 100 ms of load take 100 ms, give or *)
(* take 500 us. duration is what they took. An int: the product overflows for   *)
(* a calibration above 21474.                                                   *)
Calibrated(duration) == duration \in 99501 .. 100499
NextCalibration(calib, duration) == Max({1, (100 * 1000 * calib) \div duration})

(* The callback of the analysis that stands for task k. *)
Analysed(k) == IF k <= 2 THEN k ELSE k + 1
=============================================================================
