----------------------------- MODULE PicasChains ----------------------------
(***************************************************************************)
(* The chains of the PiCAS examples on their executors: a StartNode's timer *)
(* and the IntermediateNodes behind it, in single-threaded executors with  *)
(* callback priorities, whose threads run under SCHED_FIFO on one CPU each *)
(* (spin_rt). A step is one unit of time on every CPU. A callback takes up *)
(* to its execution time: dummy_load is calibrated to it, and not below.   *)
(***************************************************************************)
EXTENDS PicasAnalysis

CONSTANTS
    Systems,      \* the systems that may be built (see PicasAnalysis)
    Offsets,      \* chains -> Nat, the first expiry of each chain's timer
    None,
    MaxTime       \* bound: units of time

VARIABLES
    system,       \* the system that was built; no step changes it
    offset,       \* and its timers' first expiries
    bound,        \* what response_time_callbacks says of its chains
    time,
    pending,      \* a callback's one buffered message, or its timer's expiry
    running,      \* what each executor's thread is in the middle of
    worst         \* the longest time a chain has taken

vars == <<system, offset, bound, time, pending, running, worst>>

Executors == DOMAIN system.cpu
Cpus == {system.cpu[e] : e \in Executors}
Chain(i) == system.callbacks[i].chain

Init ==
    /\ system \in Systems
    /\ offset \in [Chains(system) -> Offsets]
    /\ bound = response_time_callbacks(system)
    /\ time = 0
    /\ pending = [i \in Ids(system) |-> None]
    /\ running = [e \in DOMAIN system.cpu |-> None]
    /\ worst = [c \in Chains(system) |-> 0]

(* A wall timer that expires again before its callback ran has one expiry. *)
Expires(i) ==
    LET d == time - offset[Chain(i)] IN d >= 0 /\ d % system.callbacks[i].T = 0

Expired ==
    [i \in Ids(system) |->
        IF IsTimer(system, i) /\ pending[i] = None /\ Expires(i)
        THEN [since |-> time, stamp |-> time] ELSE pending[i]]

(* get_next_executable under PiCAS: the ready callback with the highest *)
(* priority. Nothing starts while another callback of e is not through. *)
Best(e, ready) == {i \in ready : \A j \in ready : system.priority[j] <= system.priority[i]}

ReadyOf(e) == {i \in Ids(system) : system.executor[i] = e /\ Expired[i] # None}
HasWork(e) == running[e] # None \/ ReadyOf(e) # {}

(* SCHED_FIFO: of the threads on a CPU the one with the highest priority runs. *)
Dispatched_NonPreemptive(c) ==
    LET busy == {e \in Executors : system.cpu[e] = c /\ HasWork(e)}
        inside == {e \in busy : running[e] # None}
    IN  IF inside # {} THEN inside
        ELSE {e \in busy : \A f \in busy : system.rt[f] <= system.rt[e]}
Dispatched(c) ==
    LET busy == {e \in Executors : system.cpu[e] = c /\ HasWork(e)}
    IN  {e \in busy : \A f \in busy : system.rt[f] <= system.rt[e]}

(* The callback e runs during this unit, as it is before the unit. timer_callback *)
(* stamps its message when it starts.                                             *)
Current(e) ==
    IF running[e] # None THEN running[e]
    ELSE LET i == CHOOSE k \in Best(e, ReadyOf(e)) : TRUE
         IN  [callback |-> i, left |-> system.callbacks[i].C,
              msg |-> IF IsTimer(system, i) THEN [Expired[i] EXCEPT !.stamp = time] ELSE Expired[i]]

(* The callbacks that subscribe to what i publishes. *)
Successors(i) == {j \in Ids(system) : system.listens[j] = i}

(* One unit of time: on each CPU the dispatched thread works, and the callbacks *)
(* in done are through and publish. An unread message is replaced: the          *)
(* subscriptions are KEEP_LAST with depth 1.                                    *)
Unit(done) ==
    LET threads == UNION {Dispatched(c) : c \in Cpus}
        at == [e \in threads |-> Current(e)]
        started == {at[e].callback : e \in {f \in threads : running[f] = None}}
        sent(j) == {at[e].msg : e \in {f \in done : j \in Successors(at[f].callback)}}
        ended(c) == {time + 1 - at[e].msg.since :
                        e \in {f \in done : /\ Chain(at[f].callback) = c
                                            /\ Successors(at[f].callback) = {}}}
    IN  /\ \A e \in threads : at[e].left = 1 => e \in done
        /\ done \subseteq threads
        /\ running' = [e \in Executors |->
              IF e \notin threads THEN running[e]
              ELSE IF e \in done THEN None ELSE [at[e] EXCEPT !.left = @ - 1]]
        /\ pending' = [j \in Ids(system) |->
              IF sent(j) # {} THEN CHOOSE m \in sent(j) : TRUE
              ELSE IF j \in started THEN None ELSE Expired[j]]
        /\ worst' = [c \in Chains(system) |-> Max({worst[c]} \cup ended(c))]

Next ==
    /\ time < MaxTime
    /\ time' = time + 1
    /\ \E done \in SUBSET Executors : Unit(done)
    /\ UNCHANGED <<system, offset, bound>>

Spec == Init /\ [][Next]_vars

-----------------------------------------------------------------------------
(* If the analysis finds every chain schedulable, no instance of a chain takes  *)
(* longer, from the expiry of its timer to the end of its last callback, than   *)
(* the latency it computed: whatever the phases of the timers, and although     *)
(* callbacks of one executor block each other and may end early.                *)
AnalysisIsSafe ==
    (\A c \in Chains(system) : Schedulable(system, bound, c)) =>
        \A c \in Chains(system) : worst[c] <= bound[c]

(* "Latency is less than execution time." is an error of                        *)
(* picas_schedulability_test: the segments of a chain on several CPUs together  *)
(* hold all of its callbacks.                                                   *)
LatencyCoversExecution ==
    \A i \in Ids(system) : bound[Chain(i)] >= chain_c(system, i)

(* Then, too, no message is ever replaced unread, and no expiry of a timer is lost. *)
NothingLost ==
    (\A c \in Chains(system) : Schedulable(system, bound, c)) =>
        \A i \in Ids(system) :
            /\ IsTimer(system, i) /\ Expires(i) => pending[i] = None
            /\ pending[i] # None /\ pending'[i] # None => pending'[i].since = pending[i].since
=============================================================================
