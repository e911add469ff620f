---------------------------- MODULE MCComponents ----------------------------
(***************************************************************************)
(* The components of rclcpp and of PiCAS, each on a small instance of its  *)
(* own: what must hold in every state and of every step. A behaviour is    *)
(* one of one component, which says whose; the components share the        *)
(* variables s1 ... s25; the ring buffer, the clients of a service and the *)
(* wait sets, about which there are theorems, have their own.              *)
(***************************************************************************)
EXTENDS RingBuffer, ClientService, WaitSet, FiniteSets, TLC

CONSTANT None       \* no callback, no group, no message: a model value

VARIABLES which,
          s1, s2, s3, s4, s5, s6, s7, s8, s9, s10, s11, s12, s13, s14, s15, s16, s17, s18, s19,
          s20, s21, s22, s23, s24, s25

pool == <<s1, s2, s3, s4, s5, s6, s7, s8, s9, s10, s11, s12, s13, s14, s15, s16, s17, s18, s19,
          s20, s21, s22, s23, s24, s25>>

own == <<vars, allVars, waitSetVars>>

(* The variables from the n-th on are not used by a component. *)
FreeFrom(n) ==
    /\ (n <= 1 => s1 = 0) /\ (n <= 2 => s2 = 0) /\ (n <= 3 => s3 = 0)
    /\ (n <= 4 => s4 = 0) /\ (n <= 5 => s5 = 0) /\ (n <= 6 => s6 = 0)
    /\ (n <= 7 => s7 = 0) /\ (n <= 8 => s8 = 0) /\ (n <= 9 => s9 = 0)
    /\ (n <= 10 => s10 = 0) /\ (n <= 11 => s11 = 0) /\ (n <= 12 => s12 = 0)
    /\ (n <= 13 => s13 = 0) /\ (n <= 14 => s14 = 0) /\ (n <= 15 => s15 = 0)
    /\ (n <= 16 => s16 = 0) /\ (n <= 17 => s17 = 0) /\ (n <= 18 => s18 = 0)
    /\ (n <= 19 => s19 = 0) /\ (n <= 20 => s20 = 0) /\ (n <= 21 => s21 = 0)
    /\ (n <= 22 => s22 = 0) /\ (n <= 23 => s23 = 0) /\ (n <= 24 => s24 = 0)
    /\ (n <= 25 => s25 = 0)

StaysFrom(n) ==
    /\ UNCHANGED <<which, own>>
    /\ (n <= 1 => s1' = s1) /\ (n <= 2 => s2' = s2) /\ (n <= 3 => s3' = s3)
    /\ (n <= 4 => s4' = s4) /\ (n <= 5 => s5' = s5) /\ (n <= 6 => s6' = s6)
    /\ (n <= 7 => s7' = s7) /\ (n <= 8 => s8' = s8) /\ (n <= 9 => s9' = s9)
    /\ (n <= 10 => s10' = s10) /\ (n <= 11 => s11' = s11) /\ (n <= 12 => s12' = s12)
    /\ (n <= 13 => s13' = s13) /\ (n <= 14 => s14' = s14) /\ (n <= 15 => s15' = s15)
    /\ (n <= 16 => s16' = s16) /\ (n <= 17 => s17' = s17) /\ (n <= 18 => s18' = s18)
    /\ (n <= 19 => s19' = s19) /\ (n <= 20 => s20' = s20) /\ (n <= 21 => s21' = s21)
    /\ (n <= 22 => s22' = s22) /\ (n <= 23 => s23' = s23) /\ (n <= 24 => s24' = s24)
    /\ (n <= 25 => s25' = s25)

-----------------------------------------------------------------------------
(* Two wait sets, the second of them without synchronization, and two writers. *)
KindOf == [g |-> "guard_condition", s |-> "subscription", w |-> "other"]
Adding == {<<"g">>, <<"s", "w">>}
NonePreset == [i \in Sets |-> {}]

(* One publisher; subscriptions that share, own or copy a message. *)
Form(s) == CASE s = "a" -> "shared_const_ptr" [] s = "b" -> "unique_ptr"
             [] s = "c" -> "shared_ptr" [] OTHER -> "const_ref"
Subs(k) == IF k = "wide" THEN {"a", "b", "c", "d"} ELSE {"a", "d"}

Intra(k) == INSTANCE IntraProcess WITH
        Publishers <- {"p"}, Subscriptions <- Subs(k), UseIntraProcess <- Subs(k) \ {"d"},
        Callback <- [s \in Subs(k) |-> [form |-> Form(s), type |-> "ros", info |-> FALSE]],
        BufferType <- [s \in Subs(k) |-> IF s = "c" THEN "SharedPtr" ELSE "CallbackDefault"],
        can_communicate <- [x \in {"p"} \X Subs(k) |-> TRUE], Depth <- 2, Remotes <- {"r"},
        DiscoveryLag <- FALSE, PublishersDie <- FALSE, MaxMessages <- IF k = "wide" THEN 1 ELSE 3,
        publishers <- s1, subscriptions <- s2, pub_to_subs <- s3, buffer <- s4, gc <- s5,
        sent <- s6, phase <- s7, todo <- s8, triggering <- s9, inter <- s10, shared_msg <- s11,
        pc <- s12, taken <- s13, network <- s14, known <- s15, delivered <- s16, thrown <- s17

(* Serialized messages, and messages loaned from a middleware that can lend them or cannot. *)
Buffers(lends) == INSTANCE MessageBuffers WITH
        Serialized <- IF lends THEN {"s", "t"} ELSE {"s"}, Loaned <- {"l", "k"}, CanLoan <- lends,
        MaxBuffers <- 3, Null <- 0,
        alive <- s1, buffer <- s2, memory <- s3, content <- s4, outside <- s5, dropped <- s6,
        twice <- s7

(* The statistics of one subscription. *)
Statistics == INSTANCE TopicStatistics WITH
        Collectors <- {"age", "period"}, Timers <- {"t"}, MaxMessages <- 2, MaxTime <- 2,
        MaxWindows <- 3,
        alive <- s1, measured <- s2, window_start_ <- s3, received <- s4, now <- s5, pc <- s6,
        end <- s7, taken <- s8, sent <- s9

(* Two parameters, one within the other's prefix; a range, a read-only and a dynamic one. *)
V == INSTANCE ParameterValues

a == <<"a">>
ab == <<"a", "b">>
One == V!Integer(1)
Two == V!Integer(2)
Both(x, y) == <<V!Parameter(a, x), V!Parameter(ab, y)>>

Descriptors ==
    {V!Dynamic, V!Descriptor("not_set", FALSE, FALSE, <<[from |-> 0, to |-> 3, step |-> 2]>>),
     V!Descriptor("not_set", TRUE, TRUE, <<>>)}
Vectors ==
    {Both(Two, V!Double(1)), Both(One, V!NotSet), <<V!Parameter(a, V!NotSet)>>,
     <<V!Parameter(ab, Two), V!Parameter(a, Two)>>}
Requests ==
    {[op |-> "set_parameters", arg |-> Both(Two, V!Double(1))],
     [op |-> "set_parameters_atomically", arg |-> Both(Two, V!Double(1))],
     [op |-> "delete_parameters", arg |-> <<a>>],
     [op |-> "get_parameters", arg |-> <<a, ab>>]}

Params == INSTANCE Parameters WITH
        Names <- {a, ab}, Values <- {V!NotSet, One, Two, V!Double(1)}, Overrides <- ab :> Two,
        AllowUndeclared <- BOOLEAN, Handles <- {"g", "h"},
        Verdict <- [g |-> "reject", h |-> "mutate"], Threads <- {"t"}, MaxCalls <- 2,
        allow_undeclared_ <- s1, parameters_ <- s2, container <- s3, live <- s4, pending <- s5,
        last <- s6, view <- s7, silent <- s8, calls <- s9, call <- s10, requests <- s11,
        serving <- s12, returned <- s13

(* Two callbacks for a parameter and two for all events. *)
Handler == INSTANCE ParameterEventHandler WITH
        Lists <- {"p", "events"}, Handles <- {"f", "g", "h", "i"},
        ListOf <- [f |-> "p", g |-> "p", h |-> "events", i |-> "events"], HandlesExpire <- FALSE,
        MaxEvents <- 2,
        list <- s1, live <- s2, used <- s3, walk <- s4, cursor <- s5, called <- s6, owed <- s7,
        events <- s8

(* Two objects, assigned to one another. *)
Options == INSTANCE NodeOptions WITH
        Objects <- {"a", "b"}, Arguments <- {"none", "unknown"},
        settings <- s1, node_options_ <- s2, answer <- s3

(* Two nodes that wait for graph changes, come, go and are shut down. *)
Graph == INSTANCE GraphListener WITH
        Nodes <- {"m", "n"}, Sliced <- TRUE, MayShutdown <- TRUE, MayDestroy <- TRUE, MaxWaits <- 2,
        MaxChanges <- 1,
        lpc <- s1, upc <- s2, spc <- s3, barrier <- s4, nodes_mutex <- s5, shutdown_mutex <- s6,
        callbacks_mutex <- s7, graph_mutex <- s8, nodes <- s9, interrupt <- s10, graph_gc <- s11,
        waited <- s12, ready <- s13, visited <- s14, is_started <- s15, is_shutdown <- s16,
        should_add <- s17, event <- s18, expired <- s19, users <- s20, registered <- s21, ok <- s22,
        available <- s23, waits <- s24, changes <- s25

(* Two contexts, both shut down by a signal. *)
Context == INSTANCE ContextLifecycle WITH
        Contexts <- {"d", "e"}, Default <- "d", Logging <- {"d"}, OnSignal <- {"d", "e"},
        UnknownArgs <- {"e"}, Callbacks <- {"b"}, Hooked <- {"d"}, MaxInits <- 1, MaxSignals <- 1,
        rcl <- s1, reason <- s2, init_mutex <- s3, callbacks <- s4, called <- s5, at <- s6,
        weak <- s7, count <- s8, sleeping <- s9, installed <- s10, setup <- s11, received <- s12,
        sem <- s13, ours <- s14, handler <- s15, dpc <- s16, todo <- s17, inits <- s18,
        signals <- s19

(* Two clocks, one of them slept on. *)
Clock == INSTANCE TimeSource WITH
        Clocks <- {"c", "d"}, Slept <- "c", UseClockThread <- TRUE, MayDelete <- FALSE,
        MayShutdown <- TRUE, MaxTime <- 2, MaxEvents <- 5,
        attached <- s1, active <- s2, time <- s3, ros_time_active <- s4, last <- s5,
        parameter_state <- s6, wanted <- s7, subscribed <- s8, ppc <- s9, cpc <- s10, msg <- s11,
        system <- s12, ok <- s13, sleeper <- s14, switched <- s15, result <- s16, events <- s17

(* Two executors that compete for two nodes, and one executor with entities of every kind *)
(* in a group created late and dropped early. *)
Assoc(k) == INSTANCE Association WITH
        Executors <- IF k = "pair" THEN {"x", "y"} ELSE {"x"}, Spinners <- {"x"},
        Nodes <- IF k = "pair" THEN {"m", "n"} ELSE {"m"},
        Groups <- IF k = "pair" THEN {"g", "h"} ELSE {"g"},
        NodeOf <- IF k = "pair" THEN [g |-> "m", h |-> "n"] ELSE [g |-> "m"], Automatic <- {"g"},
        Late <- IF k = "pair" THEN {} ELSE {"g"},
        EntityKinds <- IF k = "pair" THEN {"timer"} ELSE {"subscription", "timer", "service", "client", "waitable", "publisher"},
        AddsByHand <- IF k = "pair" THEN {"h"} ELSE {"g"}, MayDestroy <- TRUE,
        DropsGroups <- k # "pair", MaxCalls <- IF k = "pair" THEN 2 ELSE 1,
        nodes <- s1, groups <- s2, unborn <- s3, entities <- s4, node_flag <- s5, group_flag <- s6,
        weak_nodes <- s7, by_hand <- s8, by_node <- s9, all <- s10, conditions <- s11,
        notifiable <- s12, triggered <- s13, interrupted <- s14, calls <- s15, pending <- s16,
        job <- s17, spinner <- s18, waiting <- s19, waited <- s20

(* The static executor: a node with two groups, and two nodes of which one adds its group by hand. *)
Fixed(k) == INSTANCE StaticExecutor WITH
        Nodes <- IF k = "one" THEN {"m"} ELSE {"m", "n"},
        Groups <- IF k = "one" THEN {"f", "g"} ELSE {"g", "h"},
        NodeOf <- IF k = "one" THEN [f |-> "m", g |-> "m"] ELSE [g |-> "m", h |-> "n"],
        Automatic <- IF k = "one" THEN {"f", "g"} ELSE {"g"}, Late <- IF k = "one" THEN {} ELSE {"g"},
        AddsByHand <- IF k = "one" THEN {} ELSE {"h"}, AddsWhileSpinning <- FALSE, MaxCalls <- 2,
        MaxSpins <- IF k = "one" THEN 2 ELSE 1,
        groups <- s1, entities <- s2, node_flag <- s3, group_flag <- s4, weak_nodes <- s5,
        by_hand <- s6, by_node <- s7, new_nodes <- s8, conditions <- s9, order <- s10,
        handles <- s11, exec_list <- s12, initialized <- s13, notified <- s14, interrupted <- s15,
        data <- s16, mode <- s17, pc <- s18, wait_set <- s19, reported <- s20, slot <- s21,
        worked <- s22, calls <- s23, spins <- s24

(* Two threads of an executor with PiCAS selection. *)
Picas == INSTANCE Executor WITH
        Threads <- {"t", "u"}, Callbacks <- {"timer", "sub", "waitable"},
        Groups <- {"g", "reentrant"}, MutuallyExclusive <- {"g"},
        Kind <- [timer |-> "timer", sub |-> "subscription", waitable |-> "waitable"],
        Group <- [timer |-> "g", sub |-> "g", waitable |-> "reentrant"],
        Priority <- [timer |-> 1, sub |-> 2, waitable |-> 1], callback_priority_enabled <- TRUE,
        MultiThreaded <- TRUE, Cancellable <- FALSE, TimedWait <- FALSE,
        pc <- s1, wait_mutex <- s2, spinning <- s3, cancelling <- s4, handles <- s5,
        can_be_taken_from <- s6, exec <- s7, group <- s8, waited <- s9, guard <- s10,
        pending <- s11, called <- s12, offered <- s13

(* Chains analysed and then run: example.cpp, and pairs of chains with several loads, periods *)
(* and allocations to executors and CPUs. *)
Analysis == INSTANCE PicasAnalysis WITH MaxR <- 100

TwoChains(load, periods, executor, cpu) ==
    LET chains == <<Analysis!Timer(periods[1], load[1], 1), Analysis!Regular(load[2], 1),
                    Analysis!Timer(periods[2], load[3], 2), Analysis!Regular(load[4], 2)>>
    IN  [callbacks |-> chains, listens |-> <<0, 1, 0, 3>>, executor |-> executor, cpu |-> cpu,
         rt |-> [e \in DOMAIN cpu |-> 10 - e], priority |-> Analysis!AssignedPriority(chains)]

Systems ==
    {Analysis!Example} \cup
    {TwoChains(l[1], l[2], d[1], d[2]) :
        l \in {<<<<1, 1, 2, 2>>, <<6, 8>>>>, <<<<2, 1, 1, 1>>, <<6, 8>>>>,
               <<<<1, 2, 2, 1>>, <<12, 8>>>>, <<<<1, 1, 5, 1>>, <<4, 20>>>>},
        d \in {<<<<1, 1, 1, 1>>, <<1>>>>, <<<<1, 1, 2, 2>>, <<1, 1>>>>,
               <<<<1, 2, 2, 1>>, <<1, 2>>>>, <<<<1, 1, 2, 3>>, <<1, 2, 1>>>>}}

Chain == INSTANCE PicasChains WITH
        Offsets <- {0, 1, 3}, MaxTime <- 24, MaxR <- 100,
        system <- s1, offset <- s2, bound <- s3, time <- s4, pending <- s5, running <- s6,
        worst <- s7

(* The instances satisfy what their modules ask of them. *)
ASSUME
    /\ Params!Assumption /\ Handler!HandlerAssumption
    /\ Graph!Assumption /\ Context!Assumption /\ Clock!Assumption
    /\ \A k \in {"wide", "deep"} : Intra(k)!Assumption
    /\ \A k \in {"pair", "all"} : Assoc(k)!Assumption
    /\ \A k \in {"one", "two"} : Fixed(k)!Assumption
    /\ Picas!ExecutorAssumption

-----------------------------------------------------------------------------
ComponentsInit ==
    /\ Init /\ ClientInit /\ WaitSetInit
    /\ \/ which \in {"ring", "client", "wait_set"} /\ FreeFrom(1)
       \/ which = "intra_wide" /\ Intra("wide")!Init /\ FreeFrom(18)
       \/ which = "intra_deep" /\ Intra("deep")!Init /\ FreeFrom(18)
       \/ which = "lent_buffers" /\ Buffers(TRUE)!Init /\ FreeFrom(8)
       \/ which = "buffers" /\ Buffers(FALSE)!Init /\ FreeFrom(8)
       \/ which = "statistics" /\ Statistics!Init /\ FreeFrom(10)
       \/ which = "parameters" /\ Params!Init /\ FreeFrom(14)
       \/ which = "handler" /\ Handler!Init /\ FreeFrom(9)
       \/ which = "options" /\ Options!Init /\ FreeFrom(4)
       \/ which = "graph" /\ Graph!Init /\ FreeFrom(26)
       \/ which = "context" /\ Context!Init /\ FreeFrom(20)
       \/ which = "clock" /\ Clock!Init /\ FreeFrom(18)
       \/ which = "association" /\ Assoc("pair")!Init /\ FreeFrom(21)
       \/ which = "entities" /\ Assoc("all")!Init /\ FreeFrom(21)
       \/ which = "static" /\ Fixed("one")!Init /\ FreeFrom(25)
       \/ which = "static_hand" /\ Fixed("two")!Init /\ FreeFrom(25)
       \/ which = "picas" /\ Picas!Init /\ FreeFrom(14)
       \/ which = "chains" /\ Chain!Init /\ FreeFrom(8)

ComponentsNext ==
    \/ which = "ring" /\ Next /\ UNCHANGED <<which, allVars, waitSetVars, pool>>
    \/ which = "client" /\ ClientNext /\ UNCHANGED <<which, vars, waitSetVars, pool>>
    \/ which = "wait_set" /\ WaitSetNext /\ UNCHANGED <<which, vars, allVars, pool>>
    \/ which = "intra_wide" /\ Intra("wide")!Next /\ StaysFrom(18)
    \/ which = "intra_deep" /\ Intra("deep")!Next /\ StaysFrom(18)
    \/ which = "lent_buffers" /\ Buffers(TRUE)!Next /\ StaysFrom(8)
    \/ which = "buffers" /\ Buffers(FALSE)!Next /\ StaysFrom(8)
    \/ which = "statistics" /\ Statistics!Next /\ StaysFrom(10)
    \/ which = "parameters" /\ Params!Next /\ StaysFrom(14)
    \/ which = "handler" /\ Handler!Next /\ StaysFrom(9)
    \/ which = "options" /\ Options!Next /\ StaysFrom(4)
    \/ which = "graph" /\ Graph!Next /\ StaysFrom(26)
    \/ which = "context" /\ Context!Next /\ StaysFrom(20)
    \/ which = "clock" /\ Clock!Next /\ StaysFrom(18)
    \/ which = "association" /\ Assoc("pair")!Next /\ StaysFrom(21)
    \/ which = "entities" /\ Assoc("all")!Next /\ StaysFrom(21)
    \/ which = "static" /\ Fixed("one")!Next /\ StaysFrom(25)
    \/ which = "static_hand" /\ Fixed("two")!Next /\ StaysFrom(25)
    \/ which = "picas" /\ Picas!Next /\ StaysFrom(14)
    \/ which = "chains" /\ Chain!Next /\ StaysFrom(8)

ComponentsSpec == ComponentsInit /\ [][ComponentsNext]_<<which, own, pool>>

-----------------------------------------------------------------------------
(* What the invariants are said of: the component that the state belongs to. *)
Of(component, invariant) == which = component => invariant

(* Every component's variables keep their types, and the relations between them that its
   code takes for granted: a lock's holder is where the code holds the lock, an entry of a
   container is one that was added, indices lie within their arrays. *)
ComponentsTypeOK ==
    /\ RingTypeOK /\ Occupied /\ ClientTypeOK /\ WaitSetTypeOK
    /\ Of("intra_wide", Intra("wide")!IntraProcessTypeOK)
    /\ Of("intra_deep", Intra("deep")!IntraProcessTypeOK)
    /\ Of("parameters", Params!ParametersTypeOK)
    /\ Of("handler", Handler!HandlerTypeOK)
    /\ Of("graph", Graph!GraphTypeOK)
    /\ Of("context", Context!ContextTypeOK)
    /\ Of("clock", Clock!TimeTypeOK)
    /\ Of("association", Assoc("pair")!AssociationTypeOK)
    /\ Of("entities", Assoc("all")!AssociationTypeOK)
    /\ Of("static", Fixed("one")!StaticTypeOK)
    /\ Of("static_hand", Fixed("two")!StaticTypeOK)
    /\ Of("picas", Picas!TypeOK)

(* A message between nodes of one process. Whoever owns it exclusively is the only one that
   can reach it, publishers know exactly the subscriptions that are registered, a buffered
   message has somebody coming for it, none is delivered twice and other processes get
   theirs (intra_process_manager.hpp). A buffer that is moved, lent or released has one
   owner, who returns it once (serialized_message.cpp, loaned_message.hpp); a message is
   counted in one window of the topic statistics, and the windows follow one another
   (subscription_topic_statistics.hpp). *)
MessagesSafe ==
    /\ Of("intra_wide", /\ Intra("wide")!ExclusiveOwnership /\ Intra("wide")!ListedAreRegistered
                        /\ Intra("wide")!ListsComplete /\ Intra("wide")!NoStrandedMessage
                        /\ Intra("wide")!AtMostOnce /\ Intra("wide")!RemotesReached)
    /\ Of("intra_deep", /\ Intra("deep")!ExclusiveOwnership /\ Intra("deep")!ListedAreRegistered
                        /\ Intra("deep")!ListsComplete /\ Intra("deep")!NoStrandedMessage
                        /\ Intra("deep")!AtMostOnce /\ Intra("deep")!RemotesReached)
    /\ Of("lent_buffers", Buffers(TRUE)!OneOwner)
    /\ Of("buffers", Buffers(FALSE)!OneOwner)
    /\ Of("statistics", Statistics!MeasuredOnce /\ Statistics!WindowsMeet)

(* Parameters that are declared, set, undeclared and asked for, also by other nodes and from
   within callbacks: every value conforms to its descriptor, the events tell a listener the
   present values, the ways to read a parameter agree, a request gets one result for each of
   its names (node_parameters.cpp, parameter_service.cpp); a callback that lives through an
   event is called for it once (parameter_event_handler.cpp); the cached options of a node
   are those of its settings (node_options.cpp). *)
ParametersSafe ==
    /\ Of("parameters", /\ Params!Conforms /\ Params!EventsTellAll
                        /\ Params!ReadsAgree /\ Params!OneResultEach)
    /\ Of("handler", Handler!CalledOncePerEvent)
    /\ Of("options", Options!CacheIsCurrent)

(* Threads that rclcpp starts for itself. The graph listener never touches a node that is
   gone and the graph users are as many as the events (graph_listener.cpp, node_graph.cpp);
   a context calls each shutdown callback once a life, and the counts of contexts and of
   users of the logging agree with the contexts that are initialized (context.cpp); the
   clocks of a node follow use_sim_time and show the last time received
   (time_source.cpp). *)
LifecycleSafe ==
    /\ Of("graph", Graph!NodesAlive /\ Graph!UsersCountEvents)
    /\ Of("context", Context!CalledOncePerLife /\ Context!GlobalsMatch)
    /\ Of("clock", Clock!ClocksFollowParameter /\ Clock!ClocksShowLast)

(* However nodes and callback groups are added, removed, created and destroyed while
   executors spin: a group is served by one executor, the maps of an executor agree with
   one another and with the flags of groups and nodes (executor.cpp); the static executor
   runs the callback that was reported ready, not one that has taken its place in the
   list, and watches every node it serves (static_executor_entities_collector.cpp). *)
AssociationSafe ==
    /\ Of("association", Assoc("pair")!InOneExecutor /\ Assoc("pair")!MapsAgree /\ Assoc("pair")!FlaggedNodeIsHeld)
    /\ Of("entities", Assoc("all")!InOneExecutor /\ Assoc("all")!MapsAgree)
    /\ Of("static", Fixed("one")!RunsTheReadyOne /\ Fixed("one")!ServedNodesWatched)
    /\ Of("static_hand", Fixed("two")!ServedNodesWatched)

(* PiCAS: the callback that a thread takes has the highest priority of those that it found
   ready, and no thread sleeps on work (executor.cpp); the response times that the analysis
   computes bound the latencies of the chains as the executors and the CPUs run them
   (chain.hpp, picas_example), and no chain is quicker than its own execution. *)
PicasSafe ==
    /\ Of("picas", Picas!HighestPriorityFirst /\ Picas!NoLostWakeup)
    /\ Of("chains", Chain!AnalysisIsSafe /\ Chain!LatencyCoversExecution)

(* What no step may do: change some of the parameters of an atomic request and not others,
   change a read-only parameter or the type of a static one; hand an executor's wait set a
   guard condition that is gone, or an entity that died since the wait set took ownership;
   end a sleep successfully although the clock's source was switched; lose a callback of a
   chain. *)
LegalStep ==
    /\ OwnedSinceWait
    /\ which = "parameters" => /\ Params!AllOrNothing /\ Params!ReadOnlyKept
                               /\ Params!StaticTypeKept
    /\ which = "clock" => Clock!SleepNotFooled
    /\ which = "association" => Assoc("pair")!ConditionsAlive
    /\ which = "chains" => Chain!NothingLost
StepsLegal == [][LegalStep]_<<which, own, pool>>
=============================================================================
