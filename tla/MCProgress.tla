----------------------------- MODULE MCProgress -----------------------------
(***************************************************************************)
(* What the components of rclcpp must do in the end, each on a small       *)
(* instance of its own, under the fairness that its module states. A       *)
(* behaviour is one of one component, which says whose; the components     *)
(* share the variables s1 ... s25.                                         *)
(***************************************************************************)
EXTENDS Integers, Sequences, FiniteSets, TLC

CONSTANT None       \* no callback, no group, no thread: a model value

VARIABLES which,
          s1, s2, s3, s4, s5, s6, s7, s8, s9, s10, s11, s12, s13, s14, s15, s16, s17, s18, s19,
          s20, s21, s22, s23, s24, s25

all_vars == <<which,
          s1, s2, s3, s4, s5, s6, s7, s8, s9, s10, s11, s12, s13, s14, s15, s16, s17, s18, s19,
          s20, s21, s22, s23, s24, s25>>

(* The variables from the n-th on are not used by a component. *)
FreeFrom(n) ==
    /\ (n <= 1 => s1 = 0) /\ (n <= 2 => s2 = 0) /\ (n <= 3 => s3 = 0)
    /\ (n <= 4 => s4 = 0) /\ (n <= 5 => s5 = 0) /\ (n <= 6 => s6 = 0)
    /\ (n <= 7 => s7 = 0) /\ (n <= 8 => s8 = 0) /\ (n <= 9 => s9 = 0)
    /\ (n <= 10 => s10 = 0) /\ (n <= 11 => s11 = 0) /\ (n <= 12 => s12 = 0)
    /\ (n <= 13 => s13 = 0) /\ (n <= 14 => s14 = 0) /\ (n <= 15 => s15 = 0)
    /\ (n <= 16 => s16 = 0) /\ (n <= 17 => s17 = 0) /\ (n <= 18 => s18 = 0)
    /\ (n <= 19 => s19 = 0) /\ (n <= 20 => s20 = 0) /\ (n <= 21 => s21 = 0)
    /\ (n <= 22 => s22 = 0) /\ (n <= 23 => s23 = 0) /\ (n <= 24 => s24 = 0)
    /\ (n <= 25 => s25 = 0)

StaysFrom(n) ==
    /\ UNCHANGED which
    /\ (n <= 1 => s1' = s1) /\ (n <= 2 => s2' = s2) /\ (n <= 3 => s3' = s3)
    /\ (n <= 4 => s4' = s4) /\ (n <= 5 => s5' = s5) /\ (n <= 6 => s6' = s6)
    /\ (n <= 7 => s7' = s7) /\ (n <= 8 => s8' = s8) /\ (n <= 9 => s9' = s9)
    /\ (n <= 10 => s10' = s10) /\ (n <= 11 => s11' = s11) /\ (n <= 12 => s12' = s12)
    /\ (n <= 13 => s13' = s13) /\ (n <= 14 => s14' = s14) /\ (n <= 15 => s15' = s15)
    /\ (n <= 16 => s16' = s16) /\ (n <= 17 => s17' = s17) /\ (n <= 18 => s18' = s18)
    /\ (n <= 19 => s19' = s19) /\ (n <= 20 => s20' = s20) /\ (n <= 21 => s21' = s21)
    /\ (n <= 22 => s22' = s22) /\ (n <= 23 => s23' = s23) /\ (n <= 24 => s24' = s24)
    /\ (n <= 25 => s25' = s25)

-----------------------------------------------------------------------------
(* A single-threaded executor that may be cancelled, with callbacks of every kind but services, *)
(* and two threads of a multi-threaded one, whose timer and subscription exclude each other. *)
KindOf(c) == CASE c = "sub" -> "subscription" [] OTHER -> c
CallbacksOf(k) == IF k = "single" THEN {"timer", "sub", "client", "waitable"} ELSE {"timer", "sub", "service"}

Exec(k) == INSTANCE Executor WITH
        Threads <- IF k = "single" THEN {"t"} ELSE {"t", "u"},
        Callbacks <- CallbacksOf(k),
        Groups <- {"g", "h"}, MutuallyExclusive <- {"g"},
        Kind <- [c \in CallbacksOf(k) |-> KindOf(c)],
        Group <- [c \in CallbacksOf(k) |-> IF c \in {"timer", "sub"} THEN "g" ELSE "h"],
        Priority <- [c \in CallbacksOf(k) |-> 0],
        callback_priority_enabled <- FALSE, MultiThreaded <- k = "multi",
        Cancellable <- k = "single", TimedWait <- k = "single",
        pc <- s1, wait_mutex <- s2, spinning <- s3, cancelling <- s4, handles <- s5,
        can_be_taken_from <- s6, exec <- s7, group <- s8, waited <- s9, guard <- s10,
        pending <- s11, called <- s12, offered <- s13

(* One executor that serves two nodes. *)
Assoc == INSTANCE Association WITH
        Executors <- {"x"}, Spinners <- {"x"}, Nodes <- {"m", "n"}, Groups <- {"g", "h"},
        NodeOf <- [g |-> "m", h |-> "n"], Automatic <- {"g", "h"}, Late <- {}, EntityKinds <- {"timer"},
        AddsByHand <- {}, MayDestroy <- TRUE, DropsGroups <- FALSE, MaxCalls <- 2,
        nodes <- s1, groups <- s2, unborn <- s3, entities <- s4, node_flag <- s5, group_flag <- s6,
        weak_nodes <- s7, by_hand <- s8, by_node <- s9, all <- s10, conditions <- s11,
        notifiable <- s12, triggered <- s13, interrupted <- s14, calls <- s15, pending <- s16,
        job <- s17, spinner <- s18, waiting <- s19, waited <- s20

(* The static executor with one node that has two groups. *)
Fixed == INSTANCE StaticExecutor WITH
        Nodes <- {"m"}, Groups <- {"f", "g"}, NodeOf <- [f |-> "m", g |-> "m"], Automatic <- {"f", "g"},
        Late <- {}, AddsByHand <- {}, AddsWhileSpinning <- FALSE, MaxCalls <- 2, MaxSpins <- 1,
        groups <- s1, entities <- s2, node_flag <- s3, group_flag <- s4, weak_nodes <- s5,
        by_hand <- s6, by_node <- s7, new_nodes <- s8, conditions <- s9, order <- s10,
        handles <- s11, exec_list <- s12, initialized <- s13, notified <- s14, interrupted <- s15,
        data <- s16, mode <- s17, pc <- s18, wait_set <- s19, reported <- s20, slot <- s21,
        worked <- s22, calls <- s23, spins <- s24

(* One wait set and one writer. *)
WaitSets == INSTANCE WaitSet WITH
        Sets <- {1}, Static <- {}, Sequential <- {}, Entities <- {"g", "w"},
        Kind <- [g |-> "guard_condition", w |-> "other"], Batches <- {<<"g">>, <<"w">>},
        Preset <- [i \in {1} |-> {"w"}], Writers <- {"w1"}, RemoveForeign <- FALSE, Droppable <- {},
        Timed <- TRUE, MaxCalls <- 3,
        storage <- s1, in_use <- s2, held <- s3, owned <- s4, ownership_reference_counter <- s5,
        needs_resize <- s6, capacity <- s7, rcl_wait_set <- s8, result <- s9, ready <- s10,
        interrupt <- s11, number_of_writers_waiting <- s12, writer_active <- s13,
        reader_active <- s14, pc <- s15, call <- s16, calls <- s17

(* A publisher, found late by the other processes and possibly destroyed, and two subscriptions. *)
Intra == INSTANCE IntraProcess WITH
        Publishers <- {"p"}, Subscriptions <- {"a", "d"}, UseIntraProcess <- {"a"},
        Callback <- [s \in {"a", "d"} |-> [form |-> IF s = "a" THEN "shared_const_ptr" ELSE "const_ref", type |-> "ros", info |-> FALSE]],
        BufferType <- [s \in {"a", "d"} |-> "CallbackDefault"],
        can_communicate <- [x \in {"p"} \X {"a", "d"} |-> TRUE], Depth <- 2, Remotes <- {"r"},
        DiscoveryLag <- TRUE, PublishersDie <- TRUE, MaxMessages <- 2,
        publishers <- s1, subscriptions <- s2, pub_to_subs <- s3, buffer <- s4, gc <- s5,
        sent <- s6, phase <- s7, todo <- s8, triggering <- s9, inter <- s10, shared_msg <- s11,
        pc <- s12, taken <- s13, network <- s14, known <- s15, delivered <- s16, thrown <- s17

(* Two clients, one answered later, and a middleware that loses nothing. *)
Client == INSTANCE ClientService WITH
        Clients <- {"c", "d"}, Postponed <- {"c"}, Unreliable <- FALSE, Twice <- FALSE,
        Pruning <- FALSE, MaxRequests <- 1, MaxTaken <- 1, MaxTime <- 1,
        next <- s1, sending <- s2, pending <- s3, requests <- s4, deferred <- s5, responses <- s6,
        taken <- s7, handling <- s8, promise <- s9, callbacks <- s10, removed <- s11,
        ignored <- s12, spin <- s13, ok <- s14, now <- s15

(* Callbacks whose handles expire while an event is delivered. *)
Handler == INSTANCE ParameterEventHandler WITH
        Lists <- {"p", "events"}, Handles <- {"f", "g", "h"},
        ListOf <- [f |-> "p", g |-> "p", h |-> "events"], HandlesExpire <- TRUE, MaxEvents <- 2,
        list <- s1, live <- s2, used <- s3, walk <- s4, cursor <- s5, called <- s6, owed <- s7,
        events <- s8

(* A node that waits for a service. *)
Graph == INSTANCE GraphListener WITH
        Nodes <- {"m"}, Sliced <- TRUE, MayShutdown <- TRUE, MayDestroy <- TRUE, MaxWaits <- 2,
        MaxChanges <- 1,
        lpc <- s1, upc <- s2, spc <- s3, barrier <- s4, nodes_mutex <- s5, shutdown_mutex <- s6,
        callbacks_mutex <- s7, graph_mutex <- s8, nodes <- s9, interrupt <- s10, graph_gc <- s11,
        waited <- s12, ready <- s13, visited <- s14, is_started <- s15, is_shutdown <- s16,
        should_add <- s17, event <- s18, expired <- s19, users <- s20, registered <- s21, ok <- s22,
        available <- s23, waits <- s24, changes <- s25

(* Two contexts and two signals. *)
Context == INSTANCE ContextLifecycle WITH
        Contexts <- {"d", "e"}, Default <- "d", Logging <- {"d"}, OnSignal <- {"d", "e"},
        UnknownArgs <- {"e"}, Callbacks <- {}, Hooked <- {}, MaxInits <- 1, MaxSignals <- 2,
        rcl <- s1, reason <- s2, init_mutex <- s3, callbacks <- s4, called <- s5, at <- s6,
        weak <- s7, count <- s8, sleeping <- s9, installed <- s10, setup <- s11, received <- s12,
        sem <- s13, ours <- s14, handler <- s15, dpc <- s16, todo <- s17, inits <- s18,
        signals <- s19

(* A thread that sleeps on the clock of a node. *)
Clock == INSTANCE TimeSource WITH
        Clocks <- {"c"}, Slept <- "c", UseClockThread <- TRUE, MayDelete <- TRUE,
        MayShutdown <- FALSE, MaxTime <- 2, MaxEvents <- 4,
        attached <- s1, active <- s2, time <- s3, ros_time_active <- s4, last <- s5,
        parameter_state <- s6, wanted <- s7, subscribed <- s8, ppc <- s9, cpc <- s10, msg <- s11,
        system <- s12, ok <- s13, sleeper <- s14, switched <- s15, result <- s16, events <- s17

(* The instances satisfy what their modules ask of them. *)
ASSUME
    /\ \A k \in {"single", "multi"} : Exec(k)!ExecutorAssumption
    /\ Assoc!Assumption /\ Fixed!Assumption /\ WaitSets!WaitSetAssumption /\ Intra!Assumption
    /\ Client!ClientAssumption /\ Handler!HandlerAssumption /\ Graph!Assumption /\ Context!Assumption
    /\ Clock!Assumption

-----------------------------------------------------------------------------
ProgressInit ==
    \/ which = "single" /\ Exec("single")!Init /\ FreeFrom(14)
    \/ which = "multi" /\ Exec("multi")!Init /\ FreeFrom(14)
    \/ which = "association" /\ Assoc!Init /\ FreeFrom(21)
    \/ which = "static" /\ Fixed!Init /\ FreeFrom(25)
    \/ which = "wait_set" /\ WaitSets!WaitSetInit /\ FreeFrom(18)
    \/ which = "intra" /\ Intra!Init /\ FreeFrom(18)
    \/ which = "client" /\ Client!ClientInit /\ FreeFrom(16)
    \/ which = "handler" /\ Handler!Init /\ FreeFrom(9)
    \/ which = "graph" /\ Graph!Init /\ FreeFrom(26)
    \/ which = "context" /\ Context!Init /\ FreeFrom(20)
    \/ which = "clock" /\ Clock!Init /\ FreeFrom(18)

ProgressNext ==
    \/ which = "single" /\ Exec("single")!Next /\ StaysFrom(14)
    \/ which = "multi" /\ Exec("multi")!Next /\ StaysFrom(14)
    \/ which = "association" /\ Assoc!Next /\ StaysFrom(21)
    \/ which = "static" /\ Fixed!Next /\ StaysFrom(25)
    \/ which = "wait_set" /\ WaitSets!WaitSetNext /\ StaysFrom(18)
    \/ which = "intra" /\ Intra!Next /\ StaysFrom(18)
    \/ which = "client" /\ Client!ClientNext /\ StaysFrom(16)
    \/ which = "handler" /\ Handler!Next /\ StaysFrom(9)
    \/ which = "graph" /\ Graph!Next /\ StaysFrom(26)
    \/ which = "context" /\ Context!Next /\ StaysFrom(20)
    \/ which = "clock" /\ Clock!Next /\ StaysFrom(18)

(***************************************************************************)
(* Fairness: every thread that can take a step goes on. A behaviour stays  *)
(* with one component, so that a disjunction of actions of different       *)
(* components is as fair to each as a condition of its own would be.       *)
(***************************************************************************)
Service ==
    \/ Client!handle_request
    \/ \E c \in {"c", "d"} : Client!send_response(Client!Header(c, 1))

FirstThread ==
    \/ which = "single" /\ StaysFrom(14) /\ Exec("single")!Run("t")
    \/ which = "multi" /\ StaysFrom(14) /\ Exec("multi")!Run("t")
    \/ which = "association" /\ StaysFrom(21) /\ Assoc!Loop("x")
    \/ which = "static" /\ StaysFrom(25) /\ Fixed!Running
    \/ which = "wait_set" /\ StaysFrom(18) /\ WaitSets!Waiting(1)
    \/ which = "intra" /\ StaysFrom(18) /\ (Intra!Split("p") \/ Intra!Providing("p") \/ Intra!Finish("p"))
    \/ which = "client" /\ StaysFrom(16) /\ Service
    \/ which = "handler" /\ StaysFrom(9) /\ Handler!Walk
    \/ which = "graph" /\ StaysFrom(26) /\ Graph!Listener
    \/ which = "context" /\ StaysFrom(20) /\ Context!Deferred
    \/ which = "clock" /\ StaysFrom(18) /\ Clock!ParameterThread

ClientThread(c) ==
    \/ Client!Record(c) \/ Client!take_response(c)
    \/ Client!get_and_erase_pending_request(c, 1) \/ Client!handle_response(c, 1)

SecondThread ==
    \/ which = "single" /\ StaysFrom(14) /\ Exec("single")!CancelTrigger
    \/ which = "multi" /\ StaysFrom(14) /\ Exec("multi")!Run("u")
    \/ which = "association" /\ StaysFrom(21) /\ Assoc!Spinning("x")
    \/ which = "wait_set" /\ StaysFrom(18) /\ (WaitSets!WriteLock("w1") \/ WaitSets!Write("w1"))
    \/ which = "intra" /\ StaysFrom(18) /\ Intra!Taking("a")
    \/ which = "client" /\ StaysFrom(16) /\ ClientThread("c")
    \/ which = "graph" /\ StaysFrom(26) /\ Graph!Shutter
    \/ which = "context" /\ StaysFrom(20) /\ Context!Continue("d")
    \/ which = "clock" /\ StaysFrom(18) /\ Clock!ClockThread

ThirdThread ==
    \/ which = "intra" /\ StaysFrom(18) /\ Intra!handle_message("a")
    \/ which = "client" /\ StaysFrom(16) /\ ClientThread("d")
    \/ which = "graph" /\ StaysFrom(26) /\ Graph!UserStep("m")
    \/ which = "context" /\ StaysFrom(20) /\ Context!Continue("e")
    \/ which = "clock" /\ StaysFrom(18) /\ Clock!Sleeper

(* The signal handler, and time. *)
Environment ==
    \/ which = "intra" /\ StaysFrom(18) /\ Intra!handle_message("d")
    \/ which = "context" /\ StaysFrom(20) /\ Context!notify_signal_handler
    \/ which = "clock" /\ StaysFrom(18) /\ Clock!Tick

ProgressSpec ==
    /\ ProgressInit /\ [][ProgressNext]_all_vars
    /\ WF_all_vars(FirstThread) /\ WF_all_vars(SecondThread)
    /\ WF_all_vars(ThirdThread) /\ WF_all_vars(Environment)

-----------------------------------------------------------------------------
(* P holds in this state if it is of the component. Where P stays true until Q, or Q is
   true where P is not, the leads-to P ~> Q is stated as []<>Q.                         *)
Of(component, P) == which = component => P

Arrives == which = "multi" /\ \E c \in {"timer", "sub", "service"} : Exec("multi")!Arrive(c)

(* No callback starves: a single-threaded executor takes every ready callback although the
   others become ready again and again, because it serves what an earlier wait has left
   before it waits anew (executor.cpp:991-1008), and several threads run everything that is
   ready once nothing new arrives, whatever group keeps some of them from it. *)
CallbacksServed ==
    /\ \A c \in {"timer", "sub", "client", "waitable"} : []<>Of("single", ~Exec("single")!Waits(c))
    /\ <>[][~Arrives]_all_vars => <>[]Of("multi", \A c \in {"timer", "sub", "service"} :
                                                     ~Exec("multi")!Waits(c))

(* What is added to a callback group while the executor sleeps is waited for: the group's
   guard condition wakes the executor, which collects its entities anew (executor.cpp:225,
   callback_group.cpp:132); and the static executor takes every message of the
   subscriptions that it serves (static_single_threaded_executor.cpp:135-184). *)
EntitiesCollected ==
    /\ \A g \in {"g", "h"} : (which = "association" /\ Assoc!Added("x", g, "timer"))
                               ~> Of("association", Assoc!Collected("x", g, "timer"))
    /\ \A g \in {"f", "g"} : []<>Of("static", ~Fixed!HasMessage(g))

(* A thread that wants to change a wait set gets the lock although another waits on the set
   again and again (write_preferring_read_write_lock.cpp), and neither the interruptions
   that this takes nor the changes swallow the trigger of a guard condition
   (thread_safe_synchronization.hpp:232-315). *)
LocksProgress ==
    /\ []<>Of("wait_set", ~WaitSets!Queued("w1"))
    /\ (which = "wait_set" /\ WaitSets!Triggered(1, "g")) ~> Of("wait_set", WaitSets!ToldUser(1, "g"))

(* Nothing that was sent is left lying: a buffered intra-process message is taken although
   one guard condition stands for several (subscription_intra_process.hpp), a request is
   answered over a reliable middleware (client.hpp, service.hpp), and the walk over the
   parameter callbacks ends although handles expire during it
   (parameter_event_handler.cpp:176-213). *)
MessagesProgress ==
    /\ []<>Of("intra", Intra!Took("a"))
    /\ \A c \in {"c", "d"} : []<>Of("client", ~Client!Unanswered(c, 1))
    /\ []<>Of("handler", ~Handler!Walking)

(* Whoever waits is released: wait_for_service when the service is there or the context is
   shut down, the shutdown by the graph listener that sleeps with a mutex held
   (graph_listener.cpp), a context by the signal that asks for its shutdown and the
   uninstallation of the signal handlers by the thread it joins (signal_handler.cpp), and a
   sleep on a clock by the time it waits for (clock.cpp:77-152). *)
WaitsEnd ==
    /\ []<>Of("graph", Graph!NotWaiting("m")) \/ <>[]Of("graph", Graph!NoService)
    /\ []<>Of("graph", Graph!ShutdownBegun => Graph!ShutdownDone)
    /\ \A c \in {"d", "e"} :
         (which = "context" /\ Context!Signalled(c)) ~> Of("context", Context!Obeyed(c))
    /\ []<>Of("context", ~Context!Uninstalling)
    /\ []<>Of("clock", ~Clock!Asleep \/ Clock!TooEarly)
=============================================================================
