---------------------------- MODULE ContextLifecycle ----------------------------
(***************************************************************************)
(* Context::init and Context::shutdown, the process-wide list of contexts   *)
(* and count of logging users, shutdown callbacks and sleep_for; and the     *)
(* SignalHandler, whose deferred thread shuts contexts down when a signal    *)
(* arrives, installed by rclcpp::init and uninstalled by rclcpp::shutdown.   *)
(* A thread per context uses it; the default context's thread is the one     *)
(* that calls rclcpp::init and rclcpp::shutdown.                             *)
(***************************************************************************)
EXTENDS Integers, FiniteSets

CONSTANTS Contexts,
          Default,      \* get_global_default_context
          Logging,      \* contexts whose init options initialize logging
          OnSignal,     \* contexts whose init options have shutdown_on_signal
          UnknownArgs,  \* contexts that may be given ROS arguments nobody knows
          Callbacks,
          Hooked,       \* contexts with shutdown callbacks and threads in sleep_for
          MaxInits,     \* bound on the inits of a context
          MaxSignals    \* bound on the signals delivered

D == "deferred"
Nobody == "nobody"
Threads == Contexts \cup {D}
Kinds == {"pre_shutdown", "on_shutdown"}

Assumption ==
    /\ Default \in Contexts /\ {D, Nobody} \cap Contexts = {}
    /\ Logging \subseteq Contexts /\ OnSignal \subseteq Contexts /\ UnknownArgs \subseteq Contexts
    /\ Hooked \subseteq Contexts
    /\ MaxInits \in Nat /\ MaxSignals \in Nat

VARIABLES
    rcl,        \* rcl_context_: none, valid or shut
    reason,     \* shutdown_reason_
    init_mutex, \* holder of init_mutex_
    callbacks,  \* pre_shutdown_callbacks_ and on_shutdown_callbacks_
    called,     \* how often a callback was called since the context was initialized
    at,         \* where a thread is: [pc, context]
    weak,       \* weak_contexts_
    count,      \* get_logging_reference_count()
    sleeping,   \* contexts in whose sleep_for a thread blocks
    installed, setup, received, sem,    \* installed_, wait_for_signal_is_setup_, signal_received_, the semaphore
    ours,       \* whether the process's handler is signal_handler
    handler,    \* whether a signal_handler is between setting the flag and posting
    dpc, todo,  \* the deferred thread, and the contexts it still looks at
    inits, signals

vars == <<rcl, reason, init_mutex, callbacks, called, at, weak, count, sleeping, installed, setup, received,
          sem, ours, handler, dpc, todo, inits, signals>>
signalVars == <<installed, setup, received, sem, ours, handler, dpc, todo, signals>>
contextVars == <<rcl, reason, init_mutex, callbacks, called, weak, count, sleeping, inits>>

At(pc, c) == [pc |-> pc, context |-> c]
NotCalled == [k \in Kinds |-> [b \in Callbacks |-> 0]]

Init ==
    /\ rcl = [c \in Contexts |-> "none"] /\ reason = [c \in Contexts |-> ""]
    /\ init_mutex = [c \in Contexts |-> Nobody]
    /\ callbacks = [c \in Contexts |-> [k \in Kinds |-> {}]]
    /\ called = [c \in Contexts |-> NotCalled]
    /\ at = [t \in Threads |-> At("idle", Default)]
    /\ weak = {} /\ count = 0 /\ sleeping = {}
    /\ installed = FALSE /\ setup = FALSE /\ received = FALSE /\ sem = 0
    /\ ours = FALSE /\ handler = FALSE /\ dpc = "off" /\ todo = {}
    /\ inits = [c \in Contexts |-> 0] /\ signals = 0

is_valid(c) == rcl[c] = "valid"

-----------------------------------------------------------------------------
(* Context::init up to the parsed arguments: what the context held before is cleaned
   up, and logging configured or counted. *)
init(c) ==
    /\ at[c].pc = "idle" /\ init_mutex[c] = Nobody /\ ~is_valid(c) /\ inits[c] < MaxInits
    /\ inits' = [inits EXCEPT ![c] = @ + 1]
    /\ rcl' = [rcl EXCEPT ![c] = "valid"] /\ reason' = [reason EXCEPT ![c] = ""]
    /\ called' = [called EXCEPT ![c] = NotCalled]
    /\ count' = IF c \in Logging THEN count + 1 ELSE count
    /\ init_mutex' = [init_mutex EXCEPT ![c] = c]
    /\ at' = [at EXCEPT ![c] = At("initialized", c)]
    /\ UNCHANGED <<callbacks, weak, sleeping, signalVars>>

(* The rest of init: the context is listed.  rclcpp::init goes on to install. *)
add_context(c) ==
    /\ at[c].pc = "initialized"
    /\ weak' = weak \cup {c}
    /\ init_mutex' = [init_mutex EXCEPT ![c] = Nobody]
    /\ at' = [at EXCEPT ![c] = At(IF c = Default THEN "install" ELSE "idle", c)]
    /\ UNCHANGED <<rcl, reason, callbacks, called, count, sleeping, inits, signalVars>>

(* The rest of init when arguments are left that look like ROS arguments: it throws. *)
UnknownROSArgs(c) ==
    /\ at[c].pc = "initialized" /\ c \in UnknownArgs
    /\ rcl' = [rcl EXCEPT ![c] = "none"]
    /\ init_mutex' = [init_mutex EXCEPT ![c] = Nobody]
    /\ at' = [at EXCEPT ![c] = At("idle", c)]
    /\ UNCHANGED <<reason, callbacks, called, weak, count, sleeping, inits, signalVars>>

-----------------------------------------------------------------------------
(* What thread t does when shutdown of c returns: the deferred thread goes on with the
   next context, rclcpp::shutdown of the default context with uninstall. *)
AfterShutdown(t, c) ==
    At(IF t = Default /\ c = Default THEN "uninstall" ELSE "idle", c)

ShutdownWanted(t, c) ==
    /\ at[t].pc = "idle"
    /\ IF t = D THEN c \in todo /\ c \in OnSignal ELSE t = c

shutdown_CheckedUnlocked(t, c) ==
    /\ ShutdownWanted(t, c) /\ is_valid(c)
    /\ at' = [at EXCEPT ![t] = At("pre", c)] /\ UNCHANGED init_mutex
    /\ todo' = IF t = D THEN todo \ {c} ELSE todo
    /\ UNCHANGED <<rcl, reason, callbacks, called, weak, count, sleeping, inits, installed, setup, received,
                   sem, ours, handler, dpc, signals>>

(* Context::shutdown takes init_mutex_, and returns false if the context is not valid. *)
shutdown(t, c) ==
    /\ ShutdownWanted(t, c) /\ init_mutex[c] = Nobody
    /\ IF is_valid(c)
       THEN /\ at' = [at EXCEPT ![t] = At("pre", c)]
            /\ init_mutex' = [init_mutex EXCEPT ![c] = t]
       ELSE at' = [at EXCEPT ![t] = AfterShutdown(t, c)] /\ UNCHANGED init_mutex
    /\ todo' = IF t = D THEN todo \ {c} ELSE todo
    /\ UNCHANGED <<rcl, reason, callbacks, called, weak, count, sleeping, inits, installed, setup, received,
                   sem, ours, handler, dpc, signals>>

Call(c, k) == called' = [called EXCEPT ![c][k] =
                  [b \in Callbacks |-> IF b \in callbacks[c][k] THEN @[b] + 1 ELSE @[b]]]

ShutdownStep(t, from, to) ==
    at[t].pc = from /\ at' = [at EXCEPT ![t].pc = to]

(* The pre-shutdown callbacks, under their mutex. *)
RunPreShutdown(t) ==
    /\ ShutdownStep(t, "pre", "rcl")
    /\ Call(at[t].context, "pre_shutdown")
    /\ UNCHANGED <<rcl, reason, init_mutex, callbacks, weak, count, sleeping, inits, signalVars>>

RclShutdown(t) ==
    /\ ShutdownStep(t, "rcl", "on")
    /\ rcl' = [rcl EXCEPT ![at[t].context] = "shut"]
    /\ reason' = [reason EXCEPT ![at[t].context] = IF t = D THEN "signal handler" ELSE "user"]
    /\ UNCHANGED <<init_mutex, callbacks, called, weak, count, sleeping, inits, signalVars>>

RunOnShutdown(t) ==
    /\ ShutdownStep(t, "on", "finish")
    /\ Call(at[t].context, "on_shutdown")
    /\ UNCHANGED <<rcl, reason, init_mutex, callbacks, weak, count, sleeping, inits, signalVars>>

(* interrupt_all_sleep_for, remove_context and the count of logging users. *)
FinishShutdown(t) ==
    LET c == at[t].context
    IN /\ at[t].pc = "finish"
       /\ sleeping' = sleeping \ {c}
       /\ weak' = weak \ {c}
       /\ count' = IF c \in Logging THEN count - 1 ELSE count
       /\ init_mutex' = [init_mutex EXCEPT ![c] = Nobody]
       /\ at' = [at EXCEPT ![t] = AfterShutdown(t, c)]
       /\ UNCHANGED <<rcl, reason, callbacks, called, inits, signalVars>>

ShutdownSteps(t) == RunPreShutdown(t) \/ RclShutdown(t) \/ RunOnShutdown(t) \/ FinishShutdown(t)

-----------------------------------------------------------------------------
(* Callbacks come and go under the mutex of their list, from any thread. *)
add_shutdown_callback(c, k, b) ==
    /\ b \notin callbacks[c][k]
    /\ callbacks' = [callbacks EXCEPT ![c][k] = @ \cup {b}]
    /\ UNCHANGED <<rcl, reason, init_mutex, called, at, weak, count, sleeping, inits, signalVars>>

remove_shutdown_callback(c, k, b) ==
    /\ b \in callbacks[c][k]
    /\ callbacks' = [callbacks EXCEPT ![c][k] = @ \ {b}]
    /\ UNCHANGED <<rcl, reason, init_mutex, called, at, weak, count, sleeping, inits, signalVars>>

(* sleep_for blocks without testing whether the context is still valid. *)
sleep_for(c) ==
    /\ c \notin sleeping
    /\ sleeping' = sleeping \cup {c}
    /\ UNCHANGED <<rcl, reason, init_mutex, callbacks, called, at, weak, count, inits, signalVars>>

(* The time of a sleep_for passes. *)
SleepTimesOut(c) ==
    /\ c \in sleeping
    /\ sleeping' = sleeping \ {c}
    /\ UNCHANGED <<rcl, reason, init_mutex, callbacks, called, at, weak, count, inits, signalVars>>

-----------------------------------------------------------------------------
(* SignalHandler::install: one that is already installed stays. *)
install ==
    /\ at[Default].pc = "install"
    /\ IF installed
       THEN at' = [at EXCEPT ![Default].pc = "idle"] /\ UNCHANGED <<installed, setup, sem, received>>
       ELSE /\ at' = [at EXCEPT ![Default].pc = "handlers"]
            /\ installed' = TRUE /\ setup' = TRUE /\ sem' = 0 /\ received' = FALSE
    /\ UNCHANGED <<contextVars, ours, handler, dpc, todo, signals>>

InstallHandlers ==
    /\ at[Default].pc = "handlers" /\ at' = [at EXCEPT ![Default].pc = "thread"]
    /\ ours' = TRUE
    /\ UNCHANGED <<contextVars, installed, setup, received, sem, handler, dpc, todo, signals>>

StartDeferred ==
    /\ at[Default].pc = "thread" /\ at' = [at EXCEPT ![Default].pc = "idle"]
    /\ dpc' = "top"
    /\ UNCHANGED <<contextVars, installed, setup, received, sem, ours, handler, todo, signals>>

uninstall_NoNotify ==
    /\ at[Default].pc = "uninstall"
    /\ at' = [at EXCEPT ![Default].pc = IF installed THEN "join" ELSE "idle"]
    /\ installed' = FALSE /\ ours' = FALSE /\ UNCHANGED sem
    /\ UNCHANGED <<contextVars, setup, received, handler, dpc, todo, signals>>

(* SignalHandler::uninstall: the old handlers are restored and the thread notified. *)
uninstall ==
    /\ at[Default].pc = "uninstall"
    /\ at' = [at EXCEPT ![Default].pc = IF installed THEN "join" ELSE "idle"]
    /\ installed' = FALSE /\ ours' = FALSE
    /\ sem' = IF installed THEN sem + 1 ELSE sem
    /\ UNCHANGED <<contextVars, setup, received, handler, dpc, todo, signals>>

UninstallJoin ==
    /\ at[Default].pc = "join" /\ dpc = "off"
    /\ at' = [at EXCEPT ![Default].pc = "idle"]
    /\ setup' = FALSE
    /\ UNCHANGED <<contextVars, installed, received, sem, ours, handler, dpc, todo, signals>>

(* A signal arrives: signal_handler sets the flag, then notifies if set up. *)
signal_handler ==
    /\ ours /\ ~handler /\ signals < MaxSignals
    /\ signals' = signals + 1 /\ received' = TRUE /\ handler' = TRUE
    /\ UNCHANGED <<contextVars, at, installed, setup, sem, ours, dpc, todo>>

notify_signal_handler ==
    /\ handler /\ handler' = FALSE
    /\ sem' = IF setup THEN sem + 1 ELSE sem
    /\ UNCHANGED <<contextVars, at, installed, setup, received, ours, dpc, todo, signals>>

(* deferred_signal_handler: the flag is taken, then the contexts are listed. *)
DeferredTop ==
    /\ dpc = "top"
    /\ dpc' = IF received THEN "contexts" ELSE "check"
    /\ todo' = IF received THEN weak ELSE {}
    /\ received' = FALSE
    /\ UNCHANGED <<contextVars, at, installed, setup, sem, ours, handler, signals>>

(* A context that does not want to be shut down on a signal is passed over. *)
DeferredNext ==
    /\ dpc = "contexts" /\ at[D].pc = "idle" /\ todo \cap OnSignal = {}
    /\ dpc' = "check" /\ todo' = {}
    /\ UNCHANGED <<contextVars, at, installed, setup, received, sem, ours, handler, signals>>

DeferredCheck ==
    /\ dpc = "check"
    /\ dpc' = IF installed THEN "wait" ELSE "off"
    /\ UNCHANGED <<contextVars, at, installed, setup, received, sem, ours, handler, todo, signals>>

wait_for_signal ==
    /\ dpc = "wait" /\ sem > 0
    /\ sem' = sem - 1 /\ dpc' = "top"
    /\ UNCHANGED <<contextVars, at, installed, setup, received, ours, handler, todo, signals>>

Deferred ==
    \/ DeferredTop \/ DeferredNext \/ DeferredCheck \/ wait_for_signal
    \/ \E c \in Contexts : shutdown(D, c)
    \/ ShutdownSteps(D)

(* The steps of a thread that has begun to initialize, shut down, install or uninstall. *)
Continue(c) ==
    \/ add_context(c) \/ UnknownROSArgs(c) \/ ShutdownSteps(c)
    \/ c = Default /\ (install \/ InstallHandlers \/ StartDeferred \/ uninstall \/ UninstallJoin)

Next ==
    \/ Deferred \/ signal_handler \/ notify_signal_handler
    \/ \E c \in Contexts : init(c) \/ shutdown(c, c) \/ Continue(c)
    \/ \E c \in Hooked : sleep_for(c) \/ SleepTimesOut(c)
    \/ \E c \in Hooked, k \in Kinds, b \in Callbacks :
           add_shutdown_callback(c, k, b) \/ remove_shutdown_callback(c, k, b)

Spec == Init /\ [][Next]_vars

Fairness ==
    /\ WF_vars(Deferred) /\ WF_vars(notify_signal_handler)
    /\ \A c \in Contexts : WF_vars(Continue(c))

FairSpec == Spec /\ Fairness

-----------------------------------------------------------------------------
(* The shapes of the state; init_mutex_ is held exactly by a thread inside init or
   shutdown of that context. *)
ContextTypeOK ==
    /\ \A c \in Contexts : rcl[c] \in {"none", "valid", "shut"}
    /\ \A c \in Contexts, t \in Threads :
          (init_mutex[c] = t) <=>
          at[t].context = c /\ at[t].pc \in {"initialized", "pre", "rcl", "on", "finish"}
    /\ weak \subseteq Contexts /\ sleeping \subseteq Contexts /\ count \in Int /\ sem \in Nat
    /\ dpc \in {"off", "top", "contexts", "check", "wait"}

(* However many threads shut a context down, and however signals race with the user,
   each shutdown callback is called at most once until the context is initialized anew. *)
CalledOncePerLife ==
    \A c \in Contexts, k \in Kinds, b \in Callbacks : called[c][k][b] <= 1

(* The process-wide list of contexts and the count of logging users agree with the
   contexts themselves whenever no init or shutdown is under way. *)
GlobalsMatch ==
    (\A c \in Contexts : init_mutex[c] = Nobody) =>
        /\ weak = {c \in Contexts : is_valid(c)}
        /\ count = Cardinality(weak \cap Logging)

Signalled(c) == received /\ c \in weak /\ installed
Obeyed(c) == c \notin weak \/ ~installed

Uninstalling == at[Default].pc \in {"uninstall", "join"}

=============================================================================
