------------------------------ MODULE Executor ------------------------------
(***************************************************************************)
(* The rclcpp executors that take ready callbacks out of the shared        *)
(* AllocatorMemoryStrategy: MultiThreadedExecutor::run and                 *)
(* SingleThreadedExecutor::spin over Executor::get_next_executable,        *)
(* wait_for_work and execute_any_executable, with and without the PiCAS    *)
(* priority-driven selection (callback_priority_enabled).                  *)
(*                                                                         *)
(* A callback is one timer, subscription, service, client or waitable.     *)
(* The middleware is external: pending[c] says that rcl_wait would report  *)
(* c as ready (the timer is due, the subscription holds a message, ...).   *)
(***************************************************************************)
EXTENDS Integers, FiniteSets

CONSTANTS
    Threads,                    \* the threads that execute run()
    Callbacks,                  \* every entity of every callback group
    Groups,                     \* callback groups
    MutuallyExclusive,          \* the groups of that CallbackGroupType
    Kind,                       \* Callbacks -> Kinds
    Group,                      \* Callbacks -> Groups
    Priority,                   \* Callbacks -> Int, callback_priority
    callback_priority_enabled,  \* PiCAS selection on or off
    MultiThreaded,              \* MultiThreadedExecutor or SingleThreadedExecutor
    Cancellable,                \* somebody may call cancel()
    TimedWait,                  \* wait_for_work has a finite timeout
    None

Kinds == {"timer", "subscription", "service", "client", "waitable"}

ASSUME ExecutorAssumption ==
    /\ MutuallyExclusive \subseteq Groups
    /\ Kind \in [Callbacks -> Kinds]
    /\ Group \in [Callbacks -> Groups]
    /\ Priority \in [Callbacks -> Int]
    /\ {callback_priority_enabled, MultiThreaded, Cancellable, TimedWait} \subseteq BOOLEAN
    /\ ~MultiThreaded => \A t, u \in Threads : t = u
    /\ None \notin Threads \cup Callbacks \cup Groups

VARIABLES
    pc,                 \* where each thread is in run()
    wait_mutex,         \* holder of MultiThreadedExecutor::wait_mutex_, or None
    spinning,           \* Executor::spinning
    cancelling,         \* a cancel() has cleared spinning and not yet triggered
    handles,            \* the five *_handles_ vectors of the memory strategy
    can_be_taken_from,  \* CallbackGroup::can_be_taken_from_
    exec,               \* the callback any_exec points to, per thread
    group,              \* any_exec.callback_group, per thread
    waited,             \* get_next_executable is past wait_for_work
    guard,              \* interrupt_guard_condition_ is triggered
    pending,            \* what rcl_wait would find ready
    called,             \* history: timers a thread has called and not started, per thread
    offered             \* history: ready and takeable when the last wait returned

vars == <<pc, wait_mutex, spinning, cancelling, handles, can_be_taken_from, exec,
          group, waited, guard, pending, called, offered>>

(* The order in which get_next_ready_executable_from_map asks for the five kinds. *)
Scan == {"get_next_timer", "get_next_subscription", "get_next_service",
         "get_next_client", "get_next_waitable"}

KindAt(l) == CASE l = "get_next_timer"        -> "timer"
               [] l = "get_next_subscription" -> "subscription"
               [] l = "get_next_service"      -> "service"
               [] l = "get_next_client"       -> "client"
               [] OTHER                       -> "waitable"

After(l) == CASE l = "get_next_timer"        -> "get_next_subscription"
              [] l = "get_next_subscription" -> "get_next_service"
              [] l = "get_next_service"      -> "get_next_client"
              [] l = "get_next_client"       -> "get_next_waitable"
              [] OTHER                       -> "scanned"

Labels == Scan \cup {"idle", "loop", "lock", "collect", "wait", "woken", "scanned",
                     "mark", "taken", "running", "release", "trigger", "end", "discard"}

(* Between locking and unlocking wait_mutex_ in run(). *)
Locked == Scan \cup {"collect", "wait", "woken", "scanned", "mark"}

(* any_exec was handed out by get_next_executable and its group not yet released. *)
Holding == {"taken", "running", "release"}

Timers == {c \in Callbacks : Kind[c] = "timer"}
Waitables == {c \in Callbacks : Kind[c] = "waitable"}

TypeOK ==
    /\ pc \in [Threads -> Labels]
    /\ wait_mutex \in Threads \cup {None}
    /\ spinning \in BOOLEAN
    /\ cancelling \in BOOLEAN
    /\ handles \in SUBSET Callbacks
    /\ can_be_taken_from \in [Groups -> BOOLEAN]
    /\ exec \in [Threads -> Callbacks \cup {None}]
    /\ group \in [Threads -> Groups \cup {None}]
    /\ waited \in BOOLEAN
    /\ guard \in BOOLEAN
    /\ pending \in [Callbacks -> BOOLEAN]
    /\ called \in [Threads -> SUBSET Callbacks]
    /\ offered \in SUBSET Callbacks
    /\ \A t \in Threads : wait_mutex = t <=> pc[t] \in Locked

Init ==
    /\ pc = [t \in Threads |-> "idle"]
    /\ wait_mutex = None
    /\ spinning = FALSE
    /\ cancelling = FALSE
    /\ handles = {}
    /\ can_be_taken_from = [g \in Groups |-> TRUE]
    /\ exec = [t \in Threads |-> None]
    /\ group = [t \in Threads |-> None]
    /\ waited = FALSE
    /\ guard = FALSE
    /\ pending = [c \in Callbacks |-> FALSE]
    /\ called = [t \in Threads |-> {}]
    /\ offered = {}

Goto(t, l) == pc' = [pc EXCEPT ![t] = l]

(* GuardCondition::trigger() on interrupt_guard_condition_: wakes a pending or *)
(* the next rcl_wait.                                                          *)
Trigger_Dropped == UNCHANGED guard
Trigger == guard' = TRUE

(* The end of a lock_guard on wait_mutex_. *)
Unlock_Forgotten == UNCHANGED wait_mutex
Unlock == wait_mutex' = None

(* collect_entities: everything in the groups that are not in use. *)
CollectedHandles_NoWaitables ==
    {c \in Callbacks : can_be_taken_from[Group[c]] /\ Kind[c] # "waitable"}
CollectedHandles == {c \in Callbacks : can_be_taken_from[Group[c]]}

(* remove_null_handles: what rcl_wait reported as ready. *)
ReadyHandles == {c \in handles : pending[c]}

(* The groups' flags once g is marked as in use ... *)
WithBusy_NotMarked(g) == can_be_taken_from
WithBusy(g) == IF g \in MutuallyExclusive
               THEN [can_be_taken_from EXCEPT ![g] = FALSE]
               ELSE can_be_taken_from

(* ... and once the group of an AnyExecutable, if it has one, is free again. *)
WithFree(g) == IF g = None THEN can_be_taken_from
               ELSE [can_be_taken_from EXCEPT ![g] = TRUE]

-----------------------------------------------------------------------------
(* The middleware and the clock: a message arrives, a timer becomes due. *)
Arrive(c) ==
    /\ ~pending[c]
    /\ pending' = [pending EXCEPT ![c] = TRUE]
    /\ UNCHANGED <<pc, wait_mutex, spinning, cancelling, handles, can_be_taken_from,
                   exec, group, waited, guard, called, offered>>

(* spin(): starts every thread once the previous spin() has joined them all. *)
Spin ==
    /\ ~spinning
    /\ \A t \in Threads : pc[t] = "idle"
    /\ spinning' = TRUE
    /\ pc' = [t \in Threads |-> "loop"]
    /\ UNCHANGED <<wait_mutex, cancelling, handles, can_be_taken_from, exec, group,
                   waited, guard, pending, called, offered>>

(* cancel() stores FALSE into spinning, then triggers the interrupt guard condition. *)
CancelStore ==
    /\ Cancellable
    /\ spinning
    /\ ~cancelling
    /\ spinning' = FALSE
    /\ cancelling' = TRUE
    /\ UNCHANGED <<pc, wait_mutex, handles, can_be_taken_from, exec, group, waited,
                   guard, pending, called, offered>>

CancelTrigger ==
    /\ cancelling
    /\ cancelling' = FALSE
    /\ Trigger
    /\ UNCHANGED <<pc, wait_mutex, spinning, handles, can_be_taken_from, exec, group,
                   waited, pending, called, offered>>

-----------------------------------------------------------------------------
(* The condition of run()'s while loop, and a fresh AnyExecutable. *)
WhileSpinning(t) ==
    /\ pc[t] = "loop"
    /\ Goto(t, IF spinning THEN "lock" ELSE "idle")
    /\ UNCHANGED <<wait_mutex, spinning, cancelling, handles, can_be_taken_from, exec,
                   group, waited, guard, pending, called, offered>>

(* Locks wait_mutex_ and enters get_next_executable, unless spinning was cleared. *)
(* PiCAS never serves the handles a former wait left over.                       *)
LockWaitMutex(t) ==
    /\ pc[t] = "lock"
    /\ wait_mutex = None
    /\ IF spinning
       THEN /\ wait_mutex' = t
            /\ waited' = FALSE
            /\ Goto(t, IF callback_priority_enabled THEN "collect" ELSE "get_next_timer")
       ELSE /\ Goto(t, "idle")
            /\ UNCHANGED <<wait_mutex, waited>>
    /\ UNCHANGED <<spinning, cancelling, handles, can_be_taken_from, exec, group,
                   guard, pending, called, offered>>

(* wait_for_work up to rcl_wait: clear_handles, collect_entities (busy groups are *)
(* skipped), add_handles_to_wait_set.                                             *)
CollectEntities(t) ==
    /\ pc[t] = "collect"
    /\ handles' = CollectedHandles
    /\ Goto(t, "wait")
    /\ UNCHANGED <<wait_mutex, spinning, cancelling, can_be_taken_from, exec, group,
                   waited, guard, pending, called, offered>>

(* rcl_wait returns: an entity of the wait set is ready, a guard condition was *)
(* triggered (rcl_wait resets it), or the timeout expired. remove_null_handles *)
(* keeps the ready handles.                                                    *)
RclWait(t) ==
    /\ pc[t] = "wait"
    /\ \/ \E c \in handles : pending[c]
       \/ guard
       \/ TimedWait
    /\ handles' = ReadyHandles
    /\ guard' = FALSE
    /\ waited' = TRUE
    /\ offered' = {c \in handles' : can_be_taken_from[Group[c]]}
    /\ Goto(t, "woken")
    /\ UNCHANGED <<wait_mutex, spinning, cancelling, can_be_taken_from, exec, group,
                   pending, called>>

(* get_next_executable gives up after the wait when spinning was cleared. *)
CheckSpinning(t) ==
    /\ pc[t] = "woken"
    /\ IF spinning
       THEN /\ Goto(t, "get_next_timer")
            /\ UNCHANGED wait_mutex
       ELSE /\ Goto(t, "discard")
            /\ Unlock
    /\ UNCHANGED <<spinning, cancelling, handles, can_be_taken_from, exec, group,
                   waited, guard, pending, called, offered>>

-----------------------------------------------------------------------------
(* The handles one get_next_<kind> may take: their group is not in use. *)
Takeable_BusyToo(l) == {c \in handles : Kind[c] = KindAt(l)}
Takeable(l) == {c \in handles : Kind[c] = KindAt(l) /\ can_be_taken_from[Group[c]]}

(* Selecting the callbacks of S: timer->call() re-arms the timers, take_data() *)
(* empties the waitables. The other kinds take their message when they run.    *)
Consume(t, S) ==
    /\ pending' = [c \in Callbacks |-> pending[c] /\ c \notin S]
    /\ called' = [called EXCEPT ![t] = @ \cup (S \cap Timers)]

(* Erasing the handle that is taken. *)
Erase_Kept(c) == handles
Erase(c) == handles \ {c}

(* rclcpp's own order: the first takeable handle of the first kind that has one *)
(* is erased and ends the search.                                               *)
TakeDefault(t, c) ==
    /\ pc[t] \in Scan
    /\ c \in Takeable(pc[t])
    /\ exec' = [exec EXCEPT ![t] = c]
    /\ group' = [group EXCEPT ![t] = Group[c]]
    /\ handles' = Erase(c)
    /\ Consume(t, {c} \cap (Timers \cup Waitables))
    /\ Goto(t, "mark")
    /\ UNCHANGED <<wait_mutex, spinning, cancelling, can_be_taken_from, waited, guard,
                   offered>>

(* No handle of this kind is takeable: the next kind is asked. *)
SkipKind(t) ==
    /\ pc[t] \in Scan
    /\ Takeable(pc[t]) = {}
    /\ Goto(t, After(pc[t]))
    /\ UNCHANGED <<wait_mutex, spinning, cancelling, handles, can_be_taken_from, exec,
                   group, waited, guard, pending, called, offered>>

Highest(S) == {c \in S : \A d \in S : Priority[d] <= Priority[c]}

(* highest_priority of get_next_ready_executable_from_map. *)
HighestSoFar(t) == IF exec[t] = None THEN -1 ELSE Priority[exec[t]]

(* The best of the kind being asked for displaces the executable found so far. *)
(* Timers come first and are not compared.                                     *)
Outranks(t, best) == pc[t] = "get_next_timer" \/ HighestSoFar(t) < Priority[best]

(* PiCAS selection: every takeable handle is erased and every takeable timer  *)
(* called; any_exec.callback_group becomes the group of the best of this kind *)
(* even when that callback does not displace the one found so far.            *)
TakePicas(t, best) ==
    /\ pc[t] \in Scan
    /\ LET found == Takeable(pc[t])
           winner == IF Outranks(t, best) THEN best ELSE exec[t] IN
       /\ best \in Highest(found)
       /\ exec' = [exec EXCEPT ![t] = winner]
       /\ group' = [group EXCEPT ![t] = Group[best]]
       /\ handles' = handles \ found
       /\ Consume(t, (found \cap Timers) \cup ({winner} \cap found \cap Waitables))
    /\ Goto(t, After(pc[t]))
    /\ UNCHANGED <<wait_mutex, spinning, cancelling, can_be_taken_from, waited, guard,
                   offered>>

(* get_next_ready_executable_from_map finds a takeable handle of the kind it asks for. *)
TakeNext(t, c) == IF callback_priority_enabled THEN TakePicas(t, c) ELSE TakeDefault(t, c)

(* All five kinds were asked. PiCAS succeeds when the best priority is not     *)
(* negative. A first, failed attempt goes on to wait_for_work; a failed second *)
(* one unlocks wait_mutex_ and leaves any_exec to its destructor.              *)
Scanned(t) ==
    /\ pc[t] = "scanned"
    /\ IF callback_priority_enabled /\ HighestSoFar(t) >= 0
       THEN /\ Goto(t, "mark")
            /\ UNCHANGED wait_mutex
       ELSE IF waited
            THEN /\ Goto(t, "discard")
                 /\ Unlock
            ELSE /\ Goto(t, "collect")
                 /\ UNCHANGED wait_mutex
    /\ UNCHANGED <<spinning, cancelling, handles, can_be_taken_from, exec, group,
                   waited, guard, pending, called, offered>>

(* Marks a mutually exclusive any_exec.callback_group as in use; run() then *)
(* unlocks wait_mutex_.                                                     *)
MarkGroup(t) ==
    /\ pc[t] = "mark"
    /\ can_be_taken_from' = WithBusy(group[t])
    /\ Unlock
    /\ Goto(t, "taken")
    /\ UNCHANGED <<spinning, cancelling, handles, exec, group, waited, guard, pending,
                   called, offered>>

-----------------------------------------------------------------------------
(* The call() of exec[t] is accounted for: its callback starts or is discarded. *)
SettleTimer(t) == called' = [called EXCEPT ![t] = @ \ {exec[t]}]

(* execute_any_executable returns at once when spinning was cleared. *)
ReturnCancelled(t) ==
    /\ pc[t] = "taken"
    /\ ~spinning
    /\ SettleTimer(t)
    /\ Goto(t, "end")
    /\ UNCHANGED <<wait_mutex, spinning, cancelling, handles, can_be_taken_from, exec,
                   group, waited, guard, pending, offered>>

(* A timer or waitable callback starts; a subscription, service or client takes *)
(* its message first and is skipped when another thread took it already.        *)
StartCallback(t) ==
    /\ pc[t] = "taken"
    /\ spinning
    /\ SettleTimer(t)
    /\ IF Kind[exec[t]] \in {"timer", "waitable"}
       THEN /\ Goto(t, "running")
            /\ UNCHANGED pending
       ELSE /\ Goto(t, IF pending[exec[t]] THEN "running" ELSE "release")
            /\ pending' = [pending EXCEPT ![exec[t]] = FALSE]
    /\ UNCHANGED <<wait_mutex, spinning, cancelling, handles, can_be_taken_from, exec,
                   group, waited, guard, offered>>

FinishCallback(t) ==
    /\ pc[t] = "running"
    /\ Goto(t, "release")
    /\ UNCHANGED <<wait_mutex, spinning, cancelling, handles, can_be_taken_from, exec,
                   group, waited, guard, pending, called, offered>>

ReleaseGroup(t) ==
    /\ pc[t] = "release"
    /\ can_be_taken_from' = WithFree(group[t])
    /\ Goto(t, "trigger")
    /\ UNCHANGED <<wait_mutex, spinning, cancelling, handles, exec, group, waited,
                   guard, pending, called, offered>>

TriggerInterrupt(t) ==
    /\ pc[t] = "trigger"
    /\ Trigger
    /\ Goto(t, "end")
    /\ UNCHANGED <<wait_mutex, spinning, cancelling, handles, can_be_taken_from, exec,
                   group, waited, pending, called, offered>>

(* The group any_exec still has when it goes out of scope: the multi-threaded *)
(* run() resets callback_group after execute_any_executable.                   *)
GroupAtExit(t) == IF pc[t] = "end" /\ MultiThreaded THEN None ELSE group[t]

(* ~AnyExecutable frees that group, and the loop starts over. *)
DestroyAnyExec(t) ==
    /\ pc[t] \in {"end", "discard"}
    /\ can_be_taken_from' = WithFree(GroupAtExit(t))
    /\ exec' = [exec EXCEPT ![t] = None]
    /\ group' = [group EXCEPT ![t] = None]
    /\ Goto(t, "loop")
    /\ UNCHANGED <<wait_mutex, spinning, cancelling, handles, waited, guard, pending,
                   called, offered>>

Run(t) ==
    \/ WhileSpinning(t)
    \/ LockWaitMutex(t)
    \/ CollectEntities(t)
    \/ RclWait(t)
    \/ CheckSpinning(t)
    \/ \E c \in Callbacks : TakeNext(t, c)
    \/ SkipKind(t)
    \/ Scanned(t)
    \/ MarkGroup(t)
    \/ ReturnCancelled(t)
    \/ StartCallback(t)
    \/ FinishCallback(t)
    \/ ReleaseGroup(t)
    \/ TriggerInterrupt(t)
    \/ DestroyAnyExec(t)

Next ==
    \/ \E c \in Callbacks : Arrive(c)
    \/ Spin
    \/ CancelStore
    \/ CancelTrigger
    \/ \E t \in Threads : Run(t)

Spec == Init /\ [][Next]_vars

(* Every thread that can take a step is scheduled, callbacks return, and a *)
(* cancel() that has begun completes.                                      *)
Fairness == /\ \A t \in Threads : WF_vars(Run(t))
            /\ WF_vars(CancelTrigger)

FairSpec == Spec /\ Fairness

-----------------------------------------------------------------------------
(* What CallbackGroup promises: callbacks of a mutually exclusive group are not *)
(* run at the same time as themselves or as one another.                        *)
MutualExclusion ==
    \A t, u \in Threads :
        /\ t # u
        /\ pc[t] = "running"
        /\ pc[u] = "running"
        /\ Group[exec[t]] = Group[exec[u]]
        => Group[exec[t]] \notin MutuallyExclusive

(* The assert in get_next_ready_executable_from_map: the group about to be *)
(* marked as in use was not in use.                                        *)
MarkedGroupWasFree ==
    \A t \in Threads :
        pc[t] = "mark" /\ group[t] \in MutuallyExclusive => can_be_taken_from[group[t]]

(* A group is unavailable only while some AnyExecutable still holds it: no group *)
(* is lost to the executor for good.                                             *)
BusyGroupIsHeld ==
    \A g \in Groups : ~can_be_taken_from[g] => \E t \in Threads : group[t] = g

(* A wait never sleeps through work that became takeable after its entities were *)
(* collected: whoever freed the group has triggered, or is about to trigger, the *)
(* interrupt guard condition in that wait set.                                   *)
NoLostWakeup ==
    \A t \in Threads, c \in Callbacks :
        /\ pc[t] = "wait"
        /\ pending[c]
        /\ can_be_taken_from[Group[c]]
        /\ c \notin handles
        => guard \/ \E u \in Threads : pc[u] = "trigger"

(* TimerBase::call() announces an execution: outside the search, the timers a *)
(* thread has called are exactly the one it is about to run (or, after a       *)
(* cancel, discard).                                                           *)
CalledTimerIsTaken ==
    \A t \in Threads :
        pc[t] \notin Scan \cup {"scanned"} =>
            called[t] = IF pc[t] \in {"mark", "taken"} THEN {exec[t]} \cap Timers ELSE {}

(* A timer is called only when it is due, however long its handle was left over *)
(* from an earlier wait.                                                        *)
TimerCalledWhenDue ==
    [][\A t \in Threads : \A c \in called'[t] \ called[t] : pending[c]]_vars

(* PiCAS: the callback handed out has the highest priority of all that were ready *)
(* and takeable when the wait returned.                                           *)
HighestPriorityFirst ==
    \A t \in Threads :
        callback_priority_enabled /\ pc[t] = "mark" =>
            \A c \in offered : Priority[c] <= Priority[exec[t]]

Waits(c) == pending[c] /\ spinning

(* cancel() makes every thread leave run(), the one blocked in rcl_wait included. *)
CancelStopsThreads ==
    ~spinning ~> \A t \in Threads : pc[t] = "idle"
=============================================================================
