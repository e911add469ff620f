------------------------------- MODULE WaitSet -------------------------------
(***************************************************************************)
(* rclcpp::WaitSetTemplate with its storage policies (DynamicStorage,      *)
(* StaticStorage) and synchronization policies (ThreadSafeSynchronization  *)
(* over WritePreferringReadWriteLock, SequentialSynchronization).          *)
(*                                                                         *)
(* Every wait set has one thread that calls wait() again and again and     *)
(* keeps a Ready WaitResult in scope for a while; Writers are threads that *)
(* add, remove and prune.  A batch is what one call adds or removes: one   *)
(* entity, or the parts of a subscription its mask selects, in the order   *)
(* of the code.  The steps of rcl_wait are external.                       *)
(***************************************************************************)
EXTENDS Integers, FiniteSets, Sequences

CONSTANTS
    Sets,           \* the wait sets
    Static,         \* those with StaticStorage
    Sequential,     \* those with SequentialSynchronization
    Entities,
    Kind,           \* Entities -> {"subscription", "guard_condition", "other"}
    Batches,        \* what a call may add or remove: sequences of entities
    Preset,         \* what a static wait set is constructed with
    Writers,
    RemoveForeign,  \* callers may remove what is not in the wait set when it is their turn
    Droppable,      \* entities whose users may let go of them
    Timed,          \* wait() is given a finite time
    MaxCalls        \* bound: add, remove and prune calls of a behaviour

(* What the instance has to satisfy. *)
ASSUME WaitSetAssumption ==
    /\ Static \cup Sequential \subseteq Sets /\ 0 \notin Sets
    /\ IsFiniteSet(Entities) /\ IsFiniteSet(Writers)
    /\ \A s \in Static : Preset[s] \subseteq Entities
    /\ \A b \in Batches : \A i \in DOMAIN b : b[i] \in Entities
    /\ {RemoveForeign, Timed} \subseteq BOOLEAN
    /\ MaxCalls \in Nat

VARIABLES
    storage,            \* the entity sequences of the storage policy
    in_use,             \* entities whose in_use_by_wait_set_ flag is set
    held,               \* entities some user code still holds a shared_ptr to
    owned,              \* the shared_* sequences: locked weak pointers
    ownership_reference_counter,
    needs_resize,
    capacity,           \* entity slots of rcl_wait_set_
    rcl_wait_set,       \* entities rcl_wait_set_ points to
    result,             \* entities rcl_wait left non-null, Interrupt included
    ready,              \* external: entities rcl_wait would find ready
    interrupt,          \* extra_guard_conditions_[0] is triggered
    number_of_writers_waiting,
    writer_active,
    reader_active,
    pc,                 \* where the waiting thread of a set is
    call,               \* what a writer is doing: set, op, batch and phase
    calls               \* calls made so far

lock == <<number_of_writers_waiting, writer_active, reader_active>>
store == <<storage, in_use, needs_resize>>
refs == <<owned, ownership_reference_counter>>
waitSetVars == <<store, refs, lock, held, capacity, rcl_wait_set, result, ready, interrupt,
                 pc, call, calls>>

Interrupt == "interrupt"
NoCall == [set |-> 0, op |-> "none", batch |-> <<>>, at |-> "idle"]
Pcs == {"idle", "rebuild", "locked", "wait", "returned", "ready", "holding", "looking"}

Referenced(e) == \/ e \in held
                 \/ \E s \in Sets : e \in owned[s]
                 \/ \E s \in Static : e \in Preset[s]
                 \/ \E w \in Writers : \E i \in DOMAIN call[w].batch : call[w].batch[i] = e

(* What a wait set is constructed with: the arrays of a static one; a dynamic one
   starts empty here and is filled by calls. *)
Constructed(s) == IF s \in Static THEN Preset[s] ELSE {}

(* StoragePolicyCommon and the policies: a constructed wait set. *)
WaitSetInit ==
    /\ storage = [s \in Sets |-> Constructed(s)]
    /\ in_use = {}
    /\ held = Entities
    /\ owned = [s \in Sets |-> {}]
    /\ ownership_reference_counter = [s \in Sets |-> 0]
    /\ needs_resize = [s \in Sets |-> FALSE]
    /\ capacity = [s \in Sets |-> Cardinality(storage[s])]
    /\ rcl_wait_set = storage
    /\ result = [s \in Sets |-> {}]
    /\ ready = {}
    /\ interrupt = [s \in Sets |-> FALSE]
    /\ number_of_writers_waiting = [s \in Sets |-> 0]
    /\ writer_active = [s \in Sets |-> FALSE]
    /\ reader_active = [s \in Sets |-> FALSE]
    /\ pc = [s \in Sets |-> "idle"]
    /\ call = [w \in Writers |-> NoCall]
    /\ calls = 0

-----------------------------------------------------------------------------
(* Writers: add_*, remove_* and prune_deleted_entities. *)

(* WriteMutex::lock up to its wait: count the writer and trigger the interrupt
   guard condition, both under the lock's mutex_. *)
EnterWaiting(s) ==
    /\ number_of_writers_waiting' = [number_of_writers_waiting EXCEPT ![s] = @ + 1]
    /\ interrupt' = [interrupt EXCEPT ![s] = TRUE]

(* Somebody removes e from the wait set s at this time. *)
BeingRemoved(s, e) ==
    \E w \in Writers : /\ call[w].set = s /\ call[w].op = "remove"
                       /\ \E i \in DOMAIN call[w].batch : call[w].batch[i] = e

MayCall(s, o, b) ==
    /\ s \notin Static
    /\ CASE o = "add" -> b \in Batches /\ \A i \in DOMAIN b : b[i] \in held
         [] o = "remove" -> /\ b \in Batches /\ \A i \in DOMAIN b : b[i] \in held
                            /\ RemoveForeign \/ \A i \in DOMAIN b :
                                  b[i] \in storage[s] /\ ~BeingRemoved(s, b[i])
         [] o = "prune" -> b = <<>>

(* The sync_* functions of SequentialSynchronization run at once; the caller
   sees to it that nobody waits at the same time. *)
SyncSequential(s) == pc[s] = "idle" /\ UNCHANGED <<lock, interrupt>>

(* The sync_* functions of ThreadSafeSynchronization lock the WriteMutex. *)
SyncThreadSafe(s) == EnterWaiting(s) /\ UNCHANGED <<writer_active, reader_active>>

(* An add_*, remove_* or prune_deleted_entities call. *)
Call(w, s, o, b) ==
    /\ calls < MaxCalls
    /\ call[w] = NoCall
    /\ MayCall(s, o, b)
    /\ calls' = calls + 1
    /\ call' = [call EXCEPT ![w] = [set |-> s, op |-> o, batch |-> b, at |->
                                    IF s \in Sequential THEN "writing" ELSE "waiting"]]
    /\ IF s \in Sequential THEN SyncSequential(s) ELSE SyncThreadSafe(s)
    /\ UNCHANGED <<store, refs, held, capacity, rcl_wait_set, result, ready, pc>>

(* The loop of WriteMutex::lock. *)
WriteLockFree(s) == ~reader_active[s] /\ ~writer_active[s]

WriteLock(w) ==
    LET s == call[w].set IN
    /\ call[w].at = "waiting"
    /\ WriteLockFree(s)
    /\ number_of_writers_waiting' = [number_of_writers_waiting EXCEPT ![s] = @ - 1]
    /\ writer_active' = [writer_active EXCEPT ![s] = TRUE]
    /\ call' = [call EXCEPT ![w].at = "writing"]
    /\ UNCHANGED <<store, refs, reader_active, held, capacity, rcl_wait_set, result, ready,
                   interrupt, pc, calls>>

(* The part of a batch that is processed: everything before the first entity
   for which the code throws, and that entity. *)
UpTo(b, throwing) ==
    {b[i] : i \in {j \in DOMAIN b : \A k \in 1..(j - 1) : b[k] \notin throwing}}

(* storage_add_* and storage_remove_*: whatever changes a sequence flags a resize. *)
StorageEdit(s, new) ==
    /\ storage' = [storage EXCEPT ![s] = new]
    /\ needs_resize' = [needs_resize EXCEPT ![s] = @ \/ new # storage[s]]

Add_FlagOnlyTested(s, b) ==
    LET throwing == in_use \cup storage[s] IN
    /\ UNCHANGED in_use
    /\ StorageEdit(s, storage[s] \cup (UpTo(b, throwing) \ throwing))

(* The flag is exchanged first; the code throws if it was set, or if the storage
   has the entity already. *)
Add(s, b) ==
    LET throwing == in_use \cup storage[s] IN
    /\ in_use' = in_use \cup UpTo(b, throwing)
    /\ StorageEdit(s, storage[s] \cup (UpTo(b, throwing) \ throwing))

(* The flag is cleared first; the storage throws if it has not got the entity. *)
Remove(s, b) ==
    LET throwing == Entities \ storage[s] IN
    /\ in_use' = in_use \ UpTo(b, throwing)
    /\ StorageEdit(s, storage[s] \ UpTo(b, throwing))

(* storage_prune_deleted_entities: expired subscriptions stay. *)
Prune(s) ==
    /\ storage' = [storage EXCEPT ![s] =
                     {e \in @ : Kind[e] = "subscription" \/ Referenced(e)}]
    /\ UNCHANGED <<in_use, needs_resize>>

(* The function an add_*, remove_* or prune call passes to the synchronization policy. *)
Edit(s, o, b) == CASE o = "add" -> Add(s, b)
                   [] o = "remove" -> Remove(s, b)
                   [] o = "prune" -> Prune(s)

(* The function passed to sync_add_*, sync_remove_* or sync_prune, and
   WriteMutex::unlock. *)
Write(w) ==
    LET s == call[w].set IN
    /\ call[w].at = "writing"
    /\ Edit(s, call[w].op, call[w].batch)
    /\ writer_active' = [writer_active EXCEPT ![s] = FALSE]
    /\ call' = [call EXCEPT ![w] = NoCall]
    /\ UNCHANGED <<refs, number_of_writers_waiting, reader_active, held, capacity,
                   rcl_wait_set, result, ready, interrupt, pc, calls>>

-----------------------------------------------------------------------------
(* The waiting thread. *)

(* storage_acquire_ownerships: only the first of nested acquisitions locks the
   weak pointers, and never those of subscriptions_. *)
AcquireOwnerships(s) ==
    /\ ownership_reference_counter' = [ownership_reference_counter EXCEPT ![s] = @ + 1]
    /\ owned' = [owned EXCEPT ![s] =
         IF ownership_reference_counter[s] > 0 \/ s \in Static THEN @
         ELSE {e \in storage[s] : Kind[e] # "subscription" /\ Referenced(e)}]

(* storage_release_ownerships. *)
ReleaseOwnerships(s) ==
    /\ ownership_reference_counter' = [ownership_reference_counter EXCEPT ![s] = @ - 1]
    /\ owned' = [owned EXCEPT ![s] = IF ownership_reference_counter[s] > 1 THEN @ ELSE {}]

(* wait(): ownership first, then sync_wait. *)
Wait(s) ==
    /\ pc[s] = "idle"
    /\ ~\E w \in Writers : s \in Sequential /\ call[w].set = s
    /\ AcquireOwnerships(s)
    /\ pc' = [pc EXCEPT ![s] = "rebuild"]
    /\ UNCHANGED <<store, lock, held, capacity, rcl_wait_set, result, ready, interrupt, call,
                   calls>>

ReadLockFree_NoPreference(s) == ~writer_active[s] /\ ~reader_active[s]

(* The loop of ReadMutex::lock. *)
ReadLockFree(s) ==
    /\ number_of_writers_waiting[s] = 0
    /\ ~writer_active[s]
    /\ ~reader_active[s]

ReadLock(s) ==
    /\ pc[s] = "rebuild"
    /\ ReadLockFree(s)
    /\ reader_active' = [reader_active EXCEPT ![s] = TRUE]
    /\ pc' = [pc EXCEPT ![s] = "locked"]
    /\ UNCHANGED <<store, refs, number_of_writers_waiting, writer_active, held, capacity,
                   rcl_wait_set, result, ready, interrupt, call, calls>>

(* storage_rebuild_rcl_wait_set_with_sets, then ReadMutex::unlock: resize if
   flagged, otherwise clear, and add every entity that has not expired. *)
Rebuild(s) ==
    /\ pc[s] = "locked"
    /\ capacity' = [capacity EXCEPT ![s] = IF needs_resize[s] THEN Cardinality(storage[s]) ELSE @]
    /\ needs_resize' = [needs_resize EXCEPT ![s] = FALSE]
    /\ rcl_wait_set' = [rcl_wait_set EXCEPT ![s] = {e \in storage[s] : Referenced(e)}]
    /\ reader_active' = [reader_active EXCEPT ![s] = FALSE]
    /\ pc' = [pc EXCEPT ![s] = "wait"]
    /\ UNCHANGED <<storage, in_use, refs, number_of_writers_waiting, writer_active, held, result,
                   ready, interrupt, call, calls>>

Extra(s) == IF s \notin Sequential /\ interrupt[s] THEN {Interrupt} ELSE {}
Reported(s) == {e \in rcl_wait_set[s] : e \in ready /\ Referenced(e)} \cup Extra(s)

(* rcl_wait returns RCL_RET_OK; guard conditions are cleared by being waited on. *)
RclWaitOK(s) ==
    /\ pc[s] = "wait"
    /\ Reported(s) # {}
    /\ result' = [result EXCEPT ![s] = Reported(s)]
    /\ ready' = ready \ {e \in Reported(s) \ {Interrupt} : Kind[e] = "guard_condition"}
    /\ interrupt' = [interrupt EXCEPT ![s] = FALSE]
    /\ pc' = [pc EXCEPT ![s] = "returned"]
    /\ UNCHANGED <<store, refs, lock, held, capacity, rcl_wait_set, call, calls>>

(* The result of sync_wait after RCL_RET_OK is a Ready result, unless the wait
   was only interrupted: then it waits again, if there is time left. *)
IsReady(s) ==
    \/ Interrupt \notin result[s]
    \/ \E e \in result[s] \ {Interrupt} : Kind[e] = "guard_condition"

Returned(s) ==
    /\ pc[s] = "returned"
    /\ \/ /\ IsReady(s)
          /\ pc' = [pc EXCEPT ![s] = "ready"]
          /\ UNCHANGED <<refs, result>>
       \/ /\ ~IsReady(s)
          /\ pc' = [pc EXCEPT ![s] = "rebuild"]
          /\ result' = [result EXCEPT ![s] = {}]
          /\ UNCHANGED refs
       \/ /\ ~IsReady(s) /\ Timed
          /\ ReleaseOwnerships(s)
          /\ result' = [result EXCEPT ![s] = {}]
          /\ pc' = [pc EXCEPT ![s] = "idle"]
    /\ UNCHANGED <<store, lock, held, capacity, rcl_wait_set, ready, interrupt, call, calls>>

(* RCL_RET_TIMEOUT, or RCL_RET_WAIT_SET_EMPTY where there is no extra guard condition. *)
TimeoutOrEmpty(s) ==
    /\ pc[s] = "wait"
    /\ Reported(s) = {}
    /\ Timed \/ (s \in Sequential /\ rcl_wait_set[s] = {})
    /\ ReleaseOwnerships(s)
    /\ pc' = [pc EXCEPT ![s] = "idle"]
    /\ UNCHANGED <<store, lock, held, capacity, rcl_wait_set, result, ready, interrupt, call,
                   calls>>

(* wait_result_acquire: the constructor of a Ready WaitResult takes the read lock. *)
WaitResultAcquire(s) ==
    /\ pc[s] = "ready"
    /\ s \notin Sequential => ReadLockFree(s)
    /\ reader_active' = [reader_active EXCEPT ![s] = s \notin Sequential]
    /\ AcquireOwnerships(s)
    /\ pc' = [pc EXCEPT ![s] = "holding"]
    /\ UNCHANGED <<store, number_of_writers_waiting, writer_active, held, capacity, rcl_wait_set,
                   result, ready, interrupt, call, calls>>

(* The scope exit of wait(), which runs after the result is constructed. *)
WaitReturns(s) ==
    /\ pc[s] = "holding"
    /\ ReleaseOwnerships(s)
    /\ pc' = [pc EXCEPT ![s] = "looking"]
    /\ UNCHANGED <<store, lock, held, capacity, rcl_wait_set, result, ready, interrupt, call,
                   calls>>

(* The user handles what is ready, then ~WaitResult: wait_result_release. *)
WaitResultRelease(s) ==
    /\ pc[s] = "looking"
    /\ ReleaseOwnerships(s)
    /\ ready' = ready \ result[s]
    /\ result' = [result EXCEPT ![s] = {}]
    /\ reader_active' = [reader_active EXCEPT ![s] = FALSE]
    /\ pc' = [pc EXCEPT ![s] = "idle"]
    /\ UNCHANGED <<store, number_of_writers_waiting, writer_active, held, capacity, rcl_wait_set,
                   interrupt, call, calls>>

-----------------------------------------------------------------------------
(* An entity becomes ready, or its last user lets go of it. *)
BecomeReady(e) ==
    /\ e \in held \ ready
    /\ ready' = ready \cup {e}
    /\ UNCHANGED <<store, refs, lock, held, capacity, rcl_wait_set, result, interrupt, pc, call,
                   calls>>

Drop(e) ==
    /\ e \in held \cap Droppable
    /\ held' = held \ {e}
    /\ UNCHANGED <<store, refs, lock, capacity, rcl_wait_set, result, ready, interrupt, pc, call,
                   calls>>

Writing == \E w \in Writers :
    \/ \E s \in Sets, o \in {"add", "remove", "prune"}, b \in Batches \cup {<<>>} : Call(w, s, o, b)
    \/ WriteLock(w)
    \/ Write(w)

Waiting(s) == \/ Wait(s) \/ ReadLock(s) \/ Rebuild(s) \/ RclWaitOK(s) \/ Returned(s)
              \/ TimeoutOrEmpty(s) \/ WaitResultAcquire(s) \/ WaitReturns(s)
              \/ WaitResultRelease(s)

WaitSetNext ==
    \/ Writing
    \/ \E s \in Sets : Waiting(s)
    \/ \E e \in Entities : BecomeReady(e) \/ Drop(e)

(* Threads run, and the user keeps waiting and gives every result back. *)
WaitSetFairness ==
    /\ \A s \in Sets : WF_waitSetVars(Waiting(s))
    /\ \A w \in Writers : WF_waitSetVars(WriteLock(w)) /\ WF_waitSetVars(Write(w))

WaitSetSpec == WaitSetInit /\ [][WaitSetNext]_waitSetVars /\ WaitSetFairness

-----------------------------------------------------------------------------
Live(S) == {e \in S : Referenced(e)}

(* Every variable of the wait sets has its type, and the reference counter
   stays between no acquisition and the two nested ones of wait() and WaitResult. *)
WaitSetTypeOK ==
    /\ \A s \in Sets : storage[s] \subseteq Entities /\ rcl_wait_set[s] \subseteq Entities
                       /\ owned[s] \subseteq Entities
                       /\ result[s] \subseteq Entities \cup {Interrupt}
    /\ in_use \cup held \cup ready \subseteq Entities
    /\ ownership_reference_counter \in [Sets -> 0..2]
    /\ pc \in [Sets -> Pcs]
    /\ number_of_writers_waiting \in [Sets -> 0..Cardinality(Writers)]

(* The write-preferring lock: a wait set is never rebuilt or introspected while
   an add, remove or prune changes it, and two writers never change it together. *)
ReadersExcludeWriters ==
    \A s \in Sets \ Sequential :
        LET inside == {w \in Writers : call[w].set = s /\ call[w].at = "writing"}
        IN /\ Cardinality(inside) <= 1
           /\ inside # {} => pc[s] \notin {"locked", "holding", "looking"}

(* A thread asleep in rcl_wait, with no interruption on its way, waits on exactly
   the live entities of the wait set: what was added meanwhile is not missed, and
   what was removed is not touched. *)
SleepsOnCurrentSet ==
    \A s \in Sets \ Sequential :
        pc[s] = "wait" /\ ~interrupt[s]
        /\ (\A w \in Writers : call[w].set # s)
            => Live(rcl_wait_set[s]) = Live(storage[s])

(* Rebuilding never adds more entities than the rcl wait set has slots for,
   although only some changes ask for a resize. *)
RebuildFits ==
    \A s \in Sets : needs_resize[s] \/ Cardinality(Live(storage[s])) <= capacity[s]

(* An entity is in at most one of the wait sets that can be edited. *)
InOneWaitSet ==
    \A s, u \in Sets \ Static : s # u => Live(storage[s]) \cap Live(storage[u]) = {}

(* Threads that wait on wait sets while others add to, remove from and prune them:
   readers of the storage exclude writers (write_preferring_read_write_lock.cpp), a set
   never sleeps on entities it no longer has (thread_safe_synchronization.hpp), what
   rcl_wait is given fits the set that was resized for it (dynamic_storage.hpp), and no
   entity is in two sets at once (wait_set_template.hpp). *)
WaitSetSafe == ReadersExcludeWriters /\ SleepsOnCurrentSet /\ RebuildFits /\ InOneWaitSet

(* What was in the wait set when wait() was called stays alive, subscriptions
   aside: nested acquisitions keep it until the WaitResult is destroyed. *)
OwnedSinceWait ==
    \A s \in Sets : (pc[s] # "idle" /\ pc'[s] # "idle") => owned[s] \subseteq owned'[s]

Queued(w) == call[w].at = "waiting"

Triggered(s, e) == Kind[e] = "guard_condition" /\ e \in ready /\ e \in storage[s]
ToldUser(s, e) == e \notin storage[s] \/ ~Referenced(e) \/ (pc[s] = "looking" /\ e \in result[s])
==============================================================================
