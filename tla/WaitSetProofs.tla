---------------------------- MODULE WaitSetProofs ----------------------------
(***************************************************************************)
(* Proofs about WaitSet, for any number of wait sets, entities, writers    *)
(* and calls, with every storage and synchronization policy: the storage   *)
(* is never read while it is changed, a thread that sleeps waits on the    *)
(* present entities, the rcl wait set has room for them, and an entity is  *)
(* in one wait set.                                                        *)
(***************************************************************************)
EXTENDS WaitSet, FiniteSetTheorems, TLAPS

-----------------------------------------------------------------------------
Ops == {"add", "remove", "prune"}
CallRecord == [set : Sets \ Static, op : Ops, batch : Batches \cup {<<>>},
               at : {"waiting", "writing"}]

WaitSetShape ==
    /\ storage \in [Sets -> SUBSET Entities]
    /\ in_use \subseteq Entities
    /\ held \subseteq Entities
    /\ owned \in [Sets -> SUBSET Entities]
    /\ ownership_reference_counter \in [Sets -> 0..2]
    /\ needs_resize \in [Sets -> BOOLEAN]
    /\ capacity \in [Sets -> Nat]
    /\ rcl_wait_set \in [Sets -> SUBSET Entities]
    /\ result \in [Sets -> SUBSET (Entities \cup {Interrupt})]
    /\ ready \subseteq Entities
    /\ interrupt \in [Sets -> BOOLEAN]
    /\ number_of_writers_waiting \in [Sets -> Nat]
    /\ writer_active \in [Sets -> BOOLEAN]
    /\ reader_active \in [Sets -> BOOLEAN]
    /\ pc \in [Sets -> Pcs]
    /\ call \in [Writers -> CallRecord \cup {NoCall}]

(* The writers of s that wait for the lock, and that a writer w is in it. *)
WaitingOn(s) == {w \in Writers : call[w].set = s /\ call[w].at = "waiting"}
Inside(w, s) == call[w].set = s /\ call[w].at = "writing"

(* The state of the write-preferring lock says who is where. *)
Locked ==
    \A s \in Sets :
        /\ number_of_writers_waiting[s] = Cardinality(WaitingOn(s))
        /\ s \notin Sequential =>
              /\ reader_active[s] <=> pc[s] \in {"locked", "holding", "looking"}
              /\ writer_active[s] <=> \E w \in Writers : Inside(w, s)
              /\ \A v, w \in Writers : Inside(v, s) /\ Inside(w, s) => v = w
              /\ ~(reader_active[s] /\ writer_active[s])

(* A writer that has come since the wait set was last read has interrupted the wait; without
   an interruption the wait is for what the storage has. *)
Sleeping ==
    \A s \in Sets \ Sequential :
        /\ pc[s] \in {"locked", "wait"} /\ (\E w \in Writers : call[w].set = s) => interrupt[s]
        /\ pc[s] = "wait" /\ ~interrupt[s] => Live(rcl_wait_set[s]) = Live(storage[s])

(* Without a resize that is due the storage fits. *)
Sized ==
    \A s \in Sets : needs_resize[s] \/ Cardinality(storage[s]) <= capacity[s]

(* What is in a wait set is flagged and in no other; what is being removed is there. *)
Removes(w) == call[w].op = "remove"
Names(w, e) == \E i \in DOMAIN call[w].batch : call[w].batch[i] = e

Claimed ==
    /\ \A s \in Sets \ Static : storage[s] \subseteq in_use
    /\ \A s, u \in Sets \ Static : s # u => storage[s] \cap storage[u] = {}
    /\ \A w \in Writers : Removes(w) => \A e : Names(w, e) => e \in storage[call[w].set]
    /\ \A v, w \in Writers :
          v # w /\ Removes(v) /\ Removes(w) /\ call[v].set = call[w].set
          => \A e : ~(Names(v, e) /\ Names(w, e))

(* wait() acquires once, a WaitResult once more. *)
Counted ==
    \A s \in Sets : ownership_reference_counter[s] =
        CASE pc[s] = "idle" -> 0 [] pc[s] = "holding" -> 2 [] OTHER -> 1

LockInv == WaitSetShape /\ Locked /\ Sleeping /\ Sized /\ Counted

-----------------------------------------------------------------------------
(* What the steps leave alone. *)

LEMMA Assumed ==
    /\ Static \subseteq Sets /\ Sequential \subseteq Sets /\ 0 \notin Sets
    /\ IsFiniteSet(Entities) /\ IsFiniteSet(Writers)
    /\ \A b \in Batches \cup {<<>>} : \A i \in DOMAIN b : b[i] \in Entities
    /\ \A s \in Static : Preset[s] \subseteq Entities
<1>1. DOMAIN <<>> = {}
  OBVIOUS
<1> QED BY <1>1, WaitSetAssumption

(* A step of the waiting thread of s. *)
LEMMA WaitingFrame ==
    ASSUME WaitSetShape, NEW s \in Sets, Waiting(s)
    PROVE  /\ UNCHANGED <<storage, in_use, held, number_of_writers_waiting, writer_active, call>>
           /\ \A u \in Sets : u # s =>
                 /\ pc'[u] = pc[u] /\ reader_active'[u] = reader_active[u]
                 /\ ownership_reference_counter'[u] = ownership_reference_counter[u]
                 /\ owned'[u] = owned[u] /\ needs_resize'[u] = needs_resize[u]
                 /\ capacity'[u] = capacity[u] /\ rcl_wait_set'[u] = rcl_wait_set[u]
                 /\ interrupt'[u] = interrupt[u]
<1> USE DEF WaitSetShape, store, refs, lock, AcquireOwnerships, ReleaseOwnerships
<1>1. CASE Wait(s)
  BY <1>1 DEF Wait
<1>2. CASE ReadLock(s)
  BY <1>2 DEF ReadLock
<1>3. CASE Rebuild(s)
  BY <1>3 DEF Rebuild
<1>4. CASE RclWaitOK(s)
  BY <1>4 DEF RclWaitOK
<1>5. CASE Returned(s)
  BY <1>5 DEF Returned
<1>6. CASE TimeoutOrEmpty(s)
  BY <1>6 DEF TimeoutOrEmpty
<1>7. CASE WaitResultAcquire(s)
  BY <1>7 DEF WaitResultAcquire
<1>8. CASE WaitReturns(s)
  BY <1>8 DEF WaitReturns
<1>9. CASE WaitResultRelease(s)
  BY <1>9 DEF WaitResultRelease
<1> QED BY <1>1, <1>2, <1>3, <1>4, <1>5, <1>6, <1>7, <1>8, <1>9 DEF Waiting

(* A step of a writer. *)
LEMMA WritingFrame ==
    ASSUME Writing
    PROVE  /\ UNCHANGED <<held, pc, reader_active, ownership_reference_counter, owned, capacity,
                          rcl_wait_set, result, ready>>
BY DEF Writing, Call, WriteLock, Write, SyncSequential, SyncThreadSafe, store, refs, lock

(* The entities that have references never become more. *)
LEMMA ReferencedBy ==
    ASSUME held' \subseteq held,
           \A s \in Sets : \A e \in owned'[s] : Referenced(e),
           \A w \in Writers : \A e : Names(w, e)' => Referenced(e)
    PROVE  \A e : Referenced(e)' => Referenced(e)
BY DEF Referenced, Names

LEMMA OwnedReferenced ==
    \A s \in Sets : \A e \in owned[s] : Referenced(e)
BY DEF Referenced

LEMMA NamesReferenced ==
    \A w \in Writers : \A e : Names(w, e) => Referenced(e)
BY DEF Referenced, Names

LEMMA WaitingReferences ==
    ASSUME WaitSetShape, NEW s \in Sets, Waiting(s)
    PROVE  \A e : Referenced(e)' => Referenced(e)
<1>1. held' = held /\ call' = call /\ \A u \in Sets : u # s => owned'[u] = owned[u]
  BY WaitingFrame
<1>2. \A e \in owned'[s] : Referenced(e)
  <2>1. owned' = owned \/ AcquireOwnerships(s) \/ ReleaseOwnerships(s)
    BY DEF Waiting, Wait, ReadLock, Rebuild, RclWaitOK, Returned, TimeoutOrEmpty, WaitResultAcquire,
           WaitReturns, WaitResultRelease, refs
  <2>2. CASE owned' = owned
    BY <2>2, OwnedReferenced
  <2>3. CASE AcquireOwnerships(s)
    <3>1. \/ owned'[s] = owned[s]
          \/ owned'[s] = {e \in storage[s] : Kind[e] # "subscription" /\ Referenced(e)}
      BY <2>3 DEF AcquireOwnerships, WaitSetShape
    <3> QED BY <3>1, OwnedReferenced
  <2>4. CASE ReleaseOwnerships(s)
    <3>1. owned'[s] = owned[s] \/ owned'[s] = {}
      BY <2>4 DEF ReleaseOwnerships, WaitSetShape
    <3> QED BY <3>1, OwnedReferenced
  <2> QED BY <2>1, <2>2, <2>3, <2>4
<1>3. \A u \in Sets : \A e \in owned'[u] : Referenced(e)
  BY <1>1, <1>2, OwnedReferenced
<1>4. \A w \in Writers : \A e : Names(w, e)' => Referenced(e)
  BY <1>1, NamesReferenced DEF Names
<1> QED BY <1>1, <1>3, <1>4, ReferencedBy

LEMMA WritingReferences ==
    ASSUME WaitSetShape, Writing
    PROVE  \A e : Referenced(e)' => Referenced(e)
<1>1. held' = held /\ owned' = owned
  BY WritingFrame
<1>2. \A w \in Writers : \A e : Names(w, e)' => Referenced(e)
  <2>0. DOMAIN <<>> = {}
    OBVIOUS
  <2>1. ASSUME NEW v \in Writers, NEW s \in Sets, NEW o \in Ops, NEW b, Call(v, s, o, b),
               NEW w \in Writers, NEW e, Names(w, e)'
        PROVE  Referenced(e)
    <3>1. CASE w # v
      <4>1. call'[w] = call[w]
        BY <2>1, <3>1 DEF Call, WaitSetShape
      <4> QED BY <4>1, <2>1, NamesReferenced DEF Names
    <3>2. CASE w = v
      <4>1. call'[w].batch = b
        BY <2>1, <3>2 DEF Call, WaitSetShape
      <4>2. \A i \in DOMAIN b : b[i] \in held
        BY <2>1, <2>0 DEF Call, MayCall, Ops
      <4> QED BY <4>1, <4>2, <2>1 DEF Names, Referenced
    <3> QED BY <3>1, <3>2
  <2>2. ASSUME NEW v \in Writers, WriteLock(v), NEW w \in Writers, NEW e, Names(w, e)'
        PROVE  Referenced(e)
    <3>1. call'[w].batch = call[w].batch
      BY <2>2 DEF WriteLock, WaitSetShape, CallRecord, NoCall
    <3> QED BY <3>1, <2>2, NamesReferenced DEF Names
  <2>3. ASSUME NEW v \in Writers, Write(v), NEW w \in Writers, NEW e, Names(w, e)'
        PROVE  Referenced(e)
    <3>1. call'[w].batch = call[w].batch \/ call'[w].batch = <<>>
      BY <2>3 DEF Write, WaitSetShape, NoCall
    <3> QED BY <3>1, <2>0, <2>3, NamesReferenced DEF Names
  <2> QED BY <2>1, <2>2, <2>3 DEF Writing, Ops
<1> QED BY <1>1, <1>2, OwnedReferenced, ReferencedBy

-----------------------------------------------------------------------------
(* What a call of a writer does to the writers and the lock. *)

LEMMA CallFacts ==
    ASSUME WaitSetShape, NEW w \in Writers, NEW s \in Sets, NEW o \in Ops,
           NEW b \in Batches \cup {<<>>}, Call(w, s, o, b)
    PROVE  /\ call[w] = NoCall /\ s \notin Static
           /\ call'[w].set = s /\ call'[w].op = o /\ call'[w].batch = b
           /\ call'[w].at = IF s \in Sequential THEN "writing" ELSE "waiting"
           /\ \A v \in Writers : v # w => call'[v] = call[v]
           /\ call' \in [Writers -> CallRecord \cup {NoCall}]
           /\ UNCHANGED <<storage, in_use, needs_resize, writer_active, reader_active>>
           /\ s \in Sequential => UNCHANGED <<number_of_writers_waiting, interrupt>>
           /\ s \notin Sequential => EnterWaiting(s)
<1>1. PICK r : r = [set |-> s, op |-> o, batch |-> b, at |->
                      IF s \in Sequential THEN "writing" ELSE "waiting"]
  OBVIOUS
<1>2. call' = [call EXCEPT ![w] = r] /\ call[w] = NoCall /\ s \notin Static
  BY <1>1 DEF Call, MayCall
<1>3. /\ r.set = s /\ r.op = o /\ r.batch = b
      /\ r.at = IF s \in Sequential THEN "writing" ELSE "waiting"
  BY <1>1
<1>4. r \in CallRecord
  BY <1>1, <1>2 DEF CallRecord
<1>5. /\ UNCHANGED <<storage, in_use, needs_resize, writer_active, reader_active>>
      /\ s \in Sequential => UNCHANGED <<number_of_writers_waiting, interrupt>>
      /\ s \notin Sequential => EnterWaiting(s)
  BY DEF Call, SyncSequential, SyncThreadSafe, store, lock
<1>6. /\ call'[w] = r /\ \A v \in Writers : v # w => call'[v] = call[v]
      /\ call' \in [Writers -> CallRecord \cup {NoCall}]
  BY <1>2, <1>4 DEF WaitSetShape
<1> QED BY <1>2, <1>3, <1>5, <1>6

LEMMA WriteLockFacts ==
    ASSUME WaitSetShape, NEW w \in Writers, NEW s, s = call[w].set, WriteLock(w)
    PROVE  /\ s \in Sets /\ call[w].at = "waiting" /\ ~reader_active[s] /\ ~writer_active[s]
           /\ call'[w].set = s /\ call'[w].op = call[w].op /\ call'[w].batch = call[w].batch
           /\ call'[w].at = "writing"
           /\ \A v \in Writers : v # w => call'[v] = call[v]
           /\ call' \in [Writers -> CallRecord \cup {NoCall}]
           /\ UNCHANGED <<storage, in_use, needs_resize, reader_active, interrupt>>
           /\ number_of_writers_waiting' = [number_of_writers_waiting EXCEPT ![s] = @ - 1]
           /\ writer_active' = [writer_active EXCEPT ![s] = TRUE]
<1>1. /\ call[w].at = "waiting" /\ call[w] \in CallRecord \cup {NoCall}
      /\ call' = [call EXCEPT ![w].at = "writing"]
  BY DEF WriteLock, WaitSetShape
<1>2. call[w] \in CallRecord
  BY <1>1 DEF NoCall
<1>3. PICK r : r = [call[w] EXCEPT !.at = "writing"]
  OBVIOUS
<1>4. r \in CallRecord /\ r.set = s /\ r.op = call[w].op /\ r.batch = call[w].batch /\ r.at = "writing"
  BY <1>2, <1>3 DEF CallRecord
<1>5. /\ call'[w] = r /\ \A v \in Writers : v # w => call'[v] = call[v]
      /\ call' \in [Writers -> CallRecord \cup {NoCall}]
  BY <1>1, <1>3, <1>4 DEF WaitSetShape
<1>6. s \in Sets
  BY <1>2 DEF CallRecord
<1>7. /\ ~reader_active[s] /\ ~writer_active[s]
      /\ UNCHANGED <<storage, in_use, needs_resize, reader_active, interrupt>>
      /\ number_of_writers_waiting' = [number_of_writers_waiting EXCEPT ![s] = @ - 1]
      /\ writer_active' = [writer_active EXCEPT ![s] = TRUE]
  BY DEF WriteLock, WriteLockFree, store
<1> QED BY <1>1, <1>4, <1>5, <1>6, <1>7

(* A write changes one storage; what makes it larger asks for a resize. *)
LEMMA WriteFacts ==
    ASSUME WaitSetShape, NEW w \in Writers, NEW s, s = call[w].set, Write(w)
    PROVE  /\ s \in Sets \ Static /\ call[w].at = "writing" /\ call[w] \in CallRecord
           /\ call'[w] = NoCall
           /\ \A v \in Writers : v # w => call'[v] = call[v]
           /\ call' \in [Writers -> CallRecord \cup {NoCall}]
           /\ UNCHANGED <<reader_active, interrupt, number_of_writers_waiting>>
           /\ writer_active' = [writer_active EXCEPT ![s] = FALSE]
           /\ storage' \in [Sets -> SUBSET Entities] /\ in_use' \subseteq Entities
           /\ needs_resize' \in [Sets -> BOOLEAN]
           /\ \A u \in Sets : u # s => storage'[u] = storage[u] /\ needs_resize'[u] = needs_resize[u]
           /\ needs_resize'[s] \/ (storage'[s] \subseteq storage[s] /\ needs_resize'[s] = needs_resize[s])
           /\ Edit(s, call[w].op, call[w].batch)
<1>1. /\ call[w].at = "writing" /\ call[w] \in CallRecord \cup {NoCall}
      /\ call' = [call EXCEPT ![w] = NoCall]
      /\ UNCHANGED <<reader_active, interrupt, number_of_writers_waiting>>
      /\ writer_active' = [writer_active EXCEPT ![s] = FALSE]
      /\ Edit(s, call[w].op, call[w].batch)
  BY DEF Write, WaitSetShape
<1>2. call[w] \in CallRecord
  BY <1>1 DEF NoCall
<1>3. PICK o, b : o = call[w].op /\ b = call[w].batch
  OBVIOUS
<1>4. s \in Sets \ Static /\ o \in Ops /\ \A i \in DOMAIN b : b[i] \in Entities
  BY <1>2, <1>3, Assumed DEF CallRecord
<1>5. \A throwing : UpTo(b, throwing) \subseteq Entities
  BY <1>4 DEF UpTo
<1>6. /\ call'[w] = NoCall /\ \A v \in Writers : v # w => call'[v] = call[v]
      /\ call' \in [Writers -> CallRecord \cup {NoCall}]
  BY <1>1 DEF WaitSetShape
<1>7. PICK new : /\ new \in SUBSET Entities /\ storage' = [storage EXCEPT ![s] = new]
                 /\ in_use' \subseteq Entities
                 /\ \/ needs_resize' = [needs_resize EXCEPT ![s] = @ \/ new # storage[s]]
                    \/ needs_resize' = needs_resize /\ new \subseteq storage[s]
  <2>1. storage[s] \subseteq Entities /\ in_use \subseteq Entities
    BY <1>4 DEF WaitSetShape
  <2>2. CASE o = "add"
    <3>1. Add(s, b)
      BY <2>2, <1>1, <1>3 DEF Edit
    <3>2. PICK up, new : up = UpTo(b, in_use \cup storage[s])
                         /\ new = storage[s] \cup (up \ (in_use \cup storage[s]))
      OBVIOUS
    <3>3. /\ in_use' = in_use \cup up /\ storage' = [storage EXCEPT ![s] = new]
          /\ needs_resize' = [needs_resize EXCEPT ![s] = @ \/ new # storage[s]]
      BY <3>1, <3>2 DEF Add, StorageEdit
    <3>4. up \subseteq Entities
      BY <3>2, <1>5
    <3>5. new \in SUBSET Entities /\ in_use' \subseteq Entities
      BY <3>2, <3>3, <3>4, <2>1
    <3> QED BY <3>3, <3>5
  <2>3. CASE o = "remove"
    <3>1. Remove(s, b)
      BY <2>3, <1>1, <1>3 DEF Edit
    <3>2. PICK up, new : up = UpTo(b, Entities \ storage[s]) /\ new = storage[s] \ up
      OBVIOUS
    <3>3. /\ in_use' = in_use \ up /\ storage' = [storage EXCEPT ![s] = new]
          /\ needs_resize' = [needs_resize EXCEPT ![s] = @ \/ new # storage[s]]
      BY <3>1, <3>2 DEF Remove, StorageEdit
    <3>4. new \in SUBSET Entities /\ in_use' \subseteq Entities
      BY <3>2, <3>3, <2>1
    <3> QED BY <3>3, <3>4
  <2>4. CASE o = "prune"
    <3>1. Prune(s)
      BY <2>4, <1>1, <1>3 DEF Edit
    <3>2. PICK new : new = {e \in storage[s] : Kind[e] = "subscription" \/ Referenced(e)}
      OBVIOUS
    <3>3. /\ in_use' = in_use /\ storage' = [storage EXCEPT ![s] = new] /\ needs_resize' = needs_resize
      BY <3>1, <3>2 DEF Prune
    <3>4. new \subseteq storage[s]
      BY <3>2
    <3>5. new \in SUBSET Entities
      BY <3>4, <2>1
    <3> QED BY <3>3, <3>4, <3>5, <2>1
  <2> QED BY <2>2, <2>3, <2>4, <1>4 DEF Ops
<1>8. /\ storage' \in [Sets -> SUBSET Entities]
      /\ \A u \in Sets : u # s => storage'[u] = storage[u]
      /\ storage'[s] = new
  BY <1>4, <1>7 DEF WaitSetShape
<1>9. /\ needs_resize' \in [Sets -> BOOLEAN]
      /\ \A u \in Sets : u # s => needs_resize'[u] = needs_resize[u]
      /\ needs_resize'[s] \/ (new \subseteq storage[s] /\ needs_resize'[s] = needs_resize[s])
  <2>1. CASE needs_resize' = [needs_resize EXCEPT ![s] = @ \/ new # storage[s]]
    <3>1. needs_resize'[s] = (needs_resize[s] \/ new # storage[s])
      BY <2>1, <1>4 DEF WaitSetShape
    <3> QED BY <2>1, <3>1, <1>4 DEF WaitSetShape
  <2>2. CASE needs_resize' = needs_resize /\ new \subseteq storage[s]
    BY <2>2 DEF WaitSetShape
  <2> QED BY <2>1, <2>2, <1>7
<1> QED BY <1>1, <1>2, <1>4, <1>6, <1>7, <1>8, <1>9

LEMMA WaitingOnFinite ==
    \A s : IsFiniteSet(WaitingOn(s)) /\ Cardinality(WaitingOn(s)) \in Nat
<1> SUFFICES ASSUME NEW s PROVE IsFiniteSet(WaitingOn(s)) /\ Cardinality(WaitingOn(s)) \in Nat
  OBVIOUS
<1>1. WaitingOn(s) \in SUBSET Writers /\ IsFiniteSet(Writers)
  BY Assumed DEF WaitingOn
<1>2. IsFiniteSet(WaitingOn(s))
  BY <1>1, FS_Subset
<1> QED BY <1>2, FS_CardinalityType

(* Who waits for the lock of which set after a step of a writer. *)
LEMMA NoCallWaits ==
    ASSUME WaitSetShape, NEW w \in Writers
    PROVE  /\ call[w] = NoCall => ~\E s \in Sets : call[w].set = s
           /\ call[w] = NoCall => call[w].at = "idle"
           /\ call[w] # NoCall => call[w] \in CallRecord
<1>1. NoCall.set = 0 /\ NoCall.at = "idle"
  BY DEF NoCall
<1> QED BY <1>1, Assumed DEF WaitSetShape

LEMMA CallWaits ==
    ASSUME WaitSetShape, Locked, NEW w \in Writers, NEW s \in Sets, NEW o \in Ops,
           NEW b \in Batches \cup {<<>>}, Call(w, s, o, b)
    PROVE  /\ number_of_writers_waiting' \in [Sets -> Nat]
           /\ \A u \in Sets : number_of_writers_waiting'[u] = Cardinality(WaitingOn(u)')
<1>1. \A u \in Sets : number_of_writers_waiting[u] = Cardinality(WaitingOn(u))
  BY DEF Locked
<1>2. \A u \in Sets : u # s => WaitingOn(u)' = WaitingOn(u)
  BY CallFacts, NoCallWaits DEF WaitingOn
<1>3. CASE s \in Sequential
  <2>1. number_of_writers_waiting' = number_of_writers_waiting
    BY <1>3, CallFacts
  <2>2. WaitingOn(s)' = WaitingOn(s)
    BY <1>3, CallFacts, NoCallWaits DEF WaitingOn
  <2> QED BY <2>1, <2>2, <1>1, <1>2 DEF WaitSetShape
<1>4. CASE s \notin Sequential
  <2>1. number_of_writers_waiting' = [number_of_writers_waiting EXCEPT ![s] = @ + 1]
    BY <1>4, CallFacts DEF EnterWaiting
  <2>2. PICK S : S = WaitingOn(s)
    OBVIOUS
  <2>3. WaitingOn(s)' = S \cup {w}
    <3>1. call'[w].set = s /\ call'[w].at = "waiting"
      BY <1>4, CallFacts
    <3>2. \A v \in Writers : v # w => call'[v] = call[v]
      BY CallFacts
    <3> QED BY <3>1, <3>2, <2>2 DEF WaitingOn
  <2>4. w \notin S /\ IsFiniteSet(S) /\ Cardinality(S) \in Nat
    <3>1. call[w].at = "idle"
      BY CallFacts, NoCallWaits
    <3>2. w \notin S
      BY <3>1, <2>2 DEF WaitingOn
    <3> QED BY <3>2, <2>2, WaitingOnFinite
  <2>5. Cardinality(S \cup {w}) = Cardinality(S) + 1
    BY <2>4, FS_AddElement
  <2>6. \A u \in Sets : u # s => number_of_writers_waiting'[u] = number_of_writers_waiting[u]
    BY <2>1 DEF WaitSetShape
  <2>7. number_of_writers_waiting'[s] = number_of_writers_waiting[s] + 1
    BY <2>1 DEF WaitSetShape
  <2>8. number_of_writers_waiting' \in [Sets -> Nat]
    BY <2>1 DEF WaitSetShape
  <2>9. Cardinality(WaitingOn(s)') = number_of_writers_waiting'[s]
    BY <2>2, <2>3, <2>5, <2>7, <1>1
  <2> QED BY <2>6, <2>8, <2>9, <1>1, <1>2
<1> QED BY <1>3, <1>4

LEMMA WriteLockWaits ==
    ASSUME WaitSetShape, Locked, NEW w \in Writers, WriteLock(w)
    PROVE  /\ number_of_writers_waiting' \in [Sets -> Nat]
           /\ \A u \in Sets : number_of_writers_waiting'[u] = Cardinality(WaitingOn(u)')
<1>1. \A u \in Sets : number_of_writers_waiting[u] = Cardinality(WaitingOn(u))
  BY DEF Locked
<1>0. PICK s : s = call[w].set
  OBVIOUS
<1>2. /\ s \in Sets /\ call[w].at = "waiting" /\ call'[w].set = s /\ call'[w].at = "writing"
      /\ \A v \in Writers : v # w => call'[v] = call[v]
      /\ number_of_writers_waiting' = [number_of_writers_waiting EXCEPT ![s] = @ - 1]
  BY <1>0, WriteLockFacts
<1>3. \A u \in Sets : u # s => WaitingOn(u)' = WaitingOn(u)
  BY <1>0, <1>2 DEF WaitingOn
<1>4. PICK S : S = WaitingOn(s)
  OBVIOUS
<1>5. WaitingOn(s)' = S \ {w}
  BY <1>0, <1>2, <1>4 DEF WaitingOn
<1>6. w \in S /\ IsFiniteSet(S) /\ Cardinality(S) \in Nat
  BY <1>0, <1>2, <1>4, WaitingOnFinite DEF WaitingOn
<1>7. IsFiniteSet(S \ {w}) /\ Cardinality(S \ {w}) = Cardinality(S) - 1
  BY <1>6, FS_RemoveElement
<1>8. Cardinality(S \ {w}) \in Nat
  BY <1>7, FS_CardinalityType
<1>9. number_of_writers_waiting'[s] = number_of_writers_waiting[s] - 1
  BY <1>2 DEF WaitSetShape
<1>10. \A u \in Sets : u # s => number_of_writers_waiting'[u] = number_of_writers_waiting[u]
  BY <1>2 DEF WaitSetShape
<1>11. number_of_writers_waiting'[s] = Cardinality(S \ {w})
  BY <1>1, <1>2, <1>4, <1>7, <1>9
<1>12. number_of_writers_waiting' \in [Sets -> Nat]
  BY <1>2, <1>8, <1>9, <1>10, <1>11 DEF WaitSetShape
<1> QED BY <1>1, <1>3, <1>5, <1>10, <1>11, <1>12

LEMMA WriteWaits ==
    ASSUME WaitSetShape, Locked, NEW w \in Writers, Write(w)
    PROVE  /\ number_of_writers_waiting' \in [Sets -> Nat]
           /\ \A u \in Sets : number_of_writers_waiting'[u] = Cardinality(WaitingOn(u)')
<1>1. \A u \in Sets : number_of_writers_waiting[u] = Cardinality(WaitingOn(u))
  BY DEF Locked
<1>2. /\ call[w].at = "writing" /\ call'[w] = NoCall /\ \A v \in Writers : v # w => call'[v] = call[v]
      /\ number_of_writers_waiting' = number_of_writers_waiting
  BY WriteFacts
<1>3. \A u \in Sets : WaitingOn(u)' = WaitingOn(u)
  BY <1>2 DEF WaitingOn, NoCall
<1> QED BY <1>1, <1>2, <1>3 DEF WaitSetShape

LEMMA WritingKeepsShape ==
    ASSUME WaitSetShape, Locked, Writing
    PROVE  /\ WaitSetShape'
           /\ \A u \in Sets : number_of_writers_waiting'[u] = Cardinality(WaitingOn(u)')
<1>0. PICK w \in Writers : \/ \E s \in Sets, o \in Ops, b \in Batches \cup {<<>>} : Call(w, s, o, b)
                           \/ WriteLock(w) \/ Write(w)
  BY DEF Writing, Ops
<1>1. UNCHANGED <<held, pc, reader_active, ownership_reference_counter, owned, capacity,
                  rcl_wait_set, result, ready>>
  BY WritingFrame
<1>2. ASSUME NEW s \in Sets, NEW o \in Ops, NEW b \in Batches \cup {<<>>}, Call(w, s, o, b)
      PROVE  /\ WaitSetShape'
             /\ \A u \in Sets : number_of_writers_waiting'[u] = Cardinality(WaitingOn(u)')
  <2>1. /\ call' \in [Writers -> CallRecord \cup {NoCall}]
        /\ UNCHANGED <<storage, in_use, needs_resize, writer_active>>
    BY <1>2, CallFacts
  <2>2. interrupt' = interrupt \/ interrupt' = [interrupt EXCEPT ![s] = TRUE]
    BY <1>2, CallFacts DEF EnterWaiting
  <2>3. interrupt' \in [Sets -> BOOLEAN]
    BY <2>2 DEF WaitSetShape
  <2>4. /\ number_of_writers_waiting' \in [Sets -> Nat]
        /\ \A u \in Sets : number_of_writers_waiting'[u] = Cardinality(WaitingOn(u)')
    BY <1>2, CallWaits
  <2>5. WaitSetShape'
    BY <1>1, <2>1, <2>3, <2>4 DEF WaitSetShape
  <2> QED BY <2>4, <2>5
<1>3. CASE WriteLock(w)
  <2>1. PICK s : s = call[w].set
    OBVIOUS
  <2>2. /\ call' \in [Writers -> CallRecord \cup {NoCall}] /\ s \in Sets
        /\ UNCHANGED <<storage, in_use, needs_resize, interrupt>>
        /\ writer_active' = [writer_active EXCEPT ![s] = TRUE]
    BY <1>3, <2>1, WriteLockFacts
  <2>3. writer_active' \in [Sets -> BOOLEAN]
    BY <2>2 DEF WaitSetShape
  <2>4. /\ number_of_writers_waiting' \in [Sets -> Nat]
        /\ \A u \in Sets : number_of_writers_waiting'[u] = Cardinality(WaitingOn(u)')
    BY <1>3, WriteLockWaits
  <2>5. WaitSetShape'
    BY <1>1, <2>2, <2>3, <2>4 DEF WaitSetShape
  <2> QED BY <2>4, <2>5
<1>4. CASE Write(w)
  <2>1. PICK s : s = call[w].set
    OBVIOUS
  <2>2. /\ call' \in [Writers -> CallRecord \cup {NoCall}] /\ s \in Sets
        /\ UNCHANGED <<interrupt>>
        /\ storage' \in [Sets -> SUBSET Entities] /\ in_use' \subseteq Entities
        /\ needs_resize' \in [Sets -> BOOLEAN]
        /\ writer_active' = [writer_active EXCEPT ![s] = FALSE]
    BY <1>4, <2>1, WriteFacts
  <2>3. writer_active' \in [Sets -> BOOLEAN]
    BY <2>2 DEF WaitSetShape
  <2>4. /\ number_of_writers_waiting' \in [Sets -> Nat]
        /\ \A u \in Sets : number_of_writers_waiting'[u] = Cardinality(WaitingOn(u)')
    BY <1>4, WriteWaits
  <2>5. WaitSetShape'
    BY <1>1, <2>2, <2>3, <2>4 DEF WaitSetShape
  <2> QED BY <2>4, <2>5
<1> QED BY <1>0, <1>2, <1>3, <1>4

-----------------------------------------------------------------------------
(* The lock: writers. *)

LEMMA WritingKeepsLock ==
    ASSUME WaitSetShape, Locked, Writing
    PROVE  Locked'
<1>0. PICK w \in Writers : \/ \E s \in Sets, o \in Ops, b \in Batches \cup {<<>>} : Call(w, s, o, b)
                           \/ WriteLock(w) \/ Write(w)
  BY DEF Writing, Ops
<1>1. pc' = pc /\ reader_active' = reader_active
  BY WritingFrame
<1>2. \A u \in Sets : number_of_writers_waiting'[u] = Cardinality(WaitingOn(u)')
  BY WritingKeepsShape
<1> SUFFICES ASSUME NEW u \in Sets, u \notin Sequential
             PROVE  /\ reader_active'[u] <=> pc'[u] \in {"locked", "holding", "looking"}
                    /\ writer_active'[u] <=> \E v \in Writers : Inside(v, u)'
                    /\ \A v, x \in Writers : Inside(v, u)' /\ Inside(x, u)' => v = x
                    /\ ~(reader_active'[u] /\ writer_active'[u])
  BY <1>2 DEF Locked
<1>3. /\ reader_active[u] <=> pc[u] \in {"locked", "holding", "looking"}
      /\ writer_active[u] <=> \E v \in Writers : Inside(v, u)
      /\ \A v, x \in Writers : Inside(v, u) /\ Inside(x, u) => v = x
      /\ ~(reader_active[u] /\ writer_active[u])
  BY DEF Locked
<1>4. ASSUME NEW s \in Sets, NEW o \in Ops, NEW b \in Batches \cup {<<>>}, Call(w, s, o, b)
      PROVE  (\A v \in Writers : Inside(v, u)' <=> Inside(v, u)) /\ writer_active' = writer_active
  <2>1. /\ call[w] = NoCall /\ call'[w].set = s
        /\ call'[w].at = IF s \in Sequential THEN "writing" ELSE "waiting"
        /\ \A v \in Writers : v # w => call'[v] = call[v]
        /\ writer_active' = writer_active
    BY <1>4, CallFacts
  <2>2. ~Inside(w, u) /\ ~Inside(w, u)'
    BY <2>1 DEF Inside, NoCall
  <2> QED BY <2>1, <2>2 DEF Inside
<1>5. CASE WriteLock(w)
  <2>1. PICK s : s = call[w].set
    OBVIOUS
  <2>2. /\ s \in Sets /\ ~reader_active[s] /\ ~writer_active[s]
        /\ call'[w].set = s /\ call'[w].at = "writing" /\ call[w].at = "waiting"
        /\ \A v \in Writers : v # w => call'[v] = call[v]
        /\ writer_active' = [writer_active EXCEPT ![s] = TRUE]
    BY <1>5, <2>1, WriteLockFacts
  <2>3. CASE u = s
    <3>1. writer_active'[u] = TRUE
      BY <2>2, <2>3 DEF WaitSetShape
    <3>2. Inside(w, u)' /\ \A v \in Writers : v # w => ~Inside(v, u)'
      BY <2>2, <2>3, <1>3 DEF Inside
    <3> QED BY <3>1, <3>2, <2>2, <2>3, <1>1, <1>3
  <2>4. CASE u # s
    <3>1. writer_active'[u] = writer_active[u]
      BY <2>2, <2>4 DEF WaitSetShape
    <3>2. \A v \in Writers : Inside(v, u)' <=> Inside(v, u)
      BY <2>1, <2>2, <2>4 DEF Inside
    <3> QED BY <3>1, <3>2, <1>1, <1>3
  <2> QED BY <2>3, <2>4
<1>6. CASE Write(w)
  <2>1. PICK s : s = call[w].set
    OBVIOUS
  <2>2. /\ s \in Sets /\ call[w].at = "writing" /\ call'[w] = NoCall
        /\ \A v \in Writers : v # w => call'[v] = call[v]
        /\ writer_active' = [writer_active EXCEPT ![s] = FALSE]
    BY <1>6, <2>1, WriteFacts
  <2>3. ~Inside(w, u)'
    BY <2>2 DEF Inside, NoCall
  <2>4. CASE u = s
    <3>1. writer_active'[u] = FALSE
      BY <2>2, <2>4 DEF WaitSetShape
    <3>2. \A v \in Writers : ~Inside(v, u)'
      BY <2>1, <2>2, <2>3, <2>4, <1>3 DEF Inside
    <3> QED BY <3>1, <3>2, <1>1, <1>3
  <2>5. CASE u # s
    <3>1. writer_active'[u] = writer_active[u]
      BY <2>2, <2>5 DEF WaitSetShape
    <3>2. \A v \in Writers : Inside(v, u)' <=> Inside(v, u)
      BY <2>1, <2>2, <2>3, <2>5 DEF Inside
    <3> QED BY <3>1, <3>2, <1>1, <1>3
  <2> QED BY <2>4, <2>5
<1>7. CASE \E s \in Sets, o \in Ops, b \in Batches \cup {<<>>} : Call(w, s, o, b)
  BY <1>7, <1>4, <1>1, <1>3
<1> QED BY <1>0, <1>5, <1>6, <1>7

-----------------------------------------------------------------------------
(* The waiting thread. *)

LEMMA AcquireShape ==
    ASSUME WaitSetShape, Counted, NEW s \in Sets, AcquireOwnerships(s), pc[s] # "holding"
    PROVE  /\ ownership_reference_counter' \in [Sets -> 0..2] /\ owned' \in [Sets -> SUBSET Entities]
           /\ ownership_reference_counter'[s] = ownership_reference_counter[s] + 1
<1>1. ownership_reference_counter[s] \in 0..1
  BY DEF Counted, WaitSetShape
<1>2. PICK new : new \in SUBSET Entities /\ owned' = [owned EXCEPT ![s] = new]
  <2>1. PICK new : new = IF ownership_reference_counter[s] > 0 \/ s \in Static THEN owned[s]
                         ELSE {e \in storage[s] : Kind[e] # "subscription" /\ Referenced(e)}
    OBVIOUS
  <2>2. owned' = [owned EXCEPT ![s] = new]
    BY <2>1 DEF AcquireOwnerships, WaitSetShape
  <2>3. owned[s] \subseteq Entities /\ storage[s] \subseteq Entities
    BY DEF WaitSetShape
  <2>4. new \in SUBSET Entities
    BY <2>1, <2>3
  <2> QED BY <2>2, <2>4
<1>3. owned' \in [Sets -> SUBSET Entities]
  BY <1>2 DEF WaitSetShape
<1>4. ownership_reference_counter' = [ownership_reference_counter EXCEPT ![s] = @ + 1]
  BY DEF AcquireOwnerships
<1> QED BY <1>1, <1>3, <1>4 DEF WaitSetShape

LEMMA ReleaseShape ==
    ASSUME WaitSetShape, Counted, NEW s \in Sets, ReleaseOwnerships(s), pc[s] # "idle"
    PROVE  /\ ownership_reference_counter' \in [Sets -> 0..2] /\ owned' \in [Sets -> SUBSET Entities]
           /\ ownership_reference_counter'[s] = ownership_reference_counter[s] - 1
<1>1. ownership_reference_counter[s] \in 1..2
  BY DEF Counted, WaitSetShape
<1>2. owned' = [owned EXCEPT ![s] = IF ownership_reference_counter[s] > 1 THEN owned[s] ELSE {}]
  BY DEF ReleaseOwnerships, WaitSetShape
<1>3. owned' \in [Sets -> SUBSET Entities]
  BY <1>2 DEF WaitSetShape
<1>4. ownership_reference_counter' = [ownership_reference_counter EXCEPT ![s] = @ - 1]
  BY DEF ReleaseOwnerships
<1> QED BY <1>1, <1>3, <1>4 DEF WaitSetShape

LEMMA StoredFinite ==
    ASSUME WaitSetShape, NEW s \in Sets
    PROVE  IsFiniteSet(storage[s]) /\ Cardinality(storage[s]) \in Nat
<1>1. storage[s] \in SUBSET Entities /\ IsFiniteSet(Entities)
  BY Assumed DEF WaitSetShape
<1>2. IsFiniteSet(storage[s])
  BY <1>1, FS_Subset
<1> QED BY <1>2, FS_CardinalityType

LEMMA WaitingKeepsShape ==
    ASSUME WaitSetShape, Counted, NEW s \in Sets, Waiting(s)
    PROVE  WaitSetShape'
<1>0. UNCHANGED <<storage, in_use, held, number_of_writers_waiting, writer_active, call>>
  BY WaitingFrame
<1>r. ASSUME NEW x \in SUBSET (Entities \cup {Interrupt}), result' = [result EXCEPT ![s] = x]
      PROVE  result' \in [Sets -> SUBSET (Entities \cup {Interrupt})]
  BY <1>r DEF WaitSetShape
<1> USE DEF Pcs
<1>1. CASE Wait(s)
  <2>1. /\ pc' \in [Sets -> Pcs] /\ pc[s] # "holding" /\ AcquireOwnerships(s)
        /\ UNCHANGED <<needs_resize, reader_active, capacity, rcl_wait_set, result, ready, interrupt>>
    BY <1>1 DEF Wait, WaitSetShape, store, lock
  <2> QED BY <2>1, <1>0, AcquireShape DEF WaitSetShape
<1>2. CASE ReadLock(s)
  BY <1>0, <1>2 DEF ReadLock, WaitSetShape, store, refs
<1>3. CASE Rebuild(s)
  <2>1. /\ pc' \in [Sets -> Pcs] /\ reader_active' \in [Sets -> BOOLEAN]
        /\ needs_resize' \in [Sets -> BOOLEAN]
        /\ UNCHANGED <<owned, ownership_reference_counter, result, ready, interrupt>>
    BY <1>3 DEF Rebuild, WaitSetShape, refs
  <2>2. capacity' \in [Sets -> Nat]
    BY <1>3, StoredFinite DEF Rebuild, WaitSetShape
  <2>3. rcl_wait_set' \in [Sets -> SUBSET Entities]
    <3>1. PICK new : new = {e \in storage[s] : Referenced(e)}
      OBVIOUS
    <3>2. new \in SUBSET Entities
      BY <3>1 DEF WaitSetShape
    <3>3. rcl_wait_set' = [rcl_wait_set EXCEPT ![s] = new]
      BY <1>3, <3>1 DEF Rebuild
    <3> QED BY <3>2, <3>3 DEF WaitSetShape
  <2> QED BY <2>1, <2>2, <2>3, <1>0 DEF WaitSetShape
<1>4. CASE RclWaitOK(s)
  <2>1. /\ pc' \in [Sets -> Pcs] /\ interrupt' \in [Sets -> BOOLEAN] /\ ready' \subseteq Entities
        /\ UNCHANGED <<needs_resize, reader_active, owned, ownership_reference_counter, capacity,
                       rcl_wait_set>>
    BY <1>4 DEF RclWaitOK, WaitSetShape, store, refs, lock
  <2>2. PICK new : new = Reported(s)
    OBVIOUS
  <2>3. new \in SUBSET (Entities \cup {Interrupt})
    BY <2>2 DEF Reported, Extra, WaitSetShape
  <2>4. result' \in [Sets -> SUBSET (Entities \cup {Interrupt})]
    BY <2>2, <2>3, <1>4, <1>r DEF RclWaitOK
  <2> QED BY <2>1, <2>4, <1>0 DEF WaitSetShape
<1>5. CASE Returned(s)
  <2>1. /\ UNCHANGED <<needs_resize, reader_active, capacity, rcl_wait_set, ready, interrupt>>
        /\ pc[s] = "returned"
    BY <1>5 DEF Returned, WaitSetShape, store, lock
  <2>2. \/ pc' = [pc EXCEPT ![s] = "ready"]
        \/ pc' = [pc EXCEPT ![s] = "rebuild"]
        \/ pc' = [pc EXCEPT ![s] = "idle"]
    BY <1>5 DEF Returned
  <2>3. pc' \in [Sets -> Pcs]
    BY <2>2 DEF WaitSetShape
  <2>4. result' = result \/ result' = [result EXCEPT ![s] = {}]
    BY <1>5 DEF Returned
  <2>5. result' \in [Sets -> SUBSET (Entities \cup {Interrupt})]
    BY <2>4, <1>r DEF WaitSetShape
  <2>6. UNCHANGED <<owned, ownership_reference_counter>> \/ ReleaseOwnerships(s)
    BY <1>5 DEF Returned, refs
  <2>7. ownership_reference_counter' \in [Sets -> 0..2] /\ owned' \in [Sets -> SUBSET Entities]
    BY <2>1, <2>6, ReleaseShape DEF WaitSetShape
  <2> QED BY <2>1, <2>3, <2>5, <2>7, <1>0 DEF WaitSetShape
<1>6. CASE TimeoutOrEmpty(s)
  <2>1. /\ pc' \in [Sets -> Pcs] /\ pc[s] # "idle" /\ ReleaseOwnerships(s)
        /\ UNCHANGED <<needs_resize, reader_active, capacity, rcl_wait_set, result, ready, interrupt>>
    BY <1>6 DEF TimeoutOrEmpty, WaitSetShape, store, lock
  <2> QED BY <2>1, <1>0, ReleaseShape DEF WaitSetShape
<1>7. CASE WaitResultAcquire(s)
  <2>1. /\ pc' \in [Sets -> Pcs] /\ pc[s] # "holding" /\ AcquireOwnerships(s)
        /\ UNCHANGED <<needs_resize, capacity, rcl_wait_set, result, ready, interrupt>>
    BY <1>7 DEF WaitResultAcquire, WaitSetShape, store
  <2>2. reader_active' \in [Sets -> BOOLEAN]
    BY <1>7 DEF WaitResultAcquire, WaitSetShape
  <2> QED BY <2>1, <2>2, <1>0, AcquireShape DEF WaitSetShape
<1>8. CASE WaitReturns(s)
  <2>1. /\ pc' \in [Sets -> Pcs] /\ pc[s] # "idle" /\ ReleaseOwnerships(s)
        /\ UNCHANGED <<needs_resize, reader_active, capacity, rcl_wait_set, result, ready, interrupt>>
    BY <1>8 DEF WaitReturns, WaitSetShape, store, lock
  <2> QED BY <2>1, <1>0, ReleaseShape DEF WaitSetShape
<1>9. CASE WaitResultRelease(s)
  <2>1. /\ pc' \in [Sets -> Pcs] /\ pc[s] # "idle" /\ ReleaseOwnerships(s)
        /\ reader_active' \in [Sets -> BOOLEAN] /\ ready' \subseteq Entities
        /\ UNCHANGED <<needs_resize, capacity, rcl_wait_set, interrupt>>
    BY <1>9 DEF WaitResultRelease, WaitSetShape, store
  <2>2. result' \in [Sets -> SUBSET (Entities \cup {Interrupt})]
    BY <1>9, <1>r DEF WaitResultRelease
  <2> QED BY <2>1, <2>2, <1>0, ReleaseShape DEF WaitSetShape
<1> QED BY <1>1, <1>2, <1>3, <1>4, <1>5, <1>6, <1>7, <1>8, <1>9 DEF Waiting

(* The places the thread goes through, with the read lock and the reference counter. *)
Move(s, from, to) == pc[s] = from /\ pc'[s] = to
SameReader(s) == reader_active'[s] = reader_active[s]
CountBy(s, d) == ownership_reference_counter'[s] = ownership_reference_counter[s] + d

LEMMA WaitingMoves ==
    ASSUME WaitSetShape, Counted, NEW s \in Sets, Waiting(s)
    PROVE  \/ Move(s, "idle", "rebuild") /\ SameReader(s) /\ CountBy(s, 1)
           \/ /\ Move(s, "rebuild", "locked") /\ ReadLockFree(s) /\ reader_active'[s]
              /\ CountBy(s, 0) /\ interrupt' = interrupt
           \/ /\ Move(s, "locked", "wait") /\ ~reader_active'[s] /\ CountBy(s, 0)
              /\ interrupt' = interrupt /\ rcl_wait_set'[s] = Live(storage[s])
           \/ Move(s, "wait", "returned") /\ SameReader(s) /\ CountBy(s, 0)
           \/ Move(s, "returned", "ready") /\ SameReader(s) /\ CountBy(s, 0)
           \/ Move(s, "returned", "rebuild") /\ SameReader(s) /\ CountBy(s, 0)
           \/ Move(s, "returned", "idle") /\ SameReader(s) /\ CountBy(s, -1)
           \/ Move(s, "wait", "idle") /\ SameReader(s) /\ CountBy(s, -1)
           \/ /\ Move(s, "ready", "holding") /\ (s \notin Sequential => ReadLockFree(s))
              /\ reader_active'[s] = (s \notin Sequential) /\ CountBy(s, 1)
           \/ Move(s, "holding", "looking") /\ SameReader(s) /\ CountBy(s, -1)
           \/ Move(s, "looking", "idle") /\ ~reader_active'[s] /\ CountBy(s, -1)
<1> USE DEF Move, SameReader, CountBy
<1>0. ownership_reference_counter[s] \in 0..2
  BY DEF WaitSetShape
<1>1. CASE Wait(s)
  BY <1>1, AcquireShape DEF Wait, WaitSetShape, lock
<1>2. CASE ReadLock(s)
  BY <1>0, <1>2 DEF ReadLock, WaitSetShape, refs
<1>3. CASE Rebuild(s)
  <2>1. Move(s, "locked", "wait") /\ ~reader_active'[s] /\ CountBy(s, 0) /\ interrupt' = interrupt
    BY <1>0, <1>3 DEF Rebuild, WaitSetShape, refs
  <2>2. rcl_wait_set'[s] = {e \in storage[s] : Referenced(e)}
    BY <1>3 DEF Rebuild, WaitSetShape
  <2> QED BY <2>1, <2>2 DEF Live
<1>4. CASE RclWaitOK(s)
  BY <1>0, <1>4 DEF RclWaitOK, WaitSetShape, refs, lock
<1>5. CASE Returned(s)
  BY <1>0, <1>5, ReleaseShape DEF Returned, WaitSetShape, refs, lock
<1>6. CASE TimeoutOrEmpty(s)
  BY <1>0, <1>6, ReleaseShape DEF TimeoutOrEmpty, WaitSetShape, lock
<1>7. CASE WaitResultAcquire(s)
  <2>1. Move(s, "ready", "holding") /\ (s \notin Sequential => ReadLockFree(s))
    BY <1>7 DEF WaitResultAcquire, WaitSetShape
  <2>2. reader_active'[s] = (s \notin Sequential)
    BY <1>7 DEF WaitResultAcquire, WaitSetShape
  <2>3. CountBy(s, 1)
    BY <1>7, AcquireShape DEF WaitResultAcquire
  <2> QED BY <2>1, <2>2, <2>3
<1>8. CASE WaitReturns(s)
  BY <1>0, <1>8, ReleaseShape DEF WaitReturns, WaitSetShape, lock
<1>9. CASE WaitResultRelease(s)
  BY <1>0, <1>9, ReleaseShape DEF WaitResultRelease, WaitSetShape
<1> QED BY <1>1, <1>2, <1>3, <1>4, <1>5, <1>6, <1>7, <1>8, <1>9 DEF Waiting

LEMMA WaitingKeepsLock ==
    ASSUME WaitSetShape, Locked, Counted, NEW s \in Sets, Waiting(s)
    PROVE  Locked'
<1>1. /\ UNCHANGED <<number_of_writers_waiting, writer_active, call>>
      /\ \A u \in Sets : u # s => pc'[u] = pc[u] /\ reader_active'[u] = reader_active[u]
  BY WaitingFrame
<1>2. \A u \in Sets : WaitingOn(u)' = WaitingOn(u)
  BY <1>1 DEF WaitingOn
<1>3. \A u \in Sets, w \in Writers : Inside(w, u)' = Inside(w, u)
  BY <1>1 DEF Inside
<1>4. s \notin Sequential => /\ reader_active'[s] <=> pc'[s] \in {"locked", "holding", "looking"}
                             /\ ~(reader_active'[s] /\ writer_active[s])
  <2>1. s \notin Sequential => /\ reader_active[s] <=> pc[s] \in {"locked", "holding", "looking"}
                               /\ ~(reader_active[s] /\ writer_active[s])
    BY DEF Locked
  <2> QED BY <2>1, WaitingMoves DEF Move, SameReader, ReadLockFree
<1> QED BY <1>1, <1>2, <1>3, <1>4 DEF Locked

LEMMA WaitingKeepsCount ==
    ASSUME WaitSetShape, Counted, NEW s \in Sets, Waiting(s)
    PROVE  Counted'
<1>1. \A u \in Sets : u # s => /\ pc'[u] = pc[u]
                               /\ ownership_reference_counter'[u] = ownership_reference_counter[u]
  BY WaitingFrame
<1>2. ownership_reference_counter[s] =
          CASE pc[s] = "idle" -> 0 [] pc[s] = "holding" -> 2 [] OTHER -> 1
  BY DEF Counted
<1>3. ownership_reference_counter'[s] =
          CASE pc'[s] = "idle" -> 0 [] pc'[s] = "holding" -> 2 [] OTHER -> 1
  BY <1>2, WaitingMoves DEF Move, CountBy
<1> QED BY <1>1, <1>3 DEF Counted

(* With no writer in the lock and none waiting for it, there is no call at all. *)
LEMMA LockFreeNoCall ==
    ASSUME WaitSetShape, Locked, NEW s \in Sets, s \notin Sequential, ReadLockFree(s)
    PROVE  ~\E w \in Writers : call[w].set = s
<1>1. Cardinality(WaitingOn(s)) = 0 /\ ~\E w \in Writers : Inside(w, s)
  BY DEF Locked, ReadLockFree
<1>2. IsFiniteSet(WaitingOn(s))
  BY WaitingOnFinite
<1>3. WaitingOn(s) = {}
  BY <1>1, <1>2, FS_EmptySet
<1>4. ASSUME NEW w \in Writers, call[w].set = s PROVE FALSE
  <2>1. call[w] \in CallRecord
    BY <1>4, NoCallWaits
  <2>2. call[w].at = "waiting" \/ call[w].at = "writing"
    BY <2>1 DEF CallRecord
  <2> QED BY <2>2, <1>1, <1>3, <1>4 DEF WaitingOn, Inside
<1> QED BY <1>4

(* What both waits and storages are compared by shrinks alike. *)
LEMMA LiveKept ==
    ASSUME NEW S, NEW T, Live(S) = Live(T), \A e : Referenced(e)' => Referenced(e)
    PROVE  {e \in S : Referenced(e)'} = {e \in T : Referenced(e)'}
BY DEF Live

LEMMA WaitingKeepsSleep ==
    ASSUME WaitSetShape, Locked, Sleeping, Counted, NEW s \in Sets, Waiting(s)
    PROVE  Sleeping'
<1>1. /\ call' = call /\ storage' = storage
      /\ \A u \in Sets : u # s => /\ pc'[u] = pc[u] /\ rcl_wait_set'[u] = rcl_wait_set[u]
                                  /\ interrupt'[u] = interrupt[u]
  BY WaitingFrame
<1>2. \A e : Referenced(e)' => Referenced(e)
  BY WaitingReferences
<1> SUFFICES ASSUME NEW u \in Sets \ Sequential
             PROVE  /\ pc'[u] \in {"locked", "wait"} /\ (\E w \in Writers : call'[w].set = u)
                          => interrupt'[u]
                    /\ pc'[u] = "wait" /\ ~interrupt'[u]
                          => Live(rcl_wait_set[u])' = Live(storage[u])'
  BY DEF Sleeping
<1>3. /\ pc[u] \in {"locked", "wait"} /\ (\E w \in Writers : call[w].set = u) => interrupt[u]
      /\ pc[u] = "wait" /\ ~interrupt[u] => Live(rcl_wait_set[u]) = Live(storage[u])
  BY DEF Sleeping
<1>4. CASE u # s
  <2>1. PICK S, T : S = rcl_wait_set[u] /\ T = storage[u]
    OBVIOUS
  <2>2. rcl_wait_set'[u] = S /\ storage'[u] = T
    BY <1>1, <1>4, <2>1
  <2>3. Live(rcl_wait_set[u])' = {e \in S : Referenced(e)'} /\ Live(storage[u])' = {e \in T : Referenced(e)'}
    BY <2>2 DEF Live
  <2> QED BY <1>1, <1>2, <1>3, <1>4, <2>1, <2>3, LiveKept
<1>5. CASE u = s
  <2>1. pc'[s] \notin {"locked", "wait"} \/ Move(s, "rebuild", "locked") \/ Move(s, "locked", "wait")
    BY WaitingMoves DEF Move
  <2>2. CASE pc'[s] \notin {"locked", "wait"}
    BY <2>2, <1>5
  <2>3. CASE Move(s, "rebuild", "locked")
    <3>1. ReadLockFree(s) /\ interrupt' = interrupt /\ pc'[s] = "locked"
      BY <2>3, WaitingMoves DEF Move
    <3>2. ~\E w \in Writers : call[w].set = s
      BY <3>1, <1>5, LockFreeNoCall
    <3> QED BY <3>1, <3>2, <1>1, <1>5
  <2>4. CASE Move(s, "locked", "wait")
    <3>1. interrupt' = interrupt /\ rcl_wait_set'[s] = Live(storage[s]) /\ pc[s] = "locked"
      BY <2>4, WaitingMoves DEF Move
    <3>2. PICK T : T = storage[s]
      OBVIOUS
    <3>3. rcl_wait_set'[s] = {e \in T : Referenced(e)} /\ storage'[s] = T
      BY <3>1, <3>2, <1>1 DEF Live
    <3>4. Live(rcl_wait_set[s])' = {e \in T : Referenced(e)'}
      BY <3>3, <1>2 DEF Live
    <3>5. Live(storage[s])' = {e \in T : Referenced(e)'}
      BY <3>3 DEF Live
    <3> QED BY <3>1, <3>4, <3>5, <1>1, <1>3, <1>5
  <2> QED BY <2>1, <2>2, <2>3, <2>4
<1> QED BY <1>4, <1>5

LEMMA WaitingKeepsSize ==
    ASSUME WaitSetShape, Sized, NEW s \in Sets, Waiting(s)
    PROVE  Sized'
<1>1. /\ storage' = storage
      /\ \A u \in Sets : u # s => needs_resize'[u] = needs_resize[u] /\ capacity'[u] = capacity[u]
  BY WaitingFrame
<1>2. \/ needs_resize' = needs_resize /\ capacity' = capacity
      \/ capacity'[s] = IF needs_resize[s] THEN Cardinality(storage[s]) ELSE capacity[s]
  BY DEF Waiting, Wait, ReadLock, Rebuild, RclWaitOK, Returned, TimeoutOrEmpty, WaitResultAcquire,
         WaitReturns, WaitResultRelease, store, WaitSetShape
<1>3. needs_resize[s] \/ Cardinality(storage[s]) <= capacity[s]
  BY DEF Sized
<1>4. Cardinality(storage[s]) \in Nat
  BY StoredFinite
<1>5. needs_resize'[s] \/ Cardinality(storage[s]) <= capacity'[s]
  BY <1>2, <1>3, <1>4
<1> QED BY <1>1, <1>5 DEF Sized

-----------------------------------------------------------------------------
(* Writers: sleeping threads, sizes and references. *)

LEMMA WritingKeepsSleep ==
    ASSUME WaitSetShape, Locked, Sleeping, Writing
    PROVE  Sleeping'
<1>0. PICK w \in Writers : \/ \E s \in Sets, o \in Ops, b \in Batches \cup {<<>>} : Call(w, s, o, b)
                           \/ WriteLock(w) \/ Write(w)
  BY DEF Writing, Ops
<1>1. pc' = pc /\ rcl_wait_set' = rcl_wait_set
  BY WritingFrame
<1>2. \A e : Referenced(e)' => Referenced(e)
  BY WritingReferences
<1> SUFFICES ASSUME NEW u \in Sets \ Sequential
             PROVE  /\ pc'[u] \in {"locked", "wait"} /\ (\E v \in Writers : call'[v].set = u)
                          => interrupt'[u]
                    /\ pc'[u] = "wait" /\ ~interrupt'[u]
                          => Live(rcl_wait_set[u])' = Live(storage[u])'
  BY DEF Sleeping
<1>3. /\ pc[u] \in {"locked", "wait"} /\ (\E v \in Writers : call[v].set = u) => interrupt[u]
      /\ pc[u] = "wait" /\ ~interrupt[u] => Live(rcl_wait_set[u]) = Live(storage[u])
  BY DEF Sleeping
<1>4. ASSUME storage'[u] = storage[u], interrupt'[u] = interrupt[u],
             (\E v \in Writers : call'[v].set = u) => (\E v \in Writers : call[v].set = u)
      PROVE  /\ pc'[u] \in {"locked", "wait"} /\ (\E v \in Writers : call'[v].set = u)
                   => interrupt'[u]
             /\ pc'[u] = "wait" /\ ~interrupt'[u]
                   => Live(rcl_wait_set[u])' = Live(storage[u])'
  <2>1. PICK S, T : S = rcl_wait_set[u] /\ T = storage[u]
    OBVIOUS
  <2>2. rcl_wait_set'[u] = S /\ storage'[u] = T
    BY <1>1, <1>4, <2>1
  <2>3. Live(rcl_wait_set[u])' = {e \in S : Referenced(e)'} /\ Live(storage[u])' = {e \in T : Referenced(e)'}
    BY <2>2 DEF Live
  <2> QED BY <1>1, <1>2, <1>3, <1>4, <2>1, <2>3, LiveKept
<1>5. ASSUME NEW s \in Sets, NEW o \in Ops, NEW b \in Batches \cup {<<>>}, Call(w, s, o, b)
      PROVE  \/ interrupt'[u]
             \/ /\ storage'[u] = storage[u] /\ interrupt'[u] = interrupt[u]
                /\ (\E v \in Writers : call'[v].set = u) => (\E v \in Writers : call[v].set = u)
  <2>1. /\ call'[w].set = s /\ \A v \in Writers : v # w => call'[v] = call[v]
        /\ storage' = storage
        /\ s \in Sequential => interrupt' = interrupt
        /\ s \notin Sequential => interrupt' = [interrupt EXCEPT ![s] = TRUE]
    BY <1>5, CallFacts DEF EnterWaiting
  <2>2. CASE u = s
    BY <2>1, <2>2 DEF WaitSetShape
  <2>3. CASE u # s
    BY <2>1, <2>3 DEF WaitSetShape
  <2> QED BY <2>2, <2>3
<1>6. CASE \E s \in Sets, o \in Ops, b \in Batches \cup {<<>>} : Call(w, s, o, b)
  <2>1. \/ interrupt'[u]
        \/ /\ storage'[u] = storage[u] /\ interrupt'[u] = interrupt[u]
           /\ (\E v \in Writers : call'[v].set = u) => (\E v \in Writers : call[v].set = u)
    BY <1>5, <1>6
  <2> QED BY <2>1, <1>4
<1>7. CASE WriteLock(w)
  <2>1. PICK s : s = call[w].set
    OBVIOUS
  <2>2. /\ call'[w].set = s /\ \A v \in Writers : v # w => call'[v] = call[v]
        /\ storage' = storage /\ interrupt' = interrupt
    BY <1>7, <2>1, WriteLockFacts
  <2>3. (\E v \in Writers : call'[v].set = u) => (\E v \in Writers : call[v].set = u)
    BY <2>1, <2>2
  <2> QED BY <2>2, <2>3, <1>4
<1>8. CASE Write(w)
  <2>1. PICK s : s = call[w].set
    OBVIOUS
  <2>2. /\ call'[w] = NoCall /\ \A v \in Writers : v # w => call'[v] = call[v]
        /\ interrupt' = interrupt /\ \A x \in Sets : x # s => storage'[x] = storage[x]
    BY <1>8, <2>1, WriteFacts
  <2>3. (\E v \in Writers : call'[v].set = u) => (\E v \in Writers : call[v].set = u)
    BY <2>2, Assumed DEF NoCall
  <2>4. CASE u = s
    BY <2>1, <2>2, <2>4, <1>1, <1>3
  <2>5. CASE u # s
    BY <2>2, <2>3, <2>5, <1>4
  <2> QED BY <2>4, <2>5
<1> QED BY <1>0, <1>6, <1>7, <1>8

LEMMA WritingKeepsSize ==
    ASSUME WaitSetShape, Sized, Writing
    PROVE  Sized'
<1>0. PICK w \in Writers : \/ \E s \in Sets, o \in Ops, b \in Batches \cup {<<>>} : Call(w, s, o, b)
                           \/ WriteLock(w) \/ Write(w)
  BY DEF Writing, Ops
<1>1. capacity' = capacity
  BY WritingFrame
<1>2. CASE \E s \in Sets, o \in Ops, b \in Batches \cup {<<>>} : Call(w, s, o, b)
  BY <1>1, <1>2, CallFacts DEF Sized
<1>3. CASE WriteLock(w)
  BY <1>1, <1>3, WriteLockFacts DEF Sized
<1>4. CASE Write(w)
  <2>1. PICK s : s = call[w].set
    OBVIOUS
  <2>2. /\ s \in Sets
        /\ \A u \in Sets : u # s => storage'[u] = storage[u] /\ needs_resize'[u] = needs_resize[u]
        /\ needs_resize'[s] \/ (storage'[s] \subseteq storage[s] /\ needs_resize'[s] = needs_resize[s])
    BY <1>4, <2>1, WriteFacts
  <2>3. needs_resize'[s] \/ Cardinality(storage'[s]) <= capacity'[s]
    <3>1. SUFFICES ASSUME ~needs_resize'[s] PROVE Cardinality(storage'[s]) <= capacity'[s]
      OBVIOUS
    <3>2. storage'[s] \in SUBSET storage[s] /\ ~needs_resize[s]
      BY <2>2, <3>1
    <3>3. IsFiniteSet(storage[s]) /\ Cardinality(storage[s]) \in Nat
      BY <2>2, StoredFinite
    <3>4. IsFiniteSet(storage'[s]) /\ Cardinality(storage'[s]) <= Cardinality(storage[s])
      BY <3>2, <3>3, FS_Subset
    <3>5. Cardinality(storage'[s]) \in Nat
      BY <3>4, FS_CardinalityType
    <3>6. Cardinality(storage[s]) <= capacity[s] /\ capacity[s] \in Nat
      BY <2>2, <3>2 DEF Sized, WaitSetShape
    <3> QED BY <1>1, <3>3, <3>4, <3>5, <3>6
  <2> QED BY <1>1, <2>2, <2>3 DEF Sized
<1> QED BY <1>0, <1>2, <1>3, <1>4

(* The environment: an entity becomes ready, or its last user lets go of it. *)
LEMMA EnvironmentKeeps ==
    ASSUME LockInv, NEW e \in Entities, BecomeReady(e) \/ Drop(e)
    PROVE  LockInv'
<1>1. /\ UNCHANGED <<storage, in_use, needs_resize, owned, ownership_reference_counter, pc, call,
                     number_of_writers_waiting, writer_active, reader_active, capacity,
                     rcl_wait_set, result, interrupt>>
      /\ held' \subseteq held
      /\ ready' \subseteq ready \cup {e}
  BY DEF BecomeReady, Drop, store, refs, lock
<1>2. WaitSetShape'
  BY <1>1 DEF LockInv, WaitSetShape
<1>3. Locked'
  BY <1>1 DEF LockInv, Locked, WaitingOn, Inside
<1>4. \A x : Referenced(x)' => Referenced(x)
  BY <1>1 DEF Referenced
<1>5. Sleeping'
  <2> SUFFICES ASSUME NEW u \in Sets \ Sequential, pc[u] = "wait", ~interrupt[u]
               PROVE  Live(rcl_wait_set[u])' = Live(storage[u])'
    BY <1>1 DEF LockInv, Sleeping
  <2>1. Live(rcl_wait_set[u]) = Live(storage[u])
    BY DEF LockInv, Sleeping
  <2>2. PICK S, T : S = rcl_wait_set[u] /\ T = storage[u]
    OBVIOUS
  <2>3. Live(rcl_wait_set[u])' = {x \in S : Referenced(x)'} /\ Live(storage[u])' = {x \in T : Referenced(x)'}
    BY <1>1, <2>2 DEF Live
  <2> QED BY <1>4, <2>1, <2>2, <2>3, LiveKept
<1>6. Sized' /\ Counted'
  BY <1>1 DEF LockInv, Sized, Counted
<1> QED BY <1>2, <1>3, <1>5, <1>6 DEF LockInv

LEMMA WaitSetStart ==
    WaitSetInit => LockInv
<1> SUFFICES ASSUME WaitSetInit PROVE LockInv
  OBVIOUS
<1>1. storage \in [Sets -> SUBSET Entities]
  BY Assumed DEF WaitSetInit, Constructed
<1>2. \A s \in Sets : IsFiniteSet(storage[s]) /\ Cardinality(storage[s]) \in Nat
  <2>1. ASSUME NEW s \in Sets PROVE IsFiniteSet(storage[s])
    BY <1>1, Assumed, FS_Subset
  <2> QED BY <2>1, FS_CardinalityType
<1>3. WaitSetShape
  BY <1>1, <1>2 DEF WaitSetInit, WaitSetShape, Pcs
<1>4. \A w \in Writers : call[w].at = "idle" /\ call[w].set = 0
  BY DEF WaitSetInit, NoCall
<1>5. Locked
  <2>1. \A s \in Sets : WaitingOn(s) = {}
    BY <1>4 DEF WaitingOn
  <2>2. \A s \in Sets : Cardinality(WaitingOn(s)) = 0
    BY <2>1, FS_EmptySet
  <2>3. \A s \in Sets : ~\E w \in Writers : Inside(w, s)
    BY <1>4 DEF Inside
  <2> QED BY <2>2, <2>3 DEF WaitSetInit, Locked
<1>6. Sleeping
  BY DEF WaitSetInit, Sleeping
<1>7. Sized
  BY <1>2 DEF WaitSetInit, Sized
<1>8. Counted
  BY DEF WaitSetInit, Counted
<1> QED BY <1>3, <1>5, <1>6, <1>7, <1>8 DEF LockInv

LEMMA WaitSetStep ==
    LockInv /\ [WaitSetNext]_waitSetVars => LockInv'
<1> SUFFICES ASSUME LockInv, [WaitSetNext]_waitSetVars PROVE LockInv'
  OBVIOUS
<1>1. CASE Writing
  <2>1. WaitSetShape' /\ Locked' /\ Sleeping' /\ Sized'
    BY <1>1, WritingKeepsShape, WritingKeepsLock, WritingKeepsSleep, WritingKeepsSize DEF LockInv
  <2>2. Counted'
    BY <1>1, WritingFrame DEF LockInv, Counted
  <2> QED BY <2>1, <2>2 DEF LockInv
<1>2. ASSUME NEW s \in Sets, Waiting(s) PROVE LockInv'
  BY <1>2, WaitingKeepsShape, WaitingKeepsLock, WaitingKeepsSleep, WaitingKeepsSize,
     WaitingKeepsCount DEF LockInv
<1>3. ASSUME NEW e \in Entities, BecomeReady(e) \/ Drop(e) PROVE LockInv'
  BY <1>3, EnvironmentKeeps
<1>4. CASE UNCHANGED waitSetVars
  <2>1. UNCHANGED <<storage, in_use, needs_resize, owned, ownership_reference_counter, pc, call,
                    number_of_writers_waiting, writer_active, reader_active, capacity,
                    rcl_wait_set, result, interrupt, held, ready>>
    BY <1>4 DEF waitSetVars, store, refs, lock
  <2>2. WaitSetShape' /\ Locked' /\ Sized' /\ Counted'
    <3>1. WaitSetShape'
      BY <2>1 DEF LockInv, WaitSetShape
    <3>2. Locked'
      BY <2>1 DEF LockInv, Locked, WaitingOn, Inside
    <3>3. Sized' /\ Counted'
      BY <2>1 DEF LockInv, Sized, Counted
    <3> QED BY <3>1, <3>2, <3>3
  <2>3. \A u \in Sets : /\ Live(rcl_wait_set[u])' = Live(rcl_wait_set[u])
                        /\ Live(storage[u])' = Live(storage[u])
    <3>1. \A e : Referenced(e)' <=> Referenced(e)
      BY <2>1 DEF Referenced
    <3> QED BY <2>1, <3>1 DEF Live
  <2>4. Sleeping'
    BY <2>1, <2>3 DEF LockInv, Sleeping
  <2> QED BY <2>2, <2>4 DEF LockInv
<1> QED BY <1>1, <1>2, <1>3, <1>4 DEF WaitSetNext

-----------------------------------------------------------------------------
(* The flags that keep an entity in one wait set, for callers that remove what is theirs. *)

LEMMA CallKeepsClaims ==
    ASSUME WaitSetShape, Claimed, ~RemoveForeign, NEW w \in Writers, NEW s \in Sets, NEW o \in Ops,
           NEW b \in Batches \cup {<<>>}, Call(w, s, o, b)
    PROVE  Claimed'
<1>1. /\ call'[w].set = s /\ call'[w].op = o /\ call'[w].batch = b
      /\ \A v \in Writers : v # w => call'[v] = call[v]
      /\ UNCHANGED <<storage, in_use>>
  BY CallFacts
<1>2. o = "remove" => \A i \in DOMAIN b : b[i] \in storage[s] /\ ~BeingRemoved(s, b[i])
  BY DEF Call, MayCall
<1>3. \A e : Names(w, e)' => \E i \in DOMAIN b : b[i] = e
  BY <1>1 DEF Names
<1>4. \A v \in Writers : v # w => /\ Removes(v)' = Removes(v)
                                  /\ \A e : Names(v, e)' = Names(v, e)
  BY <1>1 DEF Removes, Names
<1>5. Removes(w)' => \A e : Names(w, e)' => e \in storage[s] /\ ~BeingRemoved(s, e)
  BY <1>1, <1>2, <1>3 DEF Removes
<1>6. \A v \in Writers : Removes(v) /\ call[v].set = s => \A e : Names(v, e) => BeingRemoved(s, e)
  BY DEF Removes, Names, BeingRemoved
<1>7. \A v \in Writers : Removes(v)' => \A e : Names(v, e)' => e \in storage'[call'[v].set]
  <2> SUFFICES ASSUME NEW v \in Writers, Removes(v)', NEW e, Names(v, e)'
               PROVE  e \in storage'[call'[v].set]
    OBVIOUS
  <2>1. CASE v = w
    BY <2>1, <1>1, <1>5
  <2>2. CASE v # w
    BY <2>2, <1>1, <1>4 DEF Claimed
  <2> QED BY <2>1, <2>2
<1>8. \A v, x \in Writers : v # x /\ Removes(v)' /\ Removes(x)' /\ call'[v].set = call'[x].set
                            => \A e : ~(Names(v, e)' /\ Names(x, e)')
  <2> SUFFICES ASSUME NEW v \in Writers, NEW x \in Writers, v # x, Removes(v)', Removes(x)',
                      call'[v].set = call'[x].set, NEW e, Names(v, e)', Names(x, e)'
               PROVE  FALSE
    OBVIOUS
  <2>1. CASE v = w
    <3>1. Removes(x) /\ Names(x, e) /\ call[x].set = s
      BY <2>1, <1>1, <1>4
    <3> QED BY <3>1, <2>1, <1>5, <1>6
  <2>2. CASE x = w
    <3>1. Removes(v) /\ Names(v, e) /\ call[v].set = s
      BY <2>2, <1>1, <1>4
    <3> QED BY <3>1, <2>2, <1>5, <1>6
  <2>3. CASE v # w /\ x # w
    BY <2>3, <1>1, <1>4 DEF Claimed
  <2> QED BY <2>1, <2>2, <2>3
<1>9. /\ \A u \in Sets \ Static : storage'[u] \subseteq in_use'
      /\ \A u, x \in Sets \ Static : u # x => storage'[u] \cap storage'[x] = {}
  BY <1>1 DEF Claimed
<1> QED BY <1>7, <1>8, <1>9 DEF Claimed

(* The edit of one storage. *)
LEMMA UpToNames ==
    ASSUME NEW b, NEW throwing, NEW e \in UpTo(b, throwing)
    PROVE  \E i \in DOMAIN b : b[i] = e
BY DEF UpTo

LEMMA EditKeepsClaims ==
    ASSUME WaitSetShape, Claimed, NEW w \in Writers, NEW s, s = call[w].set, Write(w)
    PROVE  /\ \A u \in Sets \ Static : storage'[u] \subseteq in_use'
           /\ \A u, x \in Sets \ Static : u # x => storage'[u] \cap storage'[x] = {}
           /\ \A v \in Writers : v # w /\ Removes(v) /\ call[v].set = s =>
                 \A e : Names(v, e) => e \in storage'[s]
<1>1. /\ s \in Sets \ Static /\ call[w] \in CallRecord
      /\ \A u \in Sets : u # s => storage'[u] = storage[u]
      /\ Edit(s, call[w].op, call[w].batch)
  BY WriteFacts
<1>2. PICK o, b : o = call[w].op /\ b = call[w].batch
  OBVIOUS
<1>3. o \in Ops
  BY <1>1, <1>2 DEF CallRecord
<1>4. /\ \A u \in Sets \ Static : storage[u] \subseteq in_use
      /\ \A u, x \in Sets \ Static : u # x => storage[u] \cap storage[x] = {}
      /\ \A v \in Writers : Removes(v) /\ call[v].set = s => \A e : Names(v, e) => e \in storage[s]
      /\ \A v \in Writers : v # w /\ Removes(v) /\ Removes(w) /\ call[v].set = s
            => \A e : ~(Names(v, e) /\ Names(w, e))
  BY DEF Claimed
<1>5. CASE o = "add"
  <2>1. PICK up, new : up = UpTo(b, in_use \cup storage[s])
                       /\ new = storage[s] \cup (up \ (in_use \cup storage[s]))
    OBVIOUS
  <2>2. /\ in_use' = in_use \cup up /\ storage' = [storage EXCEPT ![s] = new]
    BY <1>1, <1>2, <1>5, <2>1 DEF Edit, Add, StorageEdit
  <2>3. storage'[s] = new
    BY <1>1, <2>2 DEF WaitSetShape
  <2>4. new \subseteq in_use'
    BY <1>1, <1>4, <2>1, <2>2
  <2>5. \A u \in Sets \ Static : u # s => new \cap storage[u] = {}
    BY <1>1, <1>4, <2>1
  <2>6. \A u \in Sets \ Static : u # s => storage[u] \subseteq in_use'
    BY <1>4, <2>2
  <2>7. \A u \in Sets \ Static : storage'[u] \subseteq in_use'
    BY <1>1, <2>3, <2>4, <2>6
  <2>8. \A u, x \in Sets \ Static : u # x => storage'[u] \cap storage'[x] = {}
    BY <1>1, <1>4, <2>3, <2>5
  <2> QED BY <1>4, <2>1, <2>3, <2>7, <2>8
<1>6. CASE o = "remove"
  <2>1. PICK up, new : up = UpTo(b, Entities \ storage[s]) /\ new = storage[s] \ up
    OBVIOUS
  <2>2. /\ in_use' = in_use \ up /\ storage' = [storage EXCEPT ![s] = new]
    BY <1>1, <1>2, <1>6, <2>1 DEF Edit, Remove, StorageEdit
  <2>3. storage'[s] = new
    BY <1>1, <2>2 DEF WaitSetShape
  <2>4. \A e \in up : Names(w, e)
    BY <1>2, <2>1, UpToNames DEF Names
  <2>5. Removes(w)
    BY <1>2, <1>6 DEF Removes
  <2>6. up \subseteq storage[s]
    BY <1>4, <2>4, <2>5
  <2>7. new \subseteq in_use'
    BY <1>1, <1>4, <2>1, <2>2
  <2>8. \A u \in Sets \ Static : u # s => storage[u] \subseteq in_use' /\ new \cap storage[u] = {}
    BY <1>1, <1>4, <2>1, <2>2, <2>6
  <2>9. \A u \in Sets \ Static : storage'[u] \subseteq in_use'
    BY <1>1, <2>3, <2>7, <2>8
  <2>10. \A u, x \in Sets \ Static : u # x => storage'[u] \cap storage'[x] = {}
    BY <1>1, <1>4, <2>3, <2>8
  <2>11. ASSUME NEW v \in Writers, v # w, Removes(v), call[v].set = s, NEW e, Names(v, e)
         PROVE  e \in storage'[s]
    <3>1. e \in storage[s] /\ ~Names(w, e)
      BY <1>4, <2>5, <2>11
    <3> QED BY <3>1, <2>1, <2>3, <2>4
  <2> QED BY <2>9, <2>10, <2>11
<1>7. CASE o = "prune"
  <2>1. PICK new : new = {e \in storage[s] : Kind[e] = "subscription" \/ Referenced(e)}
    OBVIOUS
  <2>2. in_use' = in_use /\ storage' = [storage EXCEPT ![s] = new]
    BY <1>1, <1>2, <1>7, <2>1 DEF Edit, Prune
  <2>3. storage'[s] = new
    BY <1>1, <2>2 DEF WaitSetShape
  <2>4. new \subseteq storage[s]
    BY <2>1
  <2>5. \A u \in Sets \ Static : storage'[u] \subseteq storage[u]
    BY <1>1, <2>3, <2>4
  <2>6. \A u \in Sets \ Static : storage'[u] \subseteq in_use'
    BY <1>4, <2>2, <2>5
  <2>7. \A u, x \in Sets \ Static : u # x => storage'[u] \cap storage'[x] = {}
    BY <1>4, <2>5
  <2>8. \A v \in Writers : v # w /\ Removes(v) /\ call[v].set = s =>
           \A e : Names(v, e) => e \in storage'[s]
    BY <1>4, <2>1, <2>3, NamesReferenced
  <2> QED BY <2>6, <2>7, <2>8
<1> QED BY <1>3, <1>5, <1>6, <1>7 DEF Ops

LEMMA WriteKeepsClaims ==
    ASSUME WaitSetShape, Claimed, NEW w \in Writers, Write(w)
    PROVE  Claimed'
<1>1. PICK s : s = call[w].set
  OBVIOUS
<1>2. /\ s \in Sets \ Static /\ call'[w] = NoCall
      /\ \A v \in Writers : v # w => call'[v] = call[v]
      /\ \A u \in Sets : u # s => storage'[u] = storage[u]
  BY <1>1, WriteFacts
<1>3. ~Removes(w)'
  BY <1>2 DEF Removes, NoCall
<1>4. \A v \in Writers : v # w => /\ Removes(v)' = Removes(v)
                                  /\ \A e : Names(v, e)' = Names(v, e)
  BY <1>2 DEF Removes, Names
<1>5. \A v \in Writers : Removes(v) => call[v].set \in Sets
  <2> SUFFICES ASSUME NEW v \in Writers, Removes(v) PROVE call[v].set \in Sets
    OBVIOUS
  <2>1. call[v] \in CallRecord
    BY DEF Removes, WaitSetShape, NoCall
  <2> QED BY <2>1 DEF CallRecord
<1>6. ASSUME NEW v \in Writers, Removes(v)', NEW e, Names(v, e)'
      PROVE  e \in storage'[call'[v].set]
  <2>1. v # w /\ Removes(v) /\ Names(v, e) /\ call'[v].set = call[v].set
    BY <1>2, <1>3, <1>4, <1>6
  <2>2. CASE call[v].set = s
    BY <2>1, <2>2, <1>1, EditKeepsClaims
  <2>3. CASE call[v].set # s
    BY <2>1, <2>3, <1>2, <1>5 DEF Claimed
  <2> QED BY <2>2, <2>3
<1>7. \A v, x \in Writers : v # x /\ Removes(v)' /\ Removes(x)' /\ call'[v].set = call'[x].set
                            => \A e : ~(Names(v, e)' /\ Names(x, e)')
  BY <1>2, <1>3, <1>4 DEF Claimed
<1>8. /\ \A u \in Sets \ Static : storage'[u] \subseteq in_use'
      /\ \A u, x \in Sets \ Static : u # x => storage'[u] \cap storage'[x] = {}
  BY <1>1, EditKeepsClaims
<1> QED BY <1>6, <1>7, <1>8 DEF Claimed

LEMMA ClaimsStep ==
    ASSUME ~RemoveForeign, WaitSetShape, Claimed, [WaitSetNext]_waitSetVars
    PROVE  Claimed'
<1>1. ASSUME UNCHANGED <<storage, in_use, call>> PROVE Claimed'
  BY <1>1 DEF Claimed, Removes, Names
<1>2. CASE Writing
  <2>0. PICK w \in Writers : \/ \E s \in Sets, o \in Ops, b \in Batches \cup {<<>>} : Call(w, s, o, b)
                             \/ WriteLock(w) \/ Write(w)
    BY <1>2 DEF Writing, Ops
  <2>1. CASE WriteLock(w)
    <3>1. PICK s : s = call[w].set
      OBVIOUS
    <3>2. /\ call'[w].set = s /\ call'[w].op = call[w].op /\ call'[w].batch = call[w].batch
          /\ \A v \in Writers : v # w => call'[v] = call[v]
          /\ UNCHANGED <<storage, in_use>>
      BY <2>1, <3>1, WriteLockFacts
    <3>3. \A v \in Writers : /\ call'[v].set = call[v].set /\ Removes(v)' = Removes(v)
                             /\ \A e : Names(v, e)' = Names(v, e)
      BY <3>1, <3>2 DEF Removes, Names
    <3> QED BY <3>2, <3>3 DEF Claimed
  <2> QED BY <2>0, <2>1, CallKeepsClaims, WriteKeepsClaims
<1>3. ASSUME NEW s \in Sets, Waiting(s) PROVE Claimed'
  BY <1>1, <1>3, WaitingFrame
<1>4. ASSUME NEW e \in Entities, BecomeReady(e) \/ Drop(e) PROVE Claimed'
  BY <1>1, <1>4 DEF BecomeReady, Drop, store
<1>5. CASE UNCHANGED waitSetVars
  BY <1>1, <1>5 DEF waitSetVars, store
<1> QED BY <1>2, <1>3, <1>4, <1>5 DEF WaitSetNext

-----------------------------------------------------------------------------
LEMMA WaitSetInvariant ==
    WaitSetSpec => []LockInv
BY WaitSetStart, WaitSetStep, PTL DEF WaitSetSpec

LEMMA ClaimsInvariant ==
    ASSUME ~RemoveForeign
    PROVE  WaitSetSpec => []Claimed
<1>1. WaitSetInit => Claimed
  <2>1. DOMAIN NoCall.batch = {} /\ NoCall.op = "none"
    BY DEF NoCall
  <2> QED BY <2>1 DEF WaitSetInit, Claimed, Constructed, Removes
<1>2. Claimed /\ LockInv /\ [WaitSetNext]_waitSetVars => Claimed'
  BY ClaimsStep DEF LockInv
<1> QED BY <1>1, <1>2, WaitSetInvariant, PTL DEF WaitSetSpec

LEMMA Exclusion ==
    LockInv => ReadersExcludeWriters
<1> SUFFICES ASSUME LockInv, NEW s \in Sets \ Sequential,
                    NEW inside, inside = {w \in Writers : call[w].set = s /\ call[w].at = "writing"}
             PROVE  /\ Cardinality(inside) <= 1
                    /\ inside # {} => pc[s] \notin {"locked", "holding", "looking"}
  BY DEF ReadersExcludeWriters
<1>1. /\ reader_active[s] <=> pc[s] \in {"locked", "holding", "looking"}
      /\ writer_active[s] <=> \E w \in Writers : Inside(w, s)
      /\ \A v, w \in Writers : Inside(v, s) /\ Inside(w, s) => v = w
      /\ ~(reader_active[s] /\ writer_active[s])
  BY DEF LockInv, Locked
<1>2. inside = {} \/ \E w \in inside : inside = {w}
  BY <1>1 DEF Inside
<1>3. Cardinality(inside) <= 1
  <2>1. CASE inside = {}
    BY <2>1, FS_EmptySet
  <2>2. CASE \E w \in inside : inside = {w}
    <3>1. PICK w : inside = {w}
      BY <2>2
    <3>2. Cardinality({w}) = 1
      BY FS_Singleton
    <3> QED BY <3>1, <3>2
  <2> QED BY <1>2, <2>1, <2>2
<1>4. inside # {} => writer_active[s]
  BY <1>1 DEF Inside
<1> QED BY <1>1, <1>3, <1>4

LEMMA Fits ==
    LockInv => RebuildFits
<1> SUFFICES ASSUME LockInv, NEW s \in Sets, ~needs_resize[s]
             PROVE  Cardinality(Live(storage[s])) <= capacity[s]
  BY DEF RebuildFits
<1>1. IsFiniteSet(storage[s]) /\ Cardinality(storage[s]) \in Nat
  BY StoredFinite DEF LockInv
<1>2. Live(storage[s]) \in SUBSET storage[s]
  BY DEF Live
<1>3. IsFiniteSet(Live(storage[s])) /\ Cardinality(Live(storage[s])) <= Cardinality(storage[s])
  BY <1>1, <1>2, FS_Subset
<1>4. Cardinality(Live(storage[s])) \in Nat
  BY <1>3, FS_CardinalityType
<1>5. Cardinality(storage[s]) <= capacity[s] /\ capacity[s] \in Nat
  BY DEF LockInv, Sized, WaitSetShape
<1> QED BY <1>1, <1>3, <1>4, <1>5

LEMMA Asleep ==
    LockInv => SleepsOnCurrentSet
BY DEF LockInv, Sleeping, SleepsOnCurrentSet

(* Every variable of the wait sets keeps its type, and wait() with its WaitResult never
   acquires ownership more than twice nor releases it more often than it acquired it
   (storage_acquire_ownerships and storage_release_ownerships, dynamic_storage.hpp). *)
THEOREM WaitSetTypes ==
    WaitSetSpec => []WaitSetTypeOK
<1>1. LockInv => WaitSetTypeOK
  <2> SUFFICES ASSUME LockInv PROVE WaitSetTypeOK
    OBVIOUS
  <2>1. ASSUME NEW s \in Sets PROVE number_of_writers_waiting[s] \in 0..Cardinality(Writers)
    <3>1. WaitingOn(s) \in SUBSET Writers /\ IsFiniteSet(Writers)
      BY Assumed DEF WaitingOn
    <3>2. /\ Cardinality(WaitingOn(s)) <= Cardinality(Writers)
          /\ Cardinality(Writers) \in Nat /\ Cardinality(WaitingOn(s)) \in Nat
      BY <3>1, FS_Subset, FS_CardinalityType, WaitingOnFinite
    <3>3. number_of_writers_waiting[s] = Cardinality(WaitingOn(s))
      BY DEF LockInv, Locked
    <3> QED BY <3>2, <3>3
  <2>2. number_of_writers_waiting \in [Sets -> 0..Cardinality(Writers)]
    BY <2>1 DEF LockInv, WaitSetShape
  <2>3. \A s \in Sets : /\ storage[s] \subseteq Entities /\ rcl_wait_set[s] \subseteq Entities
                        /\ owned[s] \subseteq Entities
                        /\ result[s] \subseteq Entities \cup {Interrupt}
    BY DEF LockInv, WaitSetShape
  <2> QED BY <2>2, <2>3 DEF LockInv, WaitSetShape, WaitSetTypeOK
<1> QED BY <1>1, WaitSetInvariant, PTL

(* Whatever threads add, remove and prune while others wait, with any number of them and of
   wait sets of every policy: the write-preferring lock keeps the readers of the storage from
   its writers and the writers from each other (write_preferring_read_write_lock.cpp), a
   thread asleep in rcl_wait sleeps on the entities the set has now, or an interruption is on
   its way (thread_safe_synchronization.hpp), rebuilding never adds more than the rcl wait
   set was resized for (dynamic_storage.hpp), and no live entity is in two wait sets
   (exchange_in_use_by_wait_set_state), provided that callers remove only what is theirs. *)
THEOREM WaitSetIsSafe ==
    ASSUME ~RemoveForeign
    PROVE  WaitSetSpec => []WaitSetSafe
<1>1. LockInv /\ Claimed => WaitSetSafe
  <2> SUFFICES ASSUME LockInv, Claimed PROVE WaitSetSafe
    OBVIOUS
  <2>1. InOneWaitSet
    BY DEF Claimed, InOneWaitSet, Live
  <2> QED BY <2>1, Exclusion, Fits, Asleep DEF WaitSetSafe
<1> QED BY <1>1, WaitSetInvariant, ClaimsInvariant, PTL

(* Without that proviso the flags are all that is lost: the lock, the sleeping threads and
   the size of the rcl wait set do not depend on what callers remove. *)
THEOREM LockingIsSafe ==
    WaitSetSpec => [](ReadersExcludeWriters /\ SleepsOnCurrentSet /\ RebuildFits)
BY WaitSetInvariant, Exclusion, Fits, Asleep, PTL

(* From the call of wait() until its WaitResult is destroyed the entities whose ownership
   was acquired stay owned: the counter is not back at zero at any step in between
   (storage_release_ownerships, dynamic_storage.hpp). *)
THEOREM OwnershipKept ==
    WaitSetSpec => [][OwnedSinceWait]_waitSetVars
<1>1. LockInv /\ [WaitSetNext]_waitSetVars => [OwnedSinceWait]_waitSetVars
  <2> SUFFICES ASSUME LockInv, [WaitSetNext]_waitSetVars,
                      NEW s \in Sets, pc[s] # "idle", pc'[s] # "idle"
               PROVE  owned[s] \subseteq owned'[s]
    BY DEF OwnedSinceWait
  <2>1. CASE Writing
    BY <2>1, WritingFrame
  <2>2. ASSUME NEW u \in Sets, Waiting(u), u # s PROVE owned'[s] = owned[s]
    BY <2>2, WaitingFrame DEF LockInv
  <2>3. CASE Waiting(s)
    <3>1. owned' = owned \/ AcquireOwnerships(s) \/ (ReleaseOwnerships(s) /\ pc[s] = "holding")
      BY <2>3 DEF Waiting, Wait, ReadLock, Rebuild, RclWaitOK, Returned, TimeoutOrEmpty,
                  WaitResultAcquire, WaitReturns, WaitResultRelease, refs, LockInv, WaitSetShape
    <3>2. CASE AcquireOwnerships(s)
      <4>1. ownership_reference_counter[s] > 0
        BY DEF LockInv, Counted
      <4> QED BY <3>2, <4>1 DEF AcquireOwnerships, LockInv, WaitSetShape
    <3>3. CASE ReleaseOwnerships(s) /\ pc[s] = "holding"
      <4>1. ownership_reference_counter[s] > 1
        BY <3>3 DEF LockInv, Counted
      <4> QED BY <3>3, <4>1 DEF ReleaseOwnerships, LockInv, WaitSetShape
    <3> QED BY <3>1, <3>2, <3>3
  <2>4. ASSUME NEW e \in Entities, BecomeReady(e) \/ Drop(e) PROVE owned' = owned
    BY <2>4 DEF BecomeReady, Drop, refs
  <2>5. CASE UNCHANGED waitSetVars
    BY <2>5 DEF waitSetVars, refs
  <2> QED BY <2>1, <2>2, <2>3, <2>4, <2>5 DEF WaitSetNext
<1> QED BY <1>1, WaitSetInvariant, PTL DEF WaitSetSpec
==============================================================================
