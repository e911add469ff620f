--------------------------- MODULE ExecutorProofs ---------------------------
(***************************************************************************)
(* Proofs about Executor for any number of threads, callbacks and groups.  *)
(***************************************************************************)
EXTENDS Executor, TLAPS

(* Every step of every thread stays within the declared state space, and the *)
(* thread that holds wait_mutex_ is the one inside run()'s locked section.   *)
LEMMA TypeStep == TypeOK /\ [Next]_vars => TypeOK'
<1> SUFFICES ASSUME TypeOK, [Next]_vars PROVE TypeOK'
  OBVIOUS
<1> USE ExecutorAssumption DEF TypeOK, Labels, Locked, Scan, Kinds
<1>1. ASSUME NEW c \in Callbacks, Arrive(c) PROVE TypeOK'
  BY <1>1 DEF Arrive
<1>2. CASE Spin
  BY <1>2 DEF Spin
<1>3. CASE CancelStore
  BY <1>3 DEF CancelStore
<1>4. CASE CancelTrigger
  BY <1>4 DEF CancelTrigger, Trigger
<1>5. ASSUME NEW t \in Threads, Run(t) PROVE TypeOK'
  <2> USE DEF Goto
  <2>1. CASE WhileSpinning(t)
    BY <2>1 DEF WhileSpinning
  <2>2. CASE LockWaitMutex(t)
    <3>1. CASE spinning
      <4>1. pc' \in [Threads -> Labels] /\ wait_mutex' = t /\ pc'[t] \in Locked
        BY <2>2, <3>1 DEF LockWaitMutex
      <4>2. \A u \in Threads : wait_mutex' = u <=> pc'[u] \in Locked
        BY <2>2, <3>1, <4>1 DEF LockWaitMutex
      <4> QED
        BY <2>2, <3>1, <4>1, <4>2 DEF LockWaitMutex
    <3>2. CASE ~spinning
      BY <2>2, <3>2 DEF LockWaitMutex
    <3> QED
      BY <3>1, <3>2
  <2>3. CASE CollectEntities(t)
    BY <2>3 DEF CollectEntities, CollectedHandles
  <2>4. CASE RclWait(t)
    BY <2>4 DEF RclWait, ReadyHandles
  <2>5. CASE CheckSpinning(t)
    BY <2>5 DEF CheckSpinning, Unlock
  <2>6. ASSUME NEW c \in Callbacks, TakeDefault(t, c) PROVE TypeOK'
    <3>1. \A u \in Threads : pc[u] \in Locked <=> pc'[u] \in Locked
      BY <2>6 DEF TakeDefault
    <3>2. handles' \in SUBSET Callbacks
      BY <2>6 DEF TakeDefault, Erase
    <3>3. pending' \in [Callbacks -> BOOLEAN] /\ called' \in [Threads -> SUBSET Callbacks]
      BY <2>6 DEF TakeDefault, Consume, Timers
    <3> QED
      BY <2>6, <3>1, <3>2, <3>3 DEF TakeDefault
  <2>7. ASSUME NEW c \in Callbacks, callback_priority_enabled, TakePicas(t, c) PROVE TypeOK'
    <3>1. pc' \in [Threads -> Labels] /\ pc[t] \in Locked /\ pc'[t] \in Locked
      BY <2>7 DEF TakePicas, After
    <3>2. \A u \in Threads : pc[u] \in Locked <=> pc'[u] \in Locked
      BY <2>7, <3>1 DEF TakePicas
    <3>3. handles' \in SUBSET Callbacks
      BY <2>7 DEF TakePicas
    <3>4. pending' \in [Callbacks -> BOOLEAN] /\ called' \in [Threads -> SUBSET Callbacks]
      BY <2>7 DEF TakePicas, Consume, Timers
    <3> QED
      BY <2>7, <3>1, <3>2, <3>3, <3>4 DEF TakePicas
  <2>16. CASE SkipKind(t)
    <3>1. pc' \in [Threads -> Labels] /\ pc[t] \in Locked /\ pc'[t] \in Locked
      BY <2>16 DEF SkipKind, After
    <3> QED
      BY <2>16, <3>1 DEF SkipKind
  <2>8. CASE Scanned(t)
    BY <2>8 DEF Scanned, Unlock
  <2>9. CASE MarkGroup(t)
    BY <2>9 DEF MarkGroup, WithBusy, Unlock
  <2>10. CASE ReturnCancelled(t)
    BY <2>10 DEF ReturnCancelled, SettleTimer
  <2>11. CASE StartCallback(t)
    <3>1. pc' \in [Threads -> Labels] /\ pc[t] \notin Locked /\ pc'[t] \notin Locked
      BY <2>11 DEF StartCallback
    <3>2. pending' \in [Callbacks -> BOOLEAN] /\ called' \in [Threads -> SUBSET Callbacks]
      BY <2>11 DEF StartCallback, SettleTimer
    <3>3. \A u \in Threads : pc[u] \in Locked <=> pc'[u] \in Locked
      BY <2>11, <3>1 DEF StartCallback
    <3> QED
      BY <2>11, <3>1, <3>2, <3>3 DEF StartCallback
  <2>12. CASE FinishCallback(t)
    BY <2>12 DEF FinishCallback
  <2>13. CASE ReleaseGroup(t)
    BY <2>13 DEF ReleaseGroup, WithFree
  <2>14. CASE TriggerInterrupt(t)
    BY <2>14 DEF TriggerInterrupt, Trigger
  <2>15. CASE DestroyAnyExec(t)
    BY <2>15 DEF DestroyAnyExec, WithFree, GroupAtExit
  <2> QED
    BY <1>5, <2>1, <2>2, <2>3, <2>4, <2>5, <2>6, <2>7, <2>8, <2>9, <2>10, <2>11,
       <2>12, <2>13, <2>14, <2>15, <2>16 DEF Run, TakeNext
<1>6. CASE UNCHANGED vars
  BY <1>6 DEF vars
<1> QED
  BY <1>1, <1>2, <1>3, <1>4, <1>5, <1>6 DEF Next

(* The executor's state is always well typed and wait_mutex_ is held by exactly *)
(* the thread that is between locking and unlocking it.                         *)
THEOREM TypeCorrect == Spec => []TypeOK
<1>1. Init => TypeOK
  BY ExecutorAssumption DEF Init, TypeOK, Labels, Locked, Scan
<1> QED
  BY <1>1, TypeStep, PTL DEF Spec

-----------------------------------------------------------------------------
(* The inductive invariant of rclcpp's own selection order. From being selected *)
(* until its group is released, an AnyExecutable carries the group of its own   *)
(* callback ...                                                                 *)
GroupOfExec ==
    \A t \in Threads : pc[t] \in Holding \cup {"mark"} =>
        exec[t] \in Callbacks /\ group[t] = Group[exec[t]]

(* ... and outside that part of run() it carries none that could be released. *)
NoGroupHeld ==
    \A t \in Threads : pc[t] \notin Holding \cup {"mark", "trigger", "end"} => group[t] = None

(* A mutually exclusive group is marked as in use while it is held ... *)
BusyWhileHeld ==
    \A t \in Threads :
        pc[t] \in Holding /\ group[t] \in MutuallyExclusive => ~can_be_taken_from[group[t]]

(* ... by one thread. *)
OneHolder ==
    \A t, u \in Threads :
        /\ t # u
        /\ pc[t] \in Holding
        /\ pc[u] \in Holding
        /\ group[t] = group[u]
        => group[t] \notin MutuallyExclusive

ExclusionInv ==
    /\ TypeOK
    /\ GroupOfExec
    /\ NoGroupHeld
    /\ MarkedGroupWasFree
    /\ BusyWhileHeld
    /\ OneHolder

(* The one thread of a step and what it leaves of the others. *)
LEMMA ExclusionStep ==
    ASSUME ~callback_priority_enabled, ExclusionInv, [Next]_vars
    PROVE  ExclusionInv'
<1> USE ExecutorAssumption
<1> DEFINE Parts == GroupOfExec /\ NoGroupHeld /\ MarkedGroupWasFree /\ BusyWhileHeld /\ OneHolder
<1>0. TypeOK /\ TypeOK' /\ Parts
  BY TypeStep DEF ExclusionInv
<1> SUFFICES Parts'
  BY <1>0 DEF ExclusionInv
<1> USE DEF GroupOfExec, NoGroupHeld, MarkedGroupWasFree, BusyWhileHeld, OneHolder,
            TypeOK, Holding
<1>1. ASSUME NEW c \in Callbacks, Arrive(c) PROVE Parts'
  BY <1>0, <1>1 DEF Arrive
<1>2. CASE Spin
  BY <1>0, <1>2 DEF Spin
<1>3. CASE CancelStore
  BY <1>0, <1>3 DEF CancelStore
<1>4. CASE CancelTrigger
  BY <1>0, <1>4 DEF CancelTrigger
<1>5. ASSUME NEW t \in Threads, Run(t) PROVE Parts'
  <2> USE DEF Goto
  <2>1. CASE WhileSpinning(t)
    BY <1>0, <2>1 DEF WhileSpinning
  <2>2. CASE LockWaitMutex(t)
    BY <1>0, <2>2 DEF LockWaitMutex
  <2>3. CASE CollectEntities(t)
    BY <1>0, <2>3 DEF CollectEntities
  <2>4. CASE RclWait(t)
    BY <1>0, <2>4 DEF RclWait
  <2>5. CASE CheckSpinning(t)
    BY <1>0, <2>5 DEF CheckSpinning
  <2>6. ASSUME NEW c \in Callbacks, TakeDefault(t, c) PROVE Parts'
    BY <1>0, <2>6 DEF TakeDefault, Takeable, Scan
  <2>7. ASSUME NEW c \in Callbacks, callback_priority_enabled, TakePicas(t, c) PROVE Parts'
    BY <2>7 DEF TakePicas
  <2>8. CASE SkipKind(t)
    BY <1>0, <2>8 DEF SkipKind, After, Scan
  <2>9. CASE Scanned(t)
    BY <1>0, <2>9 DEF Scanned
  <2>10. CASE MarkGroup(t)
    BY <1>0, <2>10 DEF MarkGroup, WithBusy, Locked
  <2>11. CASE ReturnCancelled(t)
    BY <1>0, <2>11 DEF ReturnCancelled
  <2>12. CASE StartCallback(t)
    BY <1>0, <2>12 DEF StartCallback
  <2>13. CASE FinishCallback(t)
    BY <1>0, <2>13 DEF FinishCallback
  <2>14. CASE ReleaseGroup(t)
    BY <1>0, <2>14 DEF ReleaseGroup, WithFree
  <2>15. CASE TriggerInterrupt(t)
    BY <1>0, <2>15 DEF TriggerInterrupt
  <2>16. CASE DestroyAnyExec(t)
    BY <1>0, <2>16 DEF DestroyAnyExec, WithFree, GroupAtExit
  <2> QED
    BY <1>5, <2>1, <2>2, <2>3, <2>4, <2>5, <2>6, <2>7, <2>8, <2>9, <2>10, <2>11,
       <2>12, <2>13, <2>14, <2>15, <2>16 DEF Run, TakeNext
<1>6. CASE UNCHANGED vars
  BY <1>0, <1>6 DEF vars
<1> QED
  BY <1>1, <1>2, <1>3, <1>4, <1>5, <1>6 DEF Next

LEMMA ExclusionInvariant ==
    ASSUME ~callback_priority_enabled PROVE Spec => []ExclusionInv
<1>1. Init => ExclusionInv
  BY ExecutorAssumption, TypeCorrect DEF Init, ExclusionInv, TypeOK, GroupOfExec, NoGroupHeld,
     MarkedGroupWasFree, BusyWhileHeld, OneHolder, Holding, Labels, Locked, Scan
<1>2. ExclusionInv /\ [Next]_vars => ExclusionInv'
  BY ExclusionStep
<1> QED
  BY <1>1, <1>2, PTL DEF Spec

(* In rclcpp's own selection order two callbacks of a mutually exclusive group *)
(* never run at the same time, for any number of threads and groups and with   *)
(* cancel() and re-spin at any moment.                                         *)
THEOREM Exclusion ==
    ASSUME ~callback_priority_enabled PROVE Spec => []MutualExclusion
<1>1. ExclusionInv => MutualExclusion
  BY DEF ExclusionInv, GroupOfExec, OneHolder, MutualExclusion, Holding
<1> QED
  BY <1>1, ExclusionInvariant, PTL

(* The assertion of get_next_ready_executable_from_map never fails there. *)
THEOREM MarkAssertion ==
    ASSUME ~callback_priority_enabled PROVE Spec => []MarkedGroupWasFree
<1>1. ExclusionInv => MarkedGroupWasFree
  BY DEF ExclusionInv
<1> QED
  BY <1>1, ExclusionInvariant, PTL

-----------------------------------------------------------------------------
(* Whatever is takeable and not in the wait set of a waiting thread has an *)
(* interrupt on its way to that thread, ready or not.                      *)
WakeupOnItsWay ==
    \A t \in Threads, c \in Callbacks :
        /\ pc[t] = "wait"
        /\ can_be_taken_from[Group[c]]
        /\ c \notin handles
        => guard \/ \E u \in Threads : pc[u] = "trigger"

(* What ~AnyExecutable frees without triggering is nothing: a search that fails, *)
(* before or after the wait, has found no group. With PiCAS this takes           *)
(* priorities that are not negative, as all but user-set ones are.               *)
PrioritiesUsable == callback_priority_enabled => \A c \in Callbacks : Priority[c] >= 0

NoGroupDiscarded ==
    \A t \in Threads :
        /\ pc[t] \in {"idle", "loop", "lock", "collect", "wait", "woken", "discard"} =>
              group[t] = None
        /\ pc[t] \in Scan \cup {"scanned"} /\ group[t] # None =>
              callback_priority_enabled /\ exec[t] \in Callbacks

LEMMA DiscardStep ==
    ASSUME PrioritiesUsable, TypeOK, NoGroupDiscarded, [Next]_vars
    PROVE  NoGroupDiscarded'
<1> USE ExecutorAssumption DEF NoGroupDiscarded, TypeOK, Scan
<1>1. CASE (\E c \in Callbacks : Arrive(c)) \/ CancelStore \/ CancelTrigger \/ UNCHANGED vars
  BY <1>1 DEF Arrive, CancelStore, CancelTrigger, vars
<1>2. CASE Spin
  BY <1>2 DEF Spin
<1>3. ASSUME NEW t \in Threads, Run(t) PROVE NoGroupDiscarded'
  <2> USE DEF Goto
  <2>1. CASE WhileSpinning(t) \/ LockWaitMutex(t) \/ CollectEntities(t) \/ RclWait(t)
    BY <2>1 DEF WhileSpinning, LockWaitMutex, CollectEntities, RclWait
  <2>2. CASE CheckSpinning(t) \/ MarkGroup(t) \/ FinishCallback(t) \/ ReturnCancelled(t)
    BY <2>2 DEF CheckSpinning, MarkGroup, FinishCallback, ReturnCancelled
  <2>3. CASE StartCallback(t) \/ ReleaseGroup(t) \/ TriggerInterrupt(t) \/ DestroyAnyExec(t)
    BY <2>3 DEF StartCallback, ReleaseGroup, TriggerInterrupt, DestroyAnyExec
  <2>4. CASE SkipKind(t)
    BY <2>4 DEF SkipKind, After
  <2>5. CASE Scanned(t)
    <3>1. pc'[t] # "mark" => group[t] = None
      BY <2>5 DEF Scanned, HighestSoFar, PrioritiesUsable
    <3> QED
      BY <2>5, <3>1 DEF Scanned
  <2>6. ASSUME NEW c \in Callbacks, TakeDefault(t, c) PROVE NoGroupDiscarded'
    BY <2>6 DEF TakeDefault
  <2>7. ASSUME NEW c \in Callbacks, callback_priority_enabled, TakePicas(t, c)
        PROVE  NoGroupDiscarded'
    <3>1. exec'[t] = IF Outranks(t, c) THEN c ELSE exec[t]
      BY <2>7 DEF TakePicas
    <3>2. ~Outranks(t, c) => exec[t] # None
      BY <2>7 DEF Outranks, HighestSoFar, PrioritiesUsable
    <3>3. exec'[t] \in Callbacks
      BY <3>1, <3>2
    <3>4. pc'[t] \in Scan \cup {"scanned"}
      BY <2>7 DEF TakePicas, After
    <3>5. \A u \in Threads \ {t} : pc'[u] = pc[u] /\ group'[u] = group[u] /\ exec'[u] = exec[u]
      BY <2>7 DEF TakePicas
    <3> QED
      BY <2>7, <3>3, <3>4, <3>5
  <2> QED
    BY <1>3, <2>1, <2>2, <2>3, <2>4, <2>5, <2>6, <2>7 DEF Run, TakeNext
<1> QED
  BY <1>1, <1>2, <1>3 DEF Next

LEMMA WakeupStep ==
    ASSUME TypeOK, NoGroupDiscarded, WakeupOnItsWay, [Next]_vars
    PROVE  WakeupOnItsWay'
<1> USE ExecutorAssumption
<1>0. TypeOK /\ TypeOK' /\ NoGroupDiscarded
  BY TypeStep
<1> USE DEF WakeupOnItsWay, TypeOK
<1>1. ASSUME NEW c \in Callbacks, Arrive(c) PROVE WakeupOnItsWay'
  BY <1>0, <1>1 DEF Arrive
<1>2. CASE Spin
  BY <1>0, <1>2 DEF Spin
<1>3. CASE CancelStore
  BY <1>0, <1>3 DEF CancelStore
<1>4. CASE CancelTrigger
  BY <1>0, <1>4 DEF CancelTrigger, Trigger
<1>5. ASSUME NEW t \in Threads, Run(t) PROVE WakeupOnItsWay'
  <2> USE DEF Goto
  <2>0. \A u \in Threads \ {t} : pc[t] \in Locked => pc[u] # "wait"
    BY <1>0 DEF Locked
  <2>1. CASE WhileSpinning(t)
    BY <1>0, <2>1 DEF WhileSpinning
  <2>2. CASE LockWaitMutex(t)
    BY <1>0, <2>2 DEF LockWaitMutex
  <2>3. CASE CollectEntities(t)
    BY <1>0, <2>0, <2>3 DEF CollectEntities, CollectedHandles, Locked
  <2>4. CASE RclWait(t)
    BY <1>0, <2>0, <2>4 DEF RclWait, Locked
  <2>5. CASE CheckSpinning(t)
    BY <1>0, <2>5 DEF CheckSpinning
  <2>6. ASSUME NEW c \in Callbacks, TakeDefault(t, c) PROVE WakeupOnItsWay'
    BY <1>0, <2>0, <2>6 DEF TakeDefault, Locked
  <2>7. ASSUME NEW c \in Callbacks, TakePicas(t, c) PROVE WakeupOnItsWay'
    BY <1>0, <2>0, <2>7 DEF TakePicas, Locked, Scan, After
  <2>8. CASE SkipKind(t)
    BY <1>0, <2>8 DEF SkipKind, After, Scan
  <2>9. CASE Scanned(t)
    BY <1>0, <2>9 DEF Scanned
  <2>10. CASE MarkGroup(t)
    BY <1>0, <2>10 DEF MarkGroup, WithBusy
  <2>11. CASE ReturnCancelled(t)
    BY <1>0, <2>11 DEF ReturnCancelled
  <2>12. CASE StartCallback(t)
    BY <1>0, <2>12 DEF StartCallback
  <2>13. CASE FinishCallback(t)
    BY <1>0, <2>13 DEF FinishCallback
  <2>14. CASE ReleaseGroup(t)
    BY <1>0, <2>14 DEF ReleaseGroup
  <2>15. CASE TriggerInterrupt(t)
    BY <1>0, <2>15 DEF TriggerInterrupt, Trigger
  <2>16. CASE DestroyAnyExec(t)
    BY <1>0, <2>16 DEF DestroyAnyExec, WithFree, GroupAtExit, NoGroupDiscarded
  <2> QED
    BY <1>5, <2>1, <2>2, <2>3, <2>4, <2>5, <2>6, <2>7, <2>8, <2>9, <2>10, <2>11,
       <2>12, <2>13, <2>14, <2>15, <2>16 DEF Run, TakeNext
<1>6. CASE UNCHANGED vars
  BY <1>0, <1>6 DEF vars
<1> QED
  BY <1>1, <1>2, <1>3, <1>4, <1>5, <1>6 DEF Next

(* No thread blocks in rcl_wait while work that another thread has made takeable *)
(* is outside its wait set, unless the interrupt that will wake it is under way: *)
(* for any number of threads and in both selection orders.                       *)
THEOREM Wakeup ==
    ASSUME PrioritiesUsable PROVE Spec => []NoLostWakeup
<1>1. Init => NoGroupDiscarded /\ WakeupOnItsWay
  BY DEF Init, NoGroupDiscarded, WakeupOnItsWay, Scan
<1>2. TypeOK /\ NoGroupDiscarded /\ [Next]_vars => NoGroupDiscarded'
  BY DiscardStep
<1>3. TypeOK /\ NoGroupDiscarded /\ WakeupOnItsWay /\ [Next]_vars => WakeupOnItsWay'
  BY WakeupStep
<1>4. WakeupOnItsWay => NoLostWakeup
  BY DEF WakeupOnItsWay, NoLostWakeup
<1> QED
  BY <1>1, <1>2, <1>3, <1>4, TypeCorrect, PTL DEF Spec

-----------------------------------------------------------------------------
(* A timer's handle survives rcl_wait only if the timer is due, and stays due *)
(* until the handle is erased: nobody but the taker of a handle calls it.     *)
DueUntilTaken ==
    (\A t \in Threads : pc[t] # "wait") => \A c \in handles : c \in Timers => pending[c]

LEMMA DueStep == TypeOK /\ DueUntilTaken /\ [Next]_vars => DueUntilTaken'
<1> USE ExecutorAssumption
<1> SUFFICES ASSUME TypeOK, DueUntilTaken, [Next]_vars PROVE DueUntilTaken'
  OBVIOUS
<1> USE DEF DueUntilTaken, TypeOK, Timers
<1>1. ASSUME NEW c \in Callbacks, Arrive(c) PROVE DueUntilTaken'
  BY <1>1 DEF Arrive
<1>2. CASE Spin
  BY <1>2 DEF Spin
<1>3. CASE CancelStore \/ CancelTrigger
  BY <1>3 DEF CancelStore, CancelTrigger
<1>4. ASSUME NEW t \in Threads, Run(t) PROVE DueUntilTaken'
  <2> USE DEF Goto
  <2>1. CASE CollectEntities(t)
    BY <2>1 DEF CollectEntities
  <2>2. CASE RclWait(t)
    BY <2>2 DEF RclWait, ReadyHandles
  <2>3. CASE pc[t] \in Scan
    <3>1. \A u \in Threads : pc[u] # "wait"
      BY <2>3 DEF Locked, Scan
    <3>2. ASSUME NEW c \in Callbacks, TakeDefault(t, c) PROVE DueUntilTaken'
      BY <3>1, <3>2 DEF TakeDefault, Erase, Consume
    <3>3. ASSUME NEW c \in Callbacks, TakePicas(t, c) PROVE DueUntilTaken'
      <4> DEFINE found == Takeable(pc[t])
      <4> DEFINE winner == IF Outranks(t, c) THEN c ELSE exec[t]
      <4>1. /\ handles' = handles \ found
            /\ pending' = [d \in Callbacks |-> pending[d] /\
                  d \notin (found \cap Timers) \cup ({winner} \cap found \cap Waitables)]
        BY <3>3 DEF TakePicas, Consume
      <4> HIDE DEF found, winner
      <4>2. \A d \in handles' : d \in Callbacks /\ d \notin found /\ d \in handles
        BY <4>1
      <4> QED
        BY <3>1, <4>1, <4>2
    <3>4. CASE SkipKind(t)
      BY <3>1, <3>4 DEF SkipKind
    <3> QED
      BY <1>4, <2>3, <3>2, <3>3, <3>4 DEF Run, TakeNext, WhileSpinning, LockWaitMutex,
         CollectEntities, RclWait, CheckSpinning, Scanned, MarkGroup, ReturnCancelled,
         StartCallback, FinishCallback, ReleaseGroup, TriggerInterrupt, DestroyAnyExec, Scan
  <2>4. CASE StartCallback(t)
    <3>1. \A c \in Timers : pending'[c] = pending[c]
      BY <2>4 DEF StartCallback
    <3>2. handles' = handles /\ ((\A u \in Threads : pc'[u] # "wait") => \A u \in Threads : pc[u] # "wait")
      BY <2>4 DEF StartCallback
    <3> QED
      BY <3>1, <3>2
  <2>5. CASE WhileSpinning(t) \/ LockWaitMutex(t) \/ CheckSpinning(t) \/ Scanned(t)
    BY <2>5 DEF WhileSpinning, LockWaitMutex, CheckSpinning, Scanned
  <2>6. CASE MarkGroup(t) \/ ReturnCancelled(t) \/ FinishCallback(t)
    BY <2>6 DEF MarkGroup, ReturnCancelled, FinishCallback
  <2>7. CASE ReleaseGroup(t) \/ TriggerInterrupt(t) \/ DestroyAnyExec(t)
    BY <2>7 DEF ReleaseGroup, TriggerInterrupt, DestroyAnyExec
  <2> QED
    BY <1>4, <2>1, <2>2, <2>3, <2>4, <2>5, <2>6, <2>7 DEF Run, TakeNext, TakeDefault, TakePicas,
       SkipKind
<1>5. CASE UNCHANGED vars
  BY <1>5 DEF vars
<1> QED
  BY <1>1, <1>2, <1>3, <1>4, <1>5 DEF Next

(* A step that calls a timer finds it due. *)
LEMMA CalledWhenDueStep ==
    TypeOK /\ DueUntilTaken /\ [Next]_vars =>
        [\A t \in Threads : \A c \in called'[t] \ called[t] : pending[c]]_vars
<1> USE ExecutorAssumption
<1> SUFFICES ASSUME TypeOK, DueUntilTaken, Next,
                    NEW u \in Threads, NEW c \in called'[u] \ called[u]
             PROVE  pending[c]
  BY DEF vars
<1>1. ASSUME NEW t \in Threads, NEW d \in Callbacks, TakeNext(t, d) PROVE pending[c]
  <2>1. \A v \in Threads : pc[v] # "wait"
    BY <1>1 DEF TakeNext, TakeDefault, TakePicas, TypeOK, Locked, Scan
  <2>2. Takeable(pc[t]) \subseteq handles
    BY DEF Takeable
  <2>3. PICK S \in SUBSET handles : called' = [called EXCEPT ![t] = @ \cup (S \cap Timers)]
    <3>1. CASE callback_priority_enabled
      <4> DEFINE winner == IF Outranks(t, d) THEN d ELSE exec[t]
      <4> DEFINE S == (Takeable(pc[t]) \cap Timers) \cup
                      ({winner} \cap Takeable(pc[t]) \cap Waitables)
      <4>1. Consume(t, S)
        BY <1>1, <3>1 DEF TakeNext, TakePicas
      <4>2. S \in SUBSET handles
        BY <2>2
      <4> HIDE DEF S
      <4> QED
        BY <4>1, <4>2 DEF Consume
    <3>2. CASE ~callback_priority_enabled
      <4>1. Consume(t, {d} \cap (Timers \cup Waitables)) /\ d \in handles
        BY <1>1, <2>2, <3>2 DEF TakeNext, TakeDefault
      <4>2. {d} \cap (Timers \cup Waitables) \in SUBSET handles
        BY <4>1
      <4> QED
        BY <4>1, <4>2 DEF Consume
    <3> QED
      BY <3>1, <3>2
  <2>4. c \in handles /\ c \in Timers
    BY <2>3 DEF TypeOK
  <2> QED
    BY <2>1, <2>4 DEF DueUntilTaken
<1>2. ASSUME NEW t \in Threads, called' = [called EXCEPT ![t] = @ \ {exec[t]}] PROVE FALSE
  BY <1>2 DEF TypeOK
<1>3. CASE UNCHANGED called
  BY <1>3
<1>4. ASSUME NEW t \in Threads, Run(t) PROVE pending[c]
  BY <1>1, <1>2, <1>3, <1>4 DEF Run, WhileSpinning, LockWaitMutex, CollectEntities, RclWait,
     CheckSpinning, SkipKind, Scanned, MarkGroup, ReturnCancelled, StartCallback, SettleTimer,
     FinishCallback, ReleaseGroup, TriggerInterrupt, DestroyAnyExec
<1> QED
  BY <1>3, <1>4 DEF Next, Arrive, Spin, CancelStore, CancelTrigger

(* In both selection orders a timer is called only when it is due, however many *)
(* threads share the handles and however long they were left over.              *)
THEOREM NeverCalledEarly == Spec => TimerCalledWhenDue
<1>1. Init => DueUntilTaken
  BY DEF Init, DueUntilTaken
<1> QED
  BY <1>1, TypeCorrect, DueStep, CalledWhenDueStep, PTL DEF Spec, TimerCalledWhenDue

-----------------------------------------------------------------------------
(* The kinds that get_next_ready_executable_from_map asks for from label l on. *)
KindsFrom(l) ==
    CASE l \in {"woken", "get_next_timer"} -> Kinds
      [] l = "get_next_subscription" -> Kinds \ {"timer"}
      [] l = "get_next_service"      -> {"service", "client", "waitable"}
      [] l = "get_next_client"       -> {"client", "waitable"}
      [] l = "get_next_waitable"     -> {"waitable"}
      [] OTHER                       -> {}

(* During a search with priorities, whatever the wait offered is still there to *)
(* be looked at, or does not outrank the best found so far.                     *)
OfferedInSight ==
    callback_priority_enabled =>
        \A t \in Threads : pc[t] \in Scan \cup {"woken", "scanned", "mark"} =>
            /\ pc[t] = "mark" => exec[t] \in Callbacks
            /\ \A c \in offered :
                  \/ Kind[c] \in KindsFrom(pc[t]) /\ c \in handles /\ can_be_taken_from[Group[c]]
                  \/ pc[t] \notin {"woken", "get_next_timer"} /\ Priority[c] <= HighestSoFar(t)

(* The thread that searches holds wait_mutex_: no other erases a handle, marks a *)
(* group or waits anew meanwhile, though others may free their groups.           *)
LEMMA OfferedStep == TypeOK /\ OfferedInSight /\ [Next]_vars => OfferedInSight'
<1> USE ExecutorAssumption
<1> SUFFICES ASSUME TypeOK, TypeOK', callback_priority_enabled, OfferedInSight, [Next]_vars
             PROVE  OfferedInSight'
  BY TypeStep DEF OfferedInSight
<1> DEFINE Searching == Scan \cup {"woken", "scanned", "mark"}
<1> USE DEF Scan
<1>0. \A t, u \in Threads : pc[t] \in Locked /\ pc[u] \in Locked => t = u
  BY DEF TypeOK
<1>1. Searching \subseteq Locked
  BY DEF Locked
<1>2. \A t \in Threads : exec[t] \in Callbacks \cup {None} /\ HighestSoFar(t) \in Int
  BY DEF TypeOK, HighestSoFar
(* A step that leaves the search of every thread where it is. *)
<1>3. ASSUME UNCHANGED <<offered, handles>>,
             \A g \in Groups : can_be_taken_from[g] => can_be_taken_from'[g],
             \A u \in Threads : pc'[u] \in Searching => pc'[u] = pc[u] /\ exec'[u] = exec[u]
      PROVE  OfferedInSight'
  BY <1>3 DEF OfferedInSight, HighestSoFar, TypeOK
<1>4. CASE Spin \/ CancelStore \/ CancelTrigger \/ (\E c \in Callbacks : Arrive(c)) \/ UNCHANGED vars
  BY <1>3, <1>4 DEF Spin, CancelStore, CancelTrigger, Arrive, vars, TypeOK
<1>5. ASSUME NEW t \in Threads, Run(t) PROVE OfferedInSight'
  <2> USE DEF Goto, TypeOK
  <2>1. CASE WhileSpinning(t) \/ ReturnCancelled(t) \/ FinishCallback(t) \/ TriggerInterrupt(t)
    BY <1>3, <2>1 DEF WhileSpinning, ReturnCancelled, FinishCallback, TriggerInterrupt
  <2>2. CASE ReleaseGroup(t) \/ DestroyAnyExec(t)
    BY <1>3, <2>2 DEF ReleaseGroup, DestroyAnyExec, WithFree
  <2>3. CASE StartCallback(t)
    BY <1>3, <2>3 DEF StartCallback
  <2>4. CASE LockWaitMutex(t)
    BY <1>3, <2>4 DEF LockWaitMutex
  (* From here on t holds wait_mutex_ before the step, so that no other searches. *)
  <2>5. ASSUME pc[t] \in Locked, \A u \in Threads \ {t} : pc'[u] = pc[u] PROVE
               \A u \in Threads \ {t} : pc'[u] \notin Searching
    BY <1>0, <1>1, <2>5
  <2>6. CASE CollectEntities(t)
    <3>1. pc[t] \in Locked /\ pc'[t] = "wait" /\ \A u \in Threads \ {t} : pc'[u] = pc[u]
      BY <2>6 DEF CollectEntities, Locked
    <3> QED
      BY <2>5, <3>1 DEF OfferedInSight
  <2>7. CASE RclWait(t)
    <3>1. pc[t] \in Locked /\ pc'[t] = "woken" /\ \A u \in Threads \ {t} : pc'[u] = pc[u]
      BY <2>7 DEF RclWait, Locked
    <3>2. offered' = {c \in handles' : can_be_taken_from'[Group[c]]}
      BY <2>7 DEF RclWait
    <3>3. \A c \in offered' : Kind[c] \in KindsFrom("woken")
      BY <3>2 DEF KindsFrom
    <3> QED
      BY <2>5, <3>1, <3>2, <3>3 DEF OfferedInSight
  <2>8. CASE MarkGroup(t)
    <3>1. pc[t] \in Locked /\ pc'[t] = "taken" /\ \A u \in Threads \ {t} : pc'[u] = pc[u]
      BY <2>8 DEF MarkGroup, Locked
    <3> QED
      BY <2>5, <3>1 DEF OfferedInSight
  (* What remains to be shown of a step within the search. *)
  <2>9. ASSUME pc[t] \in Searching, \A u \in Threads \ {t} : pc'[u] = pc[u],
               pc'[t] = "mark" => exec'[t] \in Callbacks,
               pc'[t] \in Searching => \A c \in offered' :
                  \/ Kind[c] \in KindsFrom(pc'[t]) /\ c \in handles' /\ can_be_taken_from'[Group[c]]
                  \/ pc'[t] \notin {"woken", "get_next_timer"} /\ Priority[c] <= HighestSoFar(t)'
        PROVE  OfferedInSight'
    BY <1>1, <2>5, <2>9 DEF OfferedInSight
  <2>10. CASE CheckSpinning(t)
    <3>1. pc[t] = "woken" /\ pc'[t] \in {"get_next_timer", "discard"}
      BY <2>10 DEF CheckSpinning
    <3>2. KindsFrom("woken") = KindsFrom("get_next_timer")
      BY DEF KindsFrom
    <3>3. HighestSoFar(t)' = HighestSoFar(t)
      BY <2>10 DEF CheckSpinning, HighestSoFar
    <3>4. \A c \in offered :
            Kind[c] \in KindsFrom("woken") /\ c \in handles /\ can_be_taken_from[Group[c]]
      BY <3>1 DEF OfferedInSight
    <3> QED
      BY <2>9, <2>10, <3>1, <3>2, <3>3, <3>4 DEF CheckSpinning
  <2>11. CASE Scanned(t)
    <3>1. pc[t] = "scanned" /\ UNCHANGED <<exec, offered, handles>>
      BY <2>11 DEF Scanned
    <3>2. HighestSoFar(t)' = HighestSoFar(t)
      BY <3>1 DEF HighestSoFar
    <3>3. \A c \in offered : Priority[c] <= HighestSoFar(t)
      BY <3>1 DEF OfferedInSight, KindsFrom
    <3>4. pc'[t] = "mark" => exec[t] \in Callbacks
      BY <1>2, <2>11 DEF Scanned, HighestSoFar
    <3> QED
      BY <2>9, <2>11, <3>1, <3>2, <3>3, <3>4 DEF Scanned
  <2>12. ASSUME pc[t] \in Scan PROVE
            /\ After(pc[t]) \notin {"woken", "get_next_timer", "mark"}
            /\ \A k \in KindsFrom(pc[t]) : k = KindAt(pc[t]) \/ k \in KindsFrom(After(pc[t]))
    BY <2>12 DEF After, KindAt, KindsFrom, Kinds
  <2>13. CASE SkipKind(t)
    <3>1. pc[t] \in Scan /\ pc'[t] = After(pc[t]) /\ Takeable(pc[t]) = {}
      BY <2>13 DEF SkipKind, After
    <3>2. UNCHANGED <<exec, offered, handles, can_be_taken_from>>
      BY <2>13 DEF SkipKind
    <3>3. HighestSoFar(t)' = HighestSoFar(t)
      BY <3>2 DEF HighestSoFar
    <3>4. \A c \in handles : can_be_taken_from[Group[c]] => Kind[c] # KindAt(pc[t])
      BY <3>1 DEF Takeable
    <3>5. \A c \in offered :
            \/ Kind[c] \in KindsFrom(pc[t]) /\ c \in handles /\ can_be_taken_from[Group[c]]
            \/ Priority[c] <= HighestSoFar(t)
      BY <3>1 DEF OfferedInSight
    <3>6. \A u \in Threads \ {t} : pc'[u] = pc[u]
      BY <2>13 DEF SkipKind
    <3> QED
      BY <2>9, <2>12, <3>1, <3>2, <3>3, <3>4, <3>5, <3>6
  <2>14. ASSUME NEW b \in Callbacks, TakePicas(t, b) PROVE OfferedInSight'
    <3> DEFINE found == Takeable(pc[t])
    <3>1. pc[t] \in Scan /\ pc'[t] = After(pc[t]) /\ \A u \in Threads \ {t} : pc'[u] = pc[u]
      BY <2>14 DEF TakePicas, After
    <3>2. UNCHANGED <<offered, can_be_taken_from>> /\ handles' = handles \ found
      BY <2>14 DEF TakePicas
    <3>3. b \in found /\ \A c \in found : Priority[c] <= Priority[b]
      BY <2>14 DEF TakePicas, Highest
    <3>4. exec'[t] = IF Outranks(t, b) THEN b ELSE exec[t]
      BY <2>14 DEF TakePicas
    <3>5. \A c \in handles : c \in found <=> Kind[c] = KindAt(pc[t]) /\ can_be_taken_from[Group[c]]
      BY DEF Takeable
    <3> HIDE DEF found
    <3>6. \A c \in offered :
            \/ Kind[c] \in KindsFrom(pc[t]) /\ c \in handles /\ can_be_taken_from[Group[c]]
            \/ Priority[c] <= HighestSoFar(t)
      BY <3>1 DEF OfferedInSight
    <3>7. CASE Outranks(t, b) /\ pc[t] # "get_next_timer"
      <4>1. HighestSoFar(t)' = Priority[b] /\ HighestSoFar(t) < Priority[b]
        BY <3>4, <3>7 DEF Outranks, HighestSoFar
      <4>2. \A c \in offered : Priority[c] \in Int
        OBVIOUS
      <4>3. ASSUME NEW c \in offered
            PROVE  \/ Kind[c] \in KindsFrom(pc'[t]) /\ c \in handles' /\ can_be_taken_from'[Group[c]]
                   \/ Priority[c] <= HighestSoFar(t)'
        BY <1>2, <2>12, <3>1, <3>2, <3>3, <3>5, <3>6, <4>1, <4>2
      <4> QED
        BY <2>9, <2>12, <3>1, <3>2, <4>3
    <3>8. CASE ~Outranks(t, b)
      <4>1. HighestSoFar(t)' = HighestSoFar(t) /\ Priority[b] <= HighestSoFar(t)
        BY <1>2, <3>4, <3>8 DEF Outranks, HighestSoFar
      <4>2. \A c \in offered : Priority[c] \in Int
        OBVIOUS
      <4>3. ASSUME NEW c \in offered
            PROVE  \/ Kind[c] \in KindsFrom(pc'[t]) /\ c \in handles' /\ can_be_taken_from'[Group[c]]
                   \/ Priority[c] <= HighestSoFar(t)'
        BY <1>2, <2>12, <3>1, <3>2, <3>3, <3>5, <3>6, <4>1, <4>2
      <4> QED
        BY <2>9, <2>12, <3>1, <3>2, <4>3
    <3>9. CASE pc[t] = "get_next_timer"
      <4>1. HighestSoFar(t)' = Priority[b]
        BY <3>4, <3>9 DEF Outranks, HighestSoFar
      <4>2. \A c \in offered :
              Kind[c] \in KindsFrom(pc[t]) /\ c \in handles /\ can_be_taken_from[Group[c]]
        BY <3>1, <3>9 DEF OfferedInSight
      <4>3. ASSUME NEW c \in offered
            PROVE  \/ Kind[c] \in KindsFrom(pc'[t]) /\ c \in handles' /\ can_be_taken_from'[Group[c]]
                   \/ Priority[c] <= HighestSoFar(t)'
        BY <2>12, <3>1, <3>2, <3>3, <3>5, <4>1, <4>2
      <4> QED
        BY <2>9, <2>12, <3>1, <3>2, <4>3
    <3> QED
      BY <3>7, <3>8, <3>9
  <2> QED
    BY <1>5, <2>1, <2>2, <2>3, <2>4, <2>6, <2>7, <2>8, <2>10, <2>11, <2>13, <2>14 DEF Run, TakeNext
<1> QED
  BY <1>4, <1>5 DEF Next

(* With PiCAS, the callback that is handed out has the highest priority of all *)
(* that were ready and takeable when the wait returned, for any priorities and *)
(* any number of threads, although the kinds are searched one after another    *)
(* and other threads free their groups meanwhile.                              *)
THEOREM PriorityOrder == Spec => []HighestPriorityFirst
<1>1. Init => OfferedInSight
  BY DEF Init, OfferedInSight, Scan
<1>2. TypeOK /\ OfferedInSight => HighestPriorityFirst
  <2> SUFFICES ASSUME TypeOK, OfferedInSight, NEW t \in Threads, callback_priority_enabled,
                      pc[t] = "mark", NEW c \in offered
               PROVE  Priority[c] <= Priority[exec[t]]
    BY DEF HighestPriorityFirst
  <2>1. exec[t] \in Callbacks /\ Priority[c] <= HighestSoFar(t)
    BY DEF OfferedInSight, KindsFrom
  <2> QED
    BY <2>1, ExecutorAssumption DEF HighestSoFar
<1> QED
  BY <1>1, <1>2, TypeCorrect, OfferedStep, PTL DEF Spec

-----------------------------------------------------------------------------
(* Nobody has told the threads to stop, or the executor is one whose single *)
(* thread gives its group back in ~AnyExecutable.                           *)
NotAbandoned == ~MultiThreaded \/ ~Cancellable

(* Without cancel(), threads run only while spinning is set. *)
SpinningWhileRunning ==
    ~Cancellable => ~cancelling /\ \A t \in Threads : pc[t] # "idle" => spinning

(* A group that is in use has an AnyExecutable that is still going to free it. *)
WillBeFreed ==
    \A g \in Groups : ~can_be_taken_from[g] =>
        \E t \in Threads : /\ group[t] = g
                           /\ \/ pc[t] \in Holding
                              \/ ~MultiThreaded /\ pc[t] = "end"

LEMMA HeldStep ==
    ASSUME ~callback_priority_enabled, NotAbandoned, ExclusionInv, SpinningWhileRunning,
           WillBeFreed, [Next]_vars
    PROVE  SpinningWhileRunning' /\ WillBeFreed'
<1> USE ExecutorAssumption
<1>0. TypeOK /\ TypeOK' /\ GroupOfExec /\ NoGroupHeld
  BY TypeStep DEF ExclusionInv
<1> USE DEF TypeOK, Holding
<1>1. SpinningWhileRunning'
  <2> USE DEF SpinningWhileRunning
  <2>1. ASSUME NEW t \in Threads, Run(t) PROVE SpinningWhileRunning'
    <3>1. pc[t] # "idle" /\ UNCHANGED <<spinning, cancelling>>
      BY <2>1 DEF Run, WhileSpinning, LockWaitMutex, CollectEntities, RclWait, CheckSpinning,
         TakeNext, TakeDefault, TakePicas, SkipKind, Scanned, MarkGroup, ReturnCancelled,
         StartCallback, FinishCallback, ReleaseGroup, TriggerInterrupt, DestroyAnyExec, Scan
    <3>2. PICK l : Goto(t, l)
      BY <2>1, Zenon DEF Run, WhileSpinning, LockWaitMutex, CollectEntities, RclWait, CheckSpinning,
         TakeNext, TakeDefault, TakePicas, SkipKind, Scanned, MarkGroup, ReturnCancelled,
         StartCallback, FinishCallback, ReleaseGroup, TriggerInterrupt, DestroyAnyExec
    <3>3. \A u \in Threads \ {t} : pc'[u] = pc[u]
      BY <1>0, <3>2 DEF Goto
    <3> QED
      BY <2>1, <3>1, <3>3
  <2> QED
    BY <2>1 DEF Next, Arrive, Spin, CancelStore, CancelTrigger, vars
<1>2. WillBeFreed'
  <2> USE DEF WillBeFreed
  <2>1. CASE (\E c \in Callbacks : Arrive(c)) \/ CancelStore \/ CancelTrigger \/ UNCHANGED vars
    BY <2>1 DEF Arrive, CancelStore, CancelTrigger, vars
  <2>2. CASE Spin
    BY <2>2 DEF Spin
  <2>3. ASSUME NEW t \in Threads, Run(t) PROVE WillBeFreed'
    <3> USE DEF Goto
    (* A step of t that keeps the groups, and t's own if it holds one. *)
    <3>1. ASSUME UNCHANGED can_be_taken_from, \A u \in Threads \ {t} : pc'[u] = pc[u],
                 \A u \in Threads \ {t} : group'[u] = group[u],
                 pc[t] \in Holding \cup {"end"} => pc'[t] \in Holding /\ group'[t] = group[t]
          PROVE  WillBeFreed'
      BY <3>1
    <3>2. CASE WhileSpinning(t) \/ LockWaitMutex(t) \/ CollectEntities(t) \/ RclWait(t)
      BY <1>0, <3>1, <3>2 DEF WhileSpinning, LockWaitMutex, CollectEntities, RclWait
    <3>3. CASE CheckSpinning(t) \/ SkipKind(t) \/ Scanned(t)
      BY <1>0, <3>1, <3>3 DEF CheckSpinning, SkipKind, Scanned, Scan
    <3>4. ASSUME NEW c \in Callbacks, TakeDefault(t, c) PROVE WillBeFreed'
      BY <1>0, <3>1, <3>4 DEF TakeDefault, Scan
    <3>5. CASE MarkGroup(t)
      <4>1. group[t] \in Groups /\ group'[t] = group[t] /\ pc'[t] = "taken" /\ pc[t] = "mark"
        BY <1>0, <3>5 DEF MarkGroup, GroupOfExec
      <4>2. \A g \in Groups : ~can_be_taken_from'[g] => g = group[t] \/ ~can_be_taken_from[g]
        BY <1>0, <3>5, <4>1 DEF MarkGroup, WithBusy
      <4>3. \A u \in Threads \ {t} : pc'[u] = pc[u] /\ group'[u] = group[u]
        BY <1>0, <3>5 DEF MarkGroup
      <4> QED
        BY <4>1, <4>2, <4>3
    <3>6. CASE ReturnCancelled(t)
      <4>1. ~MultiThreaded
        BY <3>6 DEF ReturnCancelled, NotAbandoned, SpinningWhileRunning
      <4> QED
        BY <1>0, <3>6, <4>1 DEF ReturnCancelled
    <3>7. CASE StartCallback(t) \/ FinishCallback(t)
      BY <1>0, <3>1, <3>7 DEF StartCallback, FinishCallback
    <3>8. CASE ReleaseGroup(t)
      <4>1. group[t] \in Groups
        BY <1>0, <3>8 DEF ReleaseGroup, GroupOfExec
      <4>2. can_be_taken_from' = [can_be_taken_from EXCEPT ![group[t]] = TRUE]
        BY <3>8, <4>1 DEF ReleaseGroup, WithFree
      <4>3. \A u \in Threads \ {t} : pc'[u] = pc[u] /\ group'[u] = group[u]
        BY <1>0, <3>8 DEF ReleaseGroup
      <4> QED
        BY <1>0, <4>1, <4>2, <4>3
    <3>9. CASE TriggerInterrupt(t)
      BY <1>0, <3>1, <3>9 DEF TriggerInterrupt
    <3>10. CASE DestroyAnyExec(t)
      <4>1. \A g \in Groups : ~can_be_taken_from'[g] =>
              ~can_be_taken_from[g] /\ (MultiThreaded \/ g # group[t])
        BY <1>0, <3>10 DEF DestroyAnyExec, WithFree, GroupAtExit
      <4>2. \A u \in Threads \ {t} : pc'[u] = pc[u] /\ group'[u] = group[u]
        BY <1>0, <3>10 DEF DestroyAnyExec
      <4>3. pc[t] \notin Holding
        BY <3>10 DEF DestroyAnyExec
      <4> QED
        BY <4>1, <4>2, <4>3
    <3> QED
      BY <2>3, <3>2, <3>3, <3>4, <3>5, <3>6, <3>7, <3>8, <3>9, <3>10 DEF Run, TakeNext
  <2> QED
    BY <2>1, <2>2, <2>3 DEF Next
<1> QED
  BY <1>1, <1>2

(* In rclcpp's own selection order no group is lost to the executor, unless it *)
(* is multi-threaded and somebody calls cancel(): that is the one way, and the *)
(* run cancel_group shows it.                                                  *)
THEOREM NoGroupLost ==
    ASSUME ~callback_priority_enabled, NotAbandoned PROVE Spec => []BusyGroupIsHeld
<1>1. Init => SpinningWhileRunning /\ WillBeFreed
  BY DEF Init, SpinningWhileRunning, WillBeFreed
<1>2. ExclusionInv /\ SpinningWhileRunning /\ WillBeFreed /\ [Next]_vars
      => SpinningWhileRunning' /\ WillBeFreed'
  BY HeldStep
<1>3. WillBeFreed => BusyGroupIsHeld
  BY DEF WillBeFreed, BusyGroupIsHeld
<1> QED
  BY <1>1, <1>2, <1>3, ExclusionInvariant, PTL DEF Spec

-----------------------------------------------------------------------------
(* In rclcpp's own order a thread has called the timer it is about to run, if *)
(* any, and no other.                                                         *)
CalledIsOwn ==
    \A t \in Threads :
        called[t] = IF pc[t] \in {"mark", "taken"} THEN {exec[t]} \cap Timers ELSE {}

LEMMA CalledStep ==
    ASSUME ~callback_priority_enabled, TypeOK, CalledIsOwn, [Next]_vars PROVE CalledIsOwn'
<1> USE ExecutorAssumption DEF CalledIsOwn, TypeOK
<1>1. CASE (\E c \in Callbacks : Arrive(c)) \/ CancelStore \/ CancelTrigger \/ UNCHANGED vars
  BY <1>1 DEF Arrive, CancelStore, CancelTrigger, vars
<1>2. CASE Spin
  BY <1>2 DEF Spin
<1>3. ASSUME NEW t \in Threads, Run(t) PROVE CalledIsOwn'
  <2> USE DEF Goto
  <2>1. CASE WhileSpinning(t) \/ LockWaitMutex(t) \/ CollectEntities(t) \/ RclWait(t)
    BY <2>1 DEF WhileSpinning, LockWaitMutex, CollectEntities, RclWait
  <2>2. CASE CheckSpinning(t) \/ SkipKind(t) \/ Scanned(t)
    BY <2>2 DEF CheckSpinning, SkipKind, Scanned, Scan, After
  <2>3. ASSUME NEW c \in Callbacks, TakeDefault(t, c) PROVE CalledIsOwn'
    <3>1. called[t] = {} /\ pc'[t] = "mark" /\ exec'[t] = c
      BY <2>3 DEF TakeDefault, Scan
    <3>2. {c} \cap (Timers \cup Waitables) \cap Timers = {c} \cap Timers
      OBVIOUS
    <3>3. called' = [called EXCEPT ![t] = {c} \cap Timers]
      BY <2>3, <3>1, <3>2 DEF TakeDefault, Consume
    <3>4. \A u \in Threads \ {t} : pc'[u] = pc[u] /\ exec'[u] = exec[u] /\ called'[u] = called[u]
      BY <2>3, <3>3 DEF TakeDefault
    <3> QED
      BY <3>1, <3>3, <3>4
  <2>4. CASE MarkGroup(t) \/ FinishCallback(t) \/ ReleaseGroup(t) \/ TriggerInterrupt(t)
    BY <2>4 DEF MarkGroup, FinishCallback, ReleaseGroup, TriggerInterrupt
  <2>5. CASE ReturnCancelled(t) \/ StartCallback(t)
    <3>1. called' = [called EXCEPT ![t] = {}]
      BY <2>5 DEF ReturnCancelled, StartCallback, SettleTimer
    <3>2. pc'[t] \notin {"mark", "taken"} /\ exec' = exec /\ \A u \in Threads \ {t} : pc'[u] = pc[u]
      BY <2>5 DEF ReturnCancelled, StartCallback
    <3> QED
      BY <3>1, <3>2
  <2>6. CASE DestroyAnyExec(t)
    BY <2>6 DEF DestroyAnyExec
  <2> QED
    BY <1>3, <2>1, <2>2, <2>3, <2>4, <2>5, <2>6 DEF Run, TakeNext
<1> QED
  BY <1>1, <1>2, <1>3 DEF Next

(* In rclcpp's own selection order no activation of a timer is lost: whatever *)
(* call() has re-armed is the callback that is run, or discarded by cancel(). *)
(* The run picas_timer shows that PiCAS' order has not this property.         *)
THEOREM NoActivationLost ==
    ASSUME ~callback_priority_enabled PROVE Spec => []CalledTimerIsTaken
<1>1. Init => CalledIsOwn
  BY DEF Init, CalledIsOwn
<1>2. TypeOK /\ CalledIsOwn /\ [Next]_vars => CalledIsOwn'
  BY CalledStep
<1>3. CalledIsOwn => CalledTimerIsTaken
  BY DEF CalledIsOwn, CalledTimerIsTaken
<1> QED
  BY <1>1, <1>2, <1>3, TypeCorrect, PTL DEF Spec
=============================================================================
