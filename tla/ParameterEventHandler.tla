------------------------- MODULE ParameterEventHandler -------------------------
(***************************************************************************)
(* ParameterEventHandler: lists of weak handles, one per parameter and one  *)
(* for all events, and the walk of event_callback over them.  The walk      *)
(* holds the recursive mutex, so other threads register and remove between  *)
(* walks, callbacks may register during one, and owners may let go of a     *)
(* handle at any time.                                                      *)
(***************************************************************************)
EXTENDS Naturals, Sequences, SequencesExt, FiniteSets

CONSTANTS Lists,         \* the keys of parameter_callbacks_, and "events" for event_callbacks_
          Handles,       \* callback handles
          ListOf,        \* the list a handle is registered in
          HandlesExpire, \* whether owners drop handles without removing the callback
          MaxEvents      \* bound on the events received

HandlerAssumption ==
    /\ "events" \in Lists
    /\ ListOf \in [Handles -> Lists]
    /\ HandlesExpire \in BOOLEAN /\ MaxEvents \in Nat

VARIABLES
    list,     \* list -> its handles, the last registered first
    live,     \* handles whose owner still holds them
    used,     \* handles that have been registered
    walk,     \* the lists the walk has still to visit, the present one first
    cursor,   \* position in the present list; Len + 1 is end()
    called,   \* calls made in this walk, per handle: 0, 1, or 2 for more
    owed,     \* handles registered and held since the walk began
    events    \* events received

vars == <<list, live, used, walk, cursor, called, owed, events>>

Init ==
    /\ list = [l \in Lists |-> <<>>] /\ live = {} /\ used = {}
    /\ walk = <<>> /\ cursor = 1
    /\ called = [h \in Handles |-> 0] /\ owed = {} /\ events = 0

-----------------------------------------------------------------------------
(* add_parameter_callback and add_parameter_event_callback: the last registered is the
   first called.  During a walk, only a callback can register. *)
add_callback(h) ==
    /\ h \notin used
    /\ list' = [list EXCEPT ![ListOf[h]] = <<h>> \o @]
    /\ live' = live \cup {h} /\ used' = used \cup {h}
    /\ cursor' = IF walk # <<>> /\ Head(walk) = ListOf[h] THEN cursor + 1 ELSE cursor
    /\ UNCHANGED <<walk, called, owed, events>>

(* remove_parameter_callback and remove_parameter_event_callback. *)
remove_callback(h) ==
    /\ walk = <<>> /\ h \in live
    /\ list' = [list EXCEPT ![ListOf[h]] = SelectSeq(@, LAMBDA x : x # h)]
    /\ live' = live \ {h}
    /\ UNCHANGED <<used, walk, cursor, called, owed, events>>

Expire(h) ==
    /\ HandlesExpire /\ h \in live
    /\ live' = live \ {h} /\ owed' = owed \ {h}
    /\ UNCHANGED <<list, used, walk, cursor, called, events>>

(* event_callback begins: the lists of the parameters in the event, then event_callbacks_. *)
StartEvent(keys) ==
    /\ walk = <<>> /\ events < MaxEvents
    /\ walk' = Append(SetToSeq(keys), "events") /\ cursor' = 1
    /\ called' = [h \in Handles |-> 0]
    /\ owed' = {h \in live : ListOf[h] \in keys \cup {"events"}}
    /\ events' = events + 1
    /\ UNCHANGED <<list, live, used>>

Advance_EndSkipped(l, c) == IF c >= Len(l) THEN 1 ELSE c + 1

(* ++ past the sentinel of the list is its first element. *)
Advance(l, c) == IF c > Len(l) THEN 1 ELSE c + 1

(* One turn of the loop: a held handle is called; an expired one is erased, which moves
   the iterator to its successor, and the loop then advances once more. *)
Visit ==
    /\ walk # <<>> /\ cursor <= Len(list[Head(walk)])
    /\ LET l == list[Head(walk)]
           h == l[cursor]
           shorter == RemoveAt(l, cursor)
       IN IF h \in live
          THEN /\ called' = [called EXCEPT ![h] = IF @ < 2 THEN @ + 1 ELSE @]
               /\ cursor' = Advance(l, cursor)
               /\ UNCHANGED list
          ELSE /\ list' = [list EXCEPT ![Head(walk)] = shorter]
               /\ cursor' = IF shorter = <<>> THEN 1 ELSE Advance(shorter, cursor)
               /\ UNCHANGED called
    /\ UNCHANGED <<live, used, walk, owed, events>>

EndList ==
    /\ walk # <<>> /\ cursor > Len(list[Head(walk)])
    /\ walk' = Tail(walk) /\ cursor' = 1
    /\ UNCHANGED <<list, live, used, called, owed, events>>

Walk == Visit \/ EndList

Next ==
    \/ \E h \in Handles : add_callback(h) \/ remove_callback(h) \/ Expire(h)
    \/ \E keys \in SUBSET (Lists \ {"events"}) : StartEvent(keys)
    \/ Walk

Spec == Init /\ [][Next]_vars
FairSpec == Spec /\ WF_vars(Walk)

-----------------------------------------------------------------------------
HandlerTypeOK ==
    /\ \A l \in Lists : /\ Range(list[l]) \subseteq {h \in Handles : ListOf[h] = l}
                        /\ IsInjective(list[l])
    /\ live \subseteq used /\ used \subseteq Handles
    /\ \A h \in live : h \in Range(list[ListOf[h]])
    /\ walk # <<>> => cursor \in 1..(Len(list[Head(walk)]) + 1)

(* Every callback registered before an event and held until the walk is over is called
   for that event, and called once, also when other callbacks are registered, removed
   or dropped around it. *)
CalledOncePerEvent ==
    walk = <<>> /\ events > 0 => \A h \in owed \cap live : called[h] = 1

Walking == walk # <<>>

===============================================================================
