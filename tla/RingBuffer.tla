------------------------------ MODULE RingBuffer ------------------------------
(***************************************************************************)
(* RingBufferImplementation: a vector of capacity_ slots, the slot written *)
(* last, the slot to read next and the number of messages held.  Every     *)
(* operation runs under mutex_, so each is one step.                       *)
(***************************************************************************)
EXTENDS Integers, Sequences

CONSTANTS Messages, capacity_, Null

ASSUME RingAssumption == capacity_ \in Nat \ {0} /\ Null \notin Messages

VARIABLES ring_buffer_, write_index_, read_index_, size_, got

vars == <<ring_buffer_, write_index_, read_index_, size_, got>>
Indices == 0..(capacity_ - 1)

Init ==
    /\ ring_buffer_ = [i \in Indices |-> Null]
    /\ write_index_ = capacity_ - 1
    /\ read_index_ = 0
    /\ size_ = 0
    /\ got = Null

next_(val) == (val + 1) % capacity_

has_data_ == size_ # 0

is_full_ == size_ = capacity_

enqueue_CountsFirst(request) ==
    /\ write_index_' = next_(write_index_)
    /\ ring_buffer_' = [ring_buffer_ EXCEPT ![next_(write_index_)] = request]
    /\ IF size_ + 1 = capacity_ THEN read_index_' = next_(read_index_) /\ UNCHANGED size_
       ELSE size_' = size_ + 1 /\ UNCHANGED read_index_
    /\ UNCHANGED got

(* A full buffer loses its oldest message. *)
enqueue(request) ==
    /\ write_index_' = next_(write_index_)
    /\ ring_buffer_' = [ring_buffer_ EXCEPT ![next_(write_index_)] = request]
    /\ IF is_full_ THEN read_index_' = next_(read_index_) /\ UNCHANGED size_
       ELSE size_' = size_ + 1 /\ UNCHANGED read_index_
    /\ UNCHANGED got

(* The message is moved out of its slot; an empty buffer returns a null message. *)
dequeue ==
    IF has_data_
    THEN /\ got' = ring_buffer_[read_index_]
         /\ ring_buffer_' = [ring_buffer_ EXCEPT ![read_index_] = Null]
         /\ read_index_' = next_(read_index_)
         /\ size_' = size_ - 1
         /\ UNCHANGED write_index_
    ELSE /\ got' = Null
         /\ UNCHANGED <<ring_buffer_, write_index_, read_index_, size_>>

Next == dequeue \/ \E m \in Messages : enqueue(m)

Spec == Init /\ [][Next]_vars

-----------------------------------------------------------------------------
(* Indices stay in the vector and the count within the capacity. *)
RingTypeOK ==
    /\ ring_buffer_ \in [Indices -> Messages \cup {Null}]
    /\ write_index_ \in Indices /\ read_index_ \in Indices
    /\ size_ \in 0..capacity_
    /\ got \in Messages \cup {Null}

(* The slot of the i-th message, counted from the oldest. *)
Slot(i) == IF read_index_ + i - 1 < capacity_ THEN read_index_ + i - 1
           ELSE read_index_ + i - 1 - capacity_

(* The three counters agree: the slot written last is the slot of the newest message,
   the slots from read_index_ on hold messages. *)
Occupied ==
    /\ write_index_ = IF size_ = 0
                      THEN (IF read_index_ = 0 THEN capacity_ - 1 ELSE read_index_ - 1)
                      ELSE Slot(size_)
    /\ \A i \in 1..size_ : ring_buffer_[Slot(i)] \in Messages

Contents == [i \in 1..size_ |-> ring_buffer_[Slot(i)]]

Abstract == INSTANCE BoundedQueue WITH Capacity <- capacity_, queue <- Contents

(* The ring buffer behaves as a bounded queue that drops its oldest message: no
   message is lost, repeated or reordered while there is room for it. *)
ImplementsQueue == Abstract!Spec
===============================================================================
