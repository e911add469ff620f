----------------------------- MODULE BoundedQueue -----------------------------
(***************************************************************************)
(* What an intra-process buffer promises: a queue of at most Capacity      *)
(* messages that drops its oldest one to make room for a new one.          *)
(***************************************************************************)
EXTENDS Integers, Sequences

CONSTANTS Messages, Capacity, Null

VARIABLES queue,    \* the messages held, oldest first
          got       \* what the last dequeue returned

Init == queue = <<>> /\ got = Null

Push(q, m) == Append(IF Len(q) = Capacity THEN Tail(q) ELSE q, m)

Enqueue(m) == queue' = Push(queue, m) /\ UNCHANGED got

Dequeue == IF queue = <<>> THEN got' = Null /\ UNCHANGED queue
           ELSE got' = Head(queue) /\ queue' = Tail(queue)

Next == Dequeue \/ \E m \in Messages : Enqueue(m)

Spec == Init /\ [][Next]_<<queue, got>>
===============================================================================
