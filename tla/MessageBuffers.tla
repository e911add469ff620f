--------------------------- MODULE MessageBuffers ---------------------------
(***************************************************************************)
(* Who owns the memory of a message: SerializedMessage, which constructs,  *)
(* copies, moves, assigns and releases rcl_serialized_message_t, and       *)
(* LoanedMessage, whose memory is the middleware's or a local allocator's. *)
(***************************************************************************)
EXTENDS Integers, FiniteSets

CONSTANTS
    Serialized,   \* SerializedMessage objects
    Loaned,       \* LoanedMessage objects
    CanLoan,      \* PublisherBase::can_loan_messages()
    MaxBuffers,   \* bound: buffers that are allocated
    Null

VARIABLES
    alive,        \* objects between construction and destruction
    buffer,       \* what each object points to, or Null
    memory,       \* "fresh", "live", "freed" or "lent" (with the middleware again)
    content,      \* the message in each buffer
    outside,      \* buffers that release() gave to the caller
    dropped,      \* buffers that an assignment overwrote
    twice         \* some buffer was freed or returned a second time

vars == <<alive, buffer, memory, content, outside, dropped, twice>>

Objects == Serialized \cup Loaned
Buffers == 1 .. MaxBuffers
Holds(o) == buffer[o] # Null

Init ==
    /\ alive = {}
    /\ buffer = [o \in Objects |-> Null]
    /\ memory = [b \in Buffers |-> "fresh"]
    /\ content = [b \in Buffers |-> 0]
    /\ outside = {}
    /\ dropped = {}
    /\ twice = FALSE

(* rmw_serialized_message_init, MessageAllocator::allocate, rcl_borrow_loaned_message *)
Allocate(b, m) ==
    /\ memory[b] = "fresh"
    /\ \A c \in Buffers : memory[c] = "fresh" => b <= c
    /\ memory' = [memory EXCEPT ![b] = "live"]
    /\ content' = [content EXCEPT ![b] = m]

GiveBack(b, as) ==
    /\ memory' = [memory EXCEPT ![b] = as]
    /\ twice' = (twice \/ memory[b] # "live")

Born(o, b) == alive' = alive \cup {o} /\ buffer' = [buffer EXCEPT ![o] = b]

-----------------------------------------------------------------------------
(* SerializedMessage *)

Construct(o, m) ==
    /\ o \in Serialized \ alive
    /\ \E b \in Buffers : Allocate(b, m) /\ Born(o, b)
    /\ UNCHANGED <<outside, dropped, twice>>

(* copy_rcl_message allocates nothing for an empty message. *)
CopyTo(o, other) ==
    IF Holds(other)
    THEN \E b \in Buffers :
            Allocate(b, content[buffer[other]]) /\ buffer' = [buffer EXCEPT ![o] = b]
    ELSE buffer' = [buffer EXCEPT ![o] = Null] /\ UNCHANGED <<memory, content>>

CopyConstruct(o, other) ==
    /\ o \in Serialized \ alive /\ other \in Serialized \cap alive
    /\ alive' = alive \cup {o}
    /\ CopyTo(o, other)
    /\ UNCHANGED <<outside, dropped, twice>>

(* std::exchange leaves the other empty. *)
MoveConstruct(o, other) ==
    /\ o \in Serialized \ alive /\ other \in Serialized \cap alive
    /\ alive' = alive \cup {o}
    /\ buffer' = [buffer EXCEPT ![o] = buffer[other], ![other] = Null]
    /\ UNCHANGED <<memory, content, outside, dropped, twice>>

(* operator=: the buffer that the object had is overwritten, not finalized. *)
Overwritten(o) == dropped' = IF Holds(o) THEN dropped \cup {buffer[o]} ELSE dropped

CopyAssign(o, other) ==
    /\ {o, other} \subseteq Serialized \cap alive /\ o # other
    /\ Overwritten(o)
    /\ CopyTo(o, other)
    /\ UNCHANGED <<alive, outside, twice>>

(* The allocation fails after the old buffer is gone. *)
CopyAssignThrows(o, other) ==
    /\ {o, other} \subseteq Serialized \cap alive /\ o # other
    /\ Overwritten(o)
    /\ buffer' = [buffer EXCEPT ![o] = Null]
    /\ UNCHANGED <<alive, memory, content, outside, twice>>

MoveAssign(o, other) ==
    /\ {o, other} \subseteq Serialized \cap alive /\ o # other
    /\ Overwritten(o)
    /\ buffer' = [buffer EXCEPT ![o] = buffer[other], ![other] = Null]
    /\ UNCHANGED <<alive, memory, content, outside, twice>>

release_rcl_serialized_message(o) ==
    /\ o \in Serialized \cap alive /\ Holds(o)
    /\ outside' = outside \cup {buffer[o]}
    /\ buffer' = [buffer EXCEPT ![o] = Null]
    /\ UNCHANGED <<alive, memory, content, dropped, twice>>

Destroy(o) ==
    /\ o \in Serialized \cap alive
    /\ alive' = alive \ {o}
    /\ buffer' = [buffer EXCEPT ![o] = Null]
    /\ IF Holds(o) THEN GiveBack(buffer[o], "freed") ELSE UNCHANGED <<memory, twice>>
    /\ UNCHANGED <<content, outside, dropped>>

-----------------------------------------------------------------------------
(* LoanedMessage *)

Loan(o, m) ==
    /\ o \in Loaned \ alive
    /\ \E b \in Buffers : Allocate(b, m) /\ Born(o, b)
    /\ UNCHANGED <<outside, dropped, twice>>

MoveLoan(o, other) ==
    /\ o \in Loaned \ alive /\ other \in Loaned \cap alive
    /\ alive' = alive \cup {o}
    /\ buffer' = [buffer EXCEPT ![o] = buffer[other], ![other] = Null]
    /\ UNCHANGED <<memory, content, outside, dropped, twice>>

DestroyLoan(o) ==
    /\ o \in Loaned \cap alive
    /\ alive' = alive \ {o}
    /\ buffer' = [buffer EXCEPT ![o] = Null]
    /\ IF Holds(o) THEN GiveBack(buffer[o], IF CanLoan THEN "lent" ELSE "freed")
       ELSE UNCHANGED <<memory, twice>>
    /\ UNCHANGED <<content, outside, dropped>>

release(o) ==
    /\ o \in Loaned \cap alive /\ Holds(o)
    /\ outside' = outside \cup {buffer[o]}
    /\ buffer' = [buffer EXCEPT ![o] = Null]
    /\ UNCHANGED <<alive, memory, content, dropped, twice>>

(* The caller's part: it publishes or frees what was released to it. *)
Disposed(b) ==
    /\ b \in outside
    /\ outside' = outside \ {b}
    /\ GiveBack(b, "freed")
    /\ UNCHANGED <<alive, buffer, content, dropped>>

Next ==
    \/ \E o \in Serialized, m \in 1 .. 2 : Construct(o, m)
    \/ \E o, other \in Serialized :
          \/ CopyConstruct(o, other)
          \/ MoveConstruct(o, other)
          \/ CopyAssign(o, other)
          \/ CopyAssignThrows(o, other)
          \/ MoveAssign(o, other)
    \/ \E o \in Serialized : release_rcl_serialized_message(o) \/ Destroy(o)
    \/ \E o \in Loaned, m \in 1 .. 2 : Loan(o, m)
    \/ \E o, other \in Loaned : MoveLoan(o, other)
    \/ \E o \in Loaned : DestroyLoan(o) \/ release(o)
    \/ \E b \in Buffers : Disposed(b)

Spec == Init /\ [][Next]_vars

-----------------------------------------------------------------------------
(* Memory has one owner: no two objects point to one buffer, what an object    *)
(* points to or the caller was given is live, nothing is freed or returned     *)
(* twice, and a live buffer is lost only by an assignment over it.             *)
OneOwner ==
    /\ \A o, p \in Objects : o # p /\ Holds(o) => buffer[o] # buffer[p]
    /\ \A o \in Objects : Holds(o) => memory[buffer[o]] = "live" /\ buffer[o] \notin outside
    /\ \A b \in outside : memory[b] = "live"
    /\ ~twice
    /\ \A b \in Buffers : memory[b] = "live" =>
          b \in outside \cup dropped \/ (\E o \in Objects : buffer[o] = b)
=============================================================================
