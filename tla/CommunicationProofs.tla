------------------------- MODULE CommunicationProofs -------------------------
(***************************************************************************)
(* Proofs about RingBuffer, for every capacity and every set of messages:  *)
(* it implements BoundedQueue; and about ClientService, for any number of  *)
(* clients, requests and executor threads: whatever is lost, repeated,     *)
(* pruned or late, a request's callback is called at most once and never   *)
(* after its removal, a response finds its request unless that was         *)
(* answered or removed, and SUCCESS means that the future is ready.        *)
(***************************************************************************)
EXTENDS RingBuffer, ClientService, SequenceTheorems, TLAPS

-----------------------------------------------------------------------------
(* The ring buffer. *)

(* next_ wraps around exactly at the end of the vector. *)
LEMMA NextWraps ==
    ASSUME NEW v \in Indices
    PROVE  next_(v) = IF v + 1 = capacity_ THEN 0 ELSE v + 1
<1>1. CASE v + 1 = capacity_
  BY <1>1, RingAssumption DEF next_, Indices
<1>2. CASE v + 1 < capacity_
  BY <1>2, RingAssumption DEF next_, Indices
<1> QED BY <1>1, <1>2, RingAssumption DEF Indices

(* The inductive invariant: types, and the three counters agreeing. *)
RingInv == RingTypeOK /\ Occupied

LEMMA RingInit == Init => RingInv
BY RingAssumption DEF Init, RingInv, RingTypeOK, Occupied, Indices, Slot

LEMMA EnqueueInv == ASSUME RingInv, NEW m \in Messages, enqueue(m) PROVE RingInv'
<1>1. next_(write_index_) \in Indices /\ next_(read_index_) \in Indices
  BY NextWraps, RingAssumption DEF RingInv, RingTypeOK, Indices
<1>2. RingTypeOK'
  BY <1>1, RingAssumption DEF RingInv, RingTypeOK, enqueue, is_full_
<1>3. CASE is_full_
  <2>1. write_index_' = Slot(size_)'
    BY <1>3, NextWraps, RingAssumption DEF RingInv, RingTypeOK, Occupied, enqueue, is_full_, Slot, Indices
  <2>2. ASSUME NEW i \in 1..size_' PROVE ring_buffer_'[Slot(i)'] \in Messages
    <3>1. CASE i = size_
      BY <3>1, <2>1, <1>1, <1>3 DEF RingInv, RingTypeOK, enqueue, is_full_
    <3>2. CASE i < size_
      <4>1. Slot(i)' = Slot(i + 1) /\ i + 1 \in 1..size_
        <5>1. read_index_' = IF read_index_ + 1 = capacity_ THEN 0 ELSE read_index_ + 1
          BY <1>3, NextWraps DEF enqueue, RingInv, RingTypeOK
        <5>2. size_ = capacity_ /\ read_index_ \in 0..(capacity_ - 1) /\ i \in 1..(capacity_ - 1)
          BY <1>3, <3>2 DEF enqueue, RingInv, RingTypeOK, Indices, is_full_
        <5>3. QED BY <5>1, <5>2, RingAssumption DEF Slot
      <4>2. Slot(i + 1) \in Indices
        BY <4>1, RingAssumption DEF RingInv, RingTypeOK, Slot, Indices
      <4>3. QED BY <4>1, <4>2, <1>1, <1>3 DEF RingInv, RingTypeOK, Occupied, enqueue, is_full_
    <3>3. QED BY <3>1, <3>2, <1>3 DEF RingInv, RingTypeOK, enqueue, is_full_
  <2>3. QED BY <1>2, <1>3, <2>1, <2>2, RingAssumption DEF RingInv, Occupied, enqueue, is_full_, RingTypeOK
<1>4. CASE ~is_full_
  <2>1. write_index_' = Slot(size_)' /\ size_' = size_ + 1
    BY <1>4, NextWraps, RingAssumption DEF RingInv, RingTypeOK, Occupied, enqueue, is_full_, Slot, Indices
  <2>2. ASSUME NEW i \in 1..size_' PROVE ring_buffer_'[Slot(i)'] \in Messages
    <3>1. CASE i = size_ + 1
      BY <3>1, <2>1, <1>1, <1>4 DEF RingInv, RingTypeOK, enqueue, is_full_
    <3>2. CASE i \in 1..size_
      <4>1. Slot(i)' = Slot(i) /\ Slot(i) \in Indices
        BY <3>2, <1>4, RingAssumption DEF RingInv, RingTypeOK, enqueue, is_full_, Slot, Indices
      <4>2. QED BY <3>2, <4>1, <1>1, <1>4 DEF RingInv, RingTypeOK, Occupied, enqueue, is_full_
    <3>3. QED BY <2>1, <2>2, <3>1, <3>2 DEF RingInv, RingTypeOK
  <2>3. QED BY <1>2, <2>1, <2>2, RingAssumption DEF RingInv, Occupied, RingTypeOK
<1> QED BY <1>3, <1>4

LEMMA DequeueInv == ASSUME RingInv, dequeue PROVE RingInv'
<1>1. CASE ~has_data_
  BY <1>1, RingAssumption DEF RingInv, RingTypeOK, Occupied, dequeue, Slot
<1>2. CASE has_data_
  <2>1. /\ read_index_' = IF read_index_ + 1 = capacity_ THEN 0 ELSE read_index_ + 1
        /\ ring_buffer_' = [ring_buffer_ EXCEPT ![read_index_] = Null]
        /\ write_index_' = write_index_
        /\ size_' = size_ - 1 /\ size_ \in 1..capacity_
        /\ read_index_ \in Indices
    BY <1>2, NextWraps, RingAssumption DEF RingInv, RingTypeOK, dequeue, has_data_
  <2>2. RingTypeOK'
    BY <1>2, <2>1, RingAssumption DEF RingInv, RingTypeOK, dequeue, Indices
  <2>3. ASSUME NEW i \in 1..size_'
        PROVE  Slot(i)' = Slot(i + 1) /\ Slot(i)' # read_index_ /\ Slot(i)' \in Indices
    BY <2>1, RingAssumption DEF Slot, Indices
  <2>4. write_index_' = IF size_' = 0
                        THEN (IF read_index_' = 0 THEN capacity_ - 1 ELSE read_index_' - 1)
                        ELSE Slot(size_)'
    BY <2>1, RingAssumption DEF RingInv, Occupied, Slot, Indices
  <2>5. ASSUME NEW i \in 1..size_' PROVE ring_buffer_'[Slot(i)'] \in Messages
    <3>1. i + 1 \in 1..size_
      BY <2>1, <2>2 DEF RingTypeOK
    <3>2. QED BY <3>1, <2>3, <2>1 DEF RingInv, RingTypeOK, Occupied
  <2>6. QED BY <2>2, <2>4, <2>5 DEF RingInv, Occupied
<1> QED BY <1>1, <1>2

(* RingTypeOK and Occupied hold in every reachable state: the count and the two
   indices of RingBufferImplementation never disagree. *)
THEOREM RingInvariant == Spec => [](RingTypeOK /\ Occupied)
<1>1. RingInv /\ [Next]_vars => RingInv'
  <2>1. RingInv /\ UNCHANGED vars => RingInv'
    BY DEF RingInv, RingTypeOK, Occupied, Slot, vars
  <2>2. QED BY <2>1, EnqueueInv, DequeueInv DEF Next
<1>2. QED BY <1>1, RingInit, PTL DEF Spec, RingInv

(* A function on 1..n is a sequence of length n. *)
LEMMA FunctionIsSeq ==
    ASSUME NEW n \in Nat, NEW f \in [1..n -> Messages]
    PROVE  f \in Seq(Messages) /\ Len(f) = n
BY LenProperties, SeqDef

(* Contents is a sequence of messages, before and after a step. *)
LEMMA ContentsSeq ==
    ASSUME RingInv
    PROVE  /\ Contents \in Seq(Messages) /\ Len(Contents) = size_
           /\ \A i \in 1..size_ : Contents[i] = ring_buffer_[Slot(i)]
<1>1. size_ \in Nat /\ Contents \in [1..size_ -> Messages]
  BY RingAssumption DEF RingInv, RingTypeOK, Occupied, Contents
<1>2. QED BY <1>1, FunctionIsSeq DEF Contents

LEMMA ContentsSeqNext ==
    ASSUME RingInv'
    PROVE  /\ Contents' \in Seq(Messages) /\ Len(Contents') = size_'
           /\ \A i \in 1..size_' : Contents'[i] = ring_buffer_'[Slot(i)']
<1>1. size_' \in Nat /\ Contents' \in [1..size_' -> Messages]
  BY RingAssumption DEF RingInv, RingTypeOK, Occupied, Contents
<1>2. QED BY <1>1, FunctionIsSeq DEF Contents

LEMMA LastOrEarlier == \A n \in Nat : \A i \in 1..n : i = n \/ i \in 1..(n - 1)
OBVIOUS

(* An enqueue appends the message, after the oldest one is dropped if the buffer is full. *)
LEMMA EnqueueImplements ==
    ASSUME RingInv, NEW m \in Messages, enqueue(m) PROVE Abstract!Enqueue(m)
<1> DEFINE rest == IF is_full_ THEN Tail(Contents) ELSE Contents
<1>1. RingInv'
  BY EnqueueInv
<1>2. rest \in Seq(Messages) /\ Len(rest) = size_' - 1
  <2>1. CASE is_full_
    <3>1. Contents # <<>>
      BY <2>1, ContentsSeq, RingAssumption, EmptySeq DEF is_full_
    <3>2. QED BY <2>1, <3>1, ContentsSeq, HeadTailProperties DEF enqueue
  <2>2. CASE ~is_full_
    BY <2>2, ContentsSeq DEF enqueue, RingInv, RingTypeOK
  <2>3. QED BY <2>1, <2>2
<1>3. ASSUME NEW i \in 1..(size_' - 1) PROVE Contents'[i] = rest[i]
  <2>1. /\ next_(write_index_) \in Indices
        /\ read_index_ + 1 = capacity_ => next_(read_index_) = 0
        /\ read_index_ + 1 # capacity_ => next_(read_index_) = read_index_ + 1
    BY NextWraps, RingAssumption DEF RingInv, RingTypeOK, Indices
  <2>2. CASE is_full_
    <3>1. Contents # <<>>
      BY <2>2, ContentsSeq, RingAssumption, EmptySeq DEF is_full_
    <3>2. rest[i] = Contents[i + 1] /\ i + 1 \in 1..size_ /\ size_' = size_
      BY <2>2, <3>1, <1>2, ContentsSeq, HeadTailProperties DEF enqueue, RingInv, RingTypeOK
    <3>3. Slot(i)' = Slot(i + 1) /\ Slot(i + 1) # next_(write_index_) /\ Slot(i + 1) \in Indices
      <4>1. next_(write_index_) = read_index_ /\ size_ = capacity_ /\ read_index_ \in Indices
        BY <2>2, NextWraps, RingAssumption DEF RingInv, RingTypeOK, Occupied, is_full_, Slot, Indices
      <4>2. read_index_' = IF read_index_ + 1 = capacity_ THEN 0 ELSE read_index_ + 1
        BY <2>1, <2>2 DEF enqueue
      <4>3. i + 1 \in 2..capacity_
        BY <3>2, <4>1
      <4>4. QED BY <4>1, <4>2, <4>3, RingAssumption DEF Slot, Indices
    <3>4. QED BY <1>1, <2>1, <3>2, <3>3, ContentsSeq, ContentsSeqNext DEF enqueue, RingInv, RingTypeOK
  <2>3. CASE ~is_full_
    <3>1. size_' = size_ + 1 /\ read_index_' = read_index_ /\ i \in 1..size_
      BY <2>3 DEF enqueue, RingInv, RingTypeOK
    <3>2. Slot(i)' = Slot(i) /\ Slot(i) # next_(write_index_) /\ Slot(i) \in Indices
      BY <2>1, <2>3, <3>1, NextWraps, RingAssumption
         DEF RingInv, RingTypeOK, Occupied, is_full_, Slot, Indices
    <3>3. ring_buffer_'[Slot(i)] = ring_buffer_[Slot(i)]
      BY <3>2 DEF enqueue, RingInv, RingTypeOK
    <3>4. Contents'[i] = ring_buffer_'[Slot(i)']
      BY <1>1, <3>1, ContentsSeqNext DEF RingInv, RingTypeOK
    <3>5. Contents[i] = ring_buffer_[Slot(i)]
      BY <3>1, ContentsSeq
    <3>6. QED BY <2>3, <3>2, <3>3, <3>4, <3>5
  <2>4. QED BY <2>2, <2>3
<1>4. Contents'[size_'] = m /\ size_' \in Nat \ {0}
  <2>1. size_' \in 1..capacity_ /\ next_(write_index_) \in Indices
    BY NextWraps, RingAssumption DEF RingInv, RingTypeOK, enqueue, is_full_, Indices
  <2>2. write_index_' = Slot(size_)' /\ write_index_' = next_(write_index_)
    BY <1>1, <2>1, RingAssumption DEF RingInv, Occupied, enqueue
  <2>3. ring_buffer_'[Slot(size_)'] = m
    BY <2>1, <2>2 DEF enqueue, RingInv, RingTypeOK
  <2>4. size_' \in 1..size_' /\ size_' \in Nat \ {0}
    BY <2>1, RingAssumption
  <2>5. Contents'[size_'] = ring_buffer_'[Slot(size_)']
    BY <2>4 DEF Contents
  <2>6. QED BY <2>3, <2>4, <2>5
<1>5. Contents' = Append(rest, m)
  <2>1. /\ Append(rest, m) \in Seq(Messages) /\ Len(Append(rest, m)) = size_'
        /\ \A i \in 1..(size_' - 1) : Append(rest, m)[i] = rest[i]
        /\ Append(rest, m)[size_'] = m
    <3>1. /\ Append(rest, m) \in Seq(Messages) /\ Len(Append(rest, m)) = Len(rest) + 1
          /\ \A i \in 1..Len(rest) : Append(rest, m)[i] = rest[i]
          /\ Append(rest, m)[Len(rest) + 1] = m
      BY <1>2, AppendProperties
    <3>2. Len(rest) = size_' - 1 /\ Len(rest) + 1 = size_'
      BY <1>2, <1>4
    <3>3. QED BY <3>1, <3>2
  <2>2. ASSUME NEW i \in 1..size_' PROVE Contents'[i] = Append(rest, m)[i]
    <3>1. CASE i = size_'
      BY <3>1, <2>1, <1>4
    <3>2. CASE i \in 1..(size_' - 1)
      BY <3>2, <2>1, <1>3
    <3>3. i = size_' \/ i \in 1..(size_' - 1)
      <4>1. size_' \in Nat
        BY <1>4
      <4>2. QED BY <4>1, LastOrEarlier
    <3>4. QED BY <3>1, <3>2, <3>3
  <2>3. QED BY <1>1, <2>1, <2>2, ContentsSeqNext, SeqEqual
<1>6. rest = IF Len(Contents) = capacity_ THEN Tail(Contents) ELSE Contents
  BY ContentsSeq DEF is_full_
<1>7. QED BY <1>5, <1>6 DEF Abstract!Enqueue, Abstract!Push, enqueue

(* A dequeue takes the oldest message away. *)
LEMMA DequeueImplements == ASSUME RingInv, dequeue PROVE Abstract!Dequeue
<1>1. RingInv'
  BY DequeueInv
<1>2. CASE ~has_data_
  <2>1. Contents = <<>>
    BY <1>2, ContentsSeq, EmptySeq DEF has_data_
  <2>2. Contents' = Contents
    BY <1>2 DEF dequeue, Contents, Slot
  <2>3. QED BY <1>2, <2>1, <2>2 DEF Abstract!Dequeue, dequeue
<1>3. CASE has_data_
  <2>1. Contents # <<>> /\ size_ \in 1..capacity_
    BY <1>3, ContentsSeq, EmptySeq, RingAssumption DEF has_data_, RingInv, RingTypeOK
  <2>2. Head(Contents) = Contents[1] /\ Slot(1) = read_index_
    BY <2>1, RingAssumption DEF Slot, RingInv, RingTypeOK, Indices
  <2>3. got' = Head(Contents)
    BY <1>3, <2>1, <2>2, ContentsSeq DEF dequeue
  <2>4. /\ read_index_' = IF read_index_ + 1 = capacity_ THEN 0 ELSE read_index_ + 1
        /\ ring_buffer_' = [ring_buffer_ EXCEPT ![read_index_] = Null]
        /\ size_' = size_ - 1 /\ read_index_ \in Indices
    BY <1>3, NextWraps DEF RingInv, RingTypeOK, dequeue
  <2>5. ASSUME NEW i \in 1..size_' PROVE Contents'[i] = Contents[i + 1]
    <3>1. Slot(i)' = Slot(i + 1) /\ Slot(i)' # read_index_ /\ Slot(i)' \in Indices
      BY <2>1, <2>4, RingAssumption DEF Slot, Indices
    <3>2. i + 1 \in 1..size_
      BY <2>1, <2>4
    <3>3. QED BY <1>1, <2>4, <3>1, <3>2, ContentsSeq, ContentsSeqNext DEF RingInv, RingTypeOK
  <2>6. Contents' = Tail(Contents)
    <3>1. /\ Tail(Contents) \in Seq(Messages) /\ Len(Tail(Contents)) = size_'
          /\ \A i \in 1..size_' : Tail(Contents)[i] = Contents[i + 1]
      BY <2>1, <2>4, ContentsSeq, HeadTailProperties
    <3>2. QED BY <1>1, <2>5, <3>1, ContentsSeqNext, SeqEqual
  <2>7. QED BY <2>1, <2>3, <2>6 DEF Abstract!Dequeue
<1> QED BY <1>2, <1>3

(* The ring buffer of RingBufferImplementation implements the bounded queue. *)
THEOREM RingImplementsQueue == Spec => ImplementsQueue
<1>1. Init => Abstract!Init
  BY DEF Init, Abstract!Init, Contents
<1>2. RingInv /\ [Next]_vars => [Abstract!Next]_<<Contents, got>>
  <2>1. UNCHANGED vars => UNCHANGED <<Contents, got>>
    BY DEF vars, Contents, Slot
  <2>2. QED BY <2>1, EnqueueImplements, DequeueImplements DEF Next, Abstract!Next
<1>3. QED BY <1>1, <1>2, RingInvariant, PTL DEF Spec, ImplementsQueue, Abstract!Spec, RingInv

-----------------------------------------------------------------------------
(* Clients and services. *)

(* The numbers client c has drawn, and the headers of requests that were sent: only these
   travel between client and service. *)
Drawn(c) == {n \in Numbers : n < next[c]}
Headers == [client : Clients, number : Numbers]
Sent == {h \in Headers : h.number \in Drawn(h.client)}

States == {"none", "waiting", "set", "broken"}

ClientShape ==
    /\ next \in [Clients -> 1..(MaxRequests + 1)]
    /\ sending \in [Clients -> 0..MaxRequests]
    /\ DOMAIN pending = Clients
    /\ handling \in [Clients -> SUBSET Numbers]
    /\ taken \in [Clients -> [Numbers -> 0..MaxTaken]]
    /\ promise \in [Clients -> [Numbers -> States]]
    /\ callbacks \in [Clients -> [Numbers -> Nat]]
    /\ removed \in [Clients -> SUBSET Numbers]
    /\ ignored \in [Clients -> SUBSET Numbers]
    /\ spin \in [Clients -> [number : 0..MaxRequests,
                             state : {"idle", "spinning", "SUCCESS", "TIMEOUT", "INTERRUPTED"}]]
    /\ now \in Nat

(* Whatever travels was sent. *)
Travelling ==
    /\ requests \in Seq(Sent)
    /\ deferred \subseteq Sent
    /\ DOMAIN responses = Clients
    /\ \A c \in Clients :
          /\ responses[c] \in Seq(Drawn(c))
          /\ \A n \in Numbers : taken[c][n] > 0 => n \in Drawn(c)

(* Where the request n of client c is says what became of its promise: it waits while it is
   being sent, is pending or is being handled, which exclude one another. *)
Waits(c, n) == n \in DOMAIN pending[c] \/ n \in handling[c] \/ n = sending[c]

Tracked(c, n) ==
    /\ promise[c][n] = "none" <=> n \notin Drawn(c)
    /\ promise[c][n] = "waiting" <=> Waits(c, n)
    /\ ~(n \in DOMAIN pending[c] /\ n \in handling[c])
    /\ n = sending[c] => n \notin DOMAIN pending[c] /\ n \notin handling[c]
    /\ callbacks[c][n] = IF promise[c][n] = "set" THEN 1 ELSE 0
    /\ n \in removed[c] => promise[c][n] = "broken"
    /\ n \in ignored[c] => n \in handling[c] \/ promise[c][n] \in {"set", "broken"}

Tracking ==
    \A c \in Clients :
        /\ DOMAIN pending[c] \subseteq Numbers
        /\ \A n \in DOMAIN pending[c] : pending[c][n] \in 0..now
        /\ \A n \in Numbers : Tracked(c, n)

(* The future that a caller spins for is one of a request that it sent. *)
Spinning ==
    \A c \in Clients :
        /\ spin[c].state # "idle" => spin[c].number \in Numbers
        /\ spin[c].state = "SUCCESS" => Ready(c, spin[c].number)

ClientInv == ClientShape /\ Travelling /\ Tracking /\ Spinning

-----------------------------------------------------------------------------
(* Sequences of things that were sent stay such sequences. *)
LEMMA SubSeq1 ==
    ASSUME NEW S, NEW T, S \subseteq T
    PROVE  Seq(S) \subseteq Seq(T)
OBVIOUS

LEMMA SeqFacts ==
    ASSUME NEW S, NEW q \in Seq(S)
    PROVE  /\ q # <<>> => Head(q) \in S /\ Tail(q) \in Seq(S)
           /\ \A x \in S : Append(q, x) \in Seq(S) /\ q \o <<x>> \in Seq(S)
           /\ q \o <<>> \in Seq(S)
           /\ <<>> \in Seq(S)
<1>1. q # <<>> => Head(q) \in S /\ Tail(q) \in Seq(S)
  OBVIOUS
<1>2. \A x \in S : Append(q, x) \in Seq(S)
  OBVIOUS
<1>3. \A x \in S : q \o <<x>> \in Seq(S)
  OBVIOUS
<1>4. <<>> \in Seq(S)
  OBVIOUS
<1>5. q \o <<>> \in Seq(S)
  BY <1>4
<1> QED BY <1>1, <1>2, <1>3, <1>4, <1>5

(* A step that leaves the numbers alone keeps what was drawn and sent. *)
LEMMA SameDrawn ==
    ASSUME UNCHANGED next
    PROVE  Sent' = Sent /\ \A c : Drawn(c)' = Drawn(c)
BY DEF Sent, Drawn

LEMMA InitInv ==
    ClientInit => ClientInv
<1> SUFFICES ASSUME ClientInit PROVE ClientInv
  OBVIOUS
<1>0. MaxRequests \in Nat \ {0} /\ MaxTaken \in Nat /\ 1 \in 1..(MaxRequests + 1)
      /\ 0 \in 0..MaxRequests /\ 0 \in 0..MaxTaken /\ Numbers \subseteq Nat \ {0}
  BY ClientAssumption DEF Numbers
<1>1. ClientShape
  BY <1>0 DEF ClientInit, ClientShape, States
<1>2. \A c \in Clients : Drawn(c) = {}
  BY <1>0 DEF ClientInit, Drawn, Numbers
<1>3. Travelling
  <2>1. <<>> \in Seq(Sent) /\ \A c \in Clients : <<>> \in Seq(Drawn(c))
    OBVIOUS
  <2> QED BY <2>1, <1>0 DEF ClientInit, Travelling
<1>4. Tracking
  <2>1. DOMAIN <<>> = {}
    OBVIOUS
  <2> QED BY <2>1, <1>0, <1>2 DEF ClientInit, Tracking, Tracked, Waits
<1>5. Spinning
  BY DEF ClientInit, Spinning
<1> QED BY <1>1, <1>3, <1>4, <1>5 DEF ClientInv

-----------------------------------------------------------------------------
(* What a step leaves alone stays true. *)

LEMMA TravellingStays ==
    ASSUME Travelling, UNCHANGED <<next, requests, deferred, responses, taken>>
    PROVE  Travelling'
BY SameDrawn DEF Travelling

LEMMA TrackingStays ==
    ASSUME ClientShape, Tracking,
           UNCHANGED <<next, sending, pending, handling, promise, callbacks, removed, ignored>>,
           now' \in Nat, now <= now'
    PROVE  Tracking'
<1>1. \A c \in Clients : \A n \in Numbers : Tracked(c, n)'
  BY SameDrawn DEF Tracking, Tracked, Waits
<1>2. \A c \in Clients : \A n \in DOMAIN pending[c] : pending[c][n] \in 0..now'
  BY DEF Tracking, ClientShape
<1> QED BY <1>1, <1>2 DEF Tracking

LEMMA SpinningStays ==
    ASSUME Spinning, UNCHANGED spin,
           \A c \in Clients, n \in Numbers :
              promise[c][n] \in {"set", "broken"} => promise'[c][n] \in {"set", "broken"}
    PROVE  Spinning'
BY DEF Spinning, Ready

LEMMA NumbersFacts ==
    /\ MaxRequests \in Nat \ {0} /\ MaxTaken \in Nat
    /\ Numbers = 1..MaxRequests /\ 0 \notin Numbers
BY ClientAssumption DEF Numbers

-----------------------------------------------------------------------------
(* The steps of a client. *)

LEMMA SendStep ==
    ASSUME ClientInv, NEW c \in Clients, async_send_request(c)
    PROVE  ClientInv'
<1>0. ClientShape /\ Travelling /\ Tracking /\ Spinning
  BY DEF ClientInv
<1>1. PICK k : k = next[c]
  OBVIOUS
<1>2. k \in Numbers /\ k \notin Drawn(c) /\ k \in Nat /\ sending[c] = 0
  BY <1>0, <1>1, NumbersFacts DEF async_send_request, ClientShape, Drawn
<1>3. /\ next' = [next EXCEPT ![c] = k + 1] /\ sending' = [sending EXCEPT ![c] = k]
      /\ promise' = [promise EXCEPT ![c][k] = "waiting"]
      /\ requests' = Append(requests, Header(c, k))
      /\ UNCHANGED <<pending, deferred, responses, taken, handling, callbacks, removed, ignored, spin, now>>
  BY <1>1 DEF async_send_request
<1>4. /\ \A b \in Clients : b # c => Drawn(b)' = Drawn(b) /\ next'[b] = next[b] /\ sending'[b] = sending[b]
      /\ next'[c] = k + 1 /\ sending'[c] = k
  BY <1>0, <1>3 DEF ClientShape, Drawn
<1>5. Drawn(c)' = Drawn(c) \cup {k}
  BY <1>1, <1>2, <1>4, NumbersFacts DEF Drawn
<1>6. ClientShape'
  <2>1. k + 1 \in 1..(MaxRequests + 1) /\ k \in 0..MaxRequests
    BY <1>2, NumbersFacts
  <2> QED BY <2>1, <1>0, <1>2, <1>3 DEF ClientShape, States
<1>7. Sent \subseteq Sent' /\ Header(c, k) \in Sent'
  <2>1. \A b \in Clients : Drawn(b) \subseteq Drawn(b)'
    BY <1>4, <1>5
  <2>2. Sent \subseteq Sent'
    BY <2>1 DEF Sent, Headers
  <2>3. Header(c, k) \in Headers /\ Header(c, k).client = c /\ Header(c, k).number = k
    BY <1>2 DEF Headers, Header
  <2> QED BY <2>2, <2>3, <1>5 DEF Sent
<1>8. Travelling'
  <2>1. requests' \in Seq(Sent')
    BY <1>0, <1>3, <1>7, SubSeq1, SeqFacts DEF Travelling
  <2>2. \A b \in Clients : Drawn(b) \subseteq Drawn(b)'
    BY <1>4, <1>5
  <2>3. \A b \in Clients : responses'[b] \in Seq(Drawn(b)')
    BY <2>2, <1>0, <1>3, SubSeq1 DEF Travelling
  <2> QED BY <2>1, <2>2, <2>3, <1>0, <1>3, <1>7 DEF Travelling
<1>9. Tracking'
  <2>1. \A b \in Clients : \A n \in Numbers :
           promise'[b][n] = IF b = c /\ n = k THEN "waiting" ELSE promise[b][n]
    BY <1>0, <1>3 DEF ClientShape
  <2>2. Tracked(c, k)
    BY <1>0, <1>2 DEF Tracking
  <2>3. ~Waits(c, k) /\ k \notin removed[c] /\ k \notin ignored[c] /\ callbacks[c][k] = 0
    BY <2>2, <1>2 DEF Tracked, Waits
  <2>4. Tracked(c, k)'
    BY <2>1, <2>3, <1>2, <1>3, <1>4, <1>5 DEF Tracked, Waits
  <2>5. ASSUME NEW b \in Clients, NEW n \in Numbers, ~(b = c /\ n = k) PROVE Tracked(b, n)'
    <3>1. Tracked(b, n)
      BY <1>0 DEF Tracking
    <3>2. n \in Drawn(b)' <=> n \in Drawn(b)
      BY <2>5, <1>4, <1>5
    <3>3. (n = sending[b])' <=> n = sending[b]
      BY <2>5, <1>2, <1>4, NumbersFacts
    <3> QED BY <2>1, <2>5, <3>1, <3>2, <3>3, <1>3 DEF Tracked, Waits
  <2>6. \A b \in Clients : \A n \in Numbers : Tracked(b, n)'
    BY <2>4, <2>5
  <2> QED BY <2>6, <1>0, <1>3 DEF Tracking
<1>10. Spinning'
  <2>1. promise[c][k] = "none"
    BY <1>0, <1>2 DEF Tracking, Tracked
  <2> QED BY <2>1, <1>0, <1>3, SpinningStays DEF ClientShape
<1> QED BY <1>6, <1>8, <1>9, <1>10 DEF ClientInv

LEMMA RecordStep ==
    ASSUME ClientInv, NEW c \in Clients, Record(c)
    PROVE  ClientInv'
<1>0. ClientShape /\ Travelling /\ Tracking /\ Spinning
  BY DEF ClientInv
<1>1. PICK k : k = sending[c]
  OBVIOUS
<1>2. k \in Numbers
  BY <1>0, <1>1, NumbersFacts DEF Record, ClientShape
<1>3. /\ UNCHANGED <<next, requests, deferred, responses, taken, handling, promise, callbacks, removed,
                     ignored, spin, now>>
      /\ sending' = [sending EXCEPT ![c] = 0]
      /\ pending' = [pending EXCEPT ![c] = [n \in DOMAIN pending[c] \cup {k} |->
                                               IF n = k THEN now ELSE pending[c][n]]]
  BY <1>0, <1>1 DEF Record, serviceVars, ClientShape
<1>4. ClientShape'
  BY <1>0, <1>3, NumbersFacts DEF ClientShape
<1>5. Travelling'
  BY <1>0, <1>3, TravellingStays
<1>6. Spinning'
  BY <1>0, <1>3, SpinningStays
<1>7. /\ \A b \in Clients : b # c => pending'[b] = pending[b] /\ sending'[b] = sending[b]
      /\ DOMAIN pending'[c] = DOMAIN pending[c] \cup {k} /\ sending'[c] = 0
      /\ \A n \in DOMAIN pending'[c] : pending'[c][n] = IF n = k THEN now ELSE pending[c][n]
  BY <1>0, <1>3 DEF ClientShape
<1>8. ASSUME NEW b \in Clients, NEW n \in Numbers PROVE Tracked(b, n)'
  <2>1. Tracked(b, n) /\ Drawn(b)' = Drawn(b)
    BY <1>0, <1>3, SameDrawn DEF Tracking
  <2>2. CASE b # c
    BY <2>1, <2>2, <1>3, <1>7 DEF Tracked, Waits
  <2>3. CASE b = c
    BY <2>1, <2>3, <1>1, <1>3, <1>7, NumbersFacts DEF Tracked, Waits
  <2> QED BY <2>2, <2>3
<1>9. ASSUME NEW b \in Clients
      PROVE  /\ DOMAIN pending'[b] \subseteq Numbers
             /\ \A n \in DOMAIN pending'[b] : pending'[b][n] \in 0..now'
  <2>1. DOMAIN pending[b] \subseteq Numbers /\ \A n \in DOMAIN pending[b] : pending[b][n] \in 0..now
    BY <1>0 DEF Tracking
  <2>2. now \in 0..now /\ now' = now
    BY <1>0, <1>3 DEF ClientShape
  <2> QED BY <2>1, <2>2, <1>2, <1>7
<1>10. Tracking'
  BY <1>8, <1>9 DEF Tracking
<1> QED BY <1>4, <1>5, <1>6, <1>10 DEF ClientInv

(* Removal and pruning. *)
LEMMA RemovesStep ==
    ASSUME ClientInv, NEW c \in Clients, NEW S, S \subseteq DOMAIN pending[c], sending[c] = 0,
           Removes(c, S)
    PROVE  ClientInv'
<1>0. ClientShape /\ Travelling /\ Tracking /\ Spinning
  BY DEF ClientInv
<1>1. S \subseteq Numbers /\ DOMAIN pending[c] \subseteq Numbers
  BY <1>0 DEF Tracking
<1>2. /\ UNCHANGED <<next, sending, requests, deferred, responses, taken, handling, callbacks, ignored,
                     spin, now>>
      /\ pending' = [pending EXCEPT ![c] = Without(pending[c], S)]
      /\ promise' = [promise EXCEPT ![c] = [n \in Numbers |->
                                               IF n \in S THEN "broken" ELSE promise[c][n]]]
      /\ removed' = [removed EXCEPT ![c] = removed[c] \cup S]
  BY <1>0 DEF Removes, serviceVars, ClientShape
<1>3. /\ \A b \in Clients : b # c => pending'[b] = pending[b] /\ promise'[b] = promise[b]
                                     /\ removed'[b] = removed[b]
      /\ pending'[c] = Without(pending[c], S) /\ removed'[c] = removed[c] \cup S
      /\ \A n \in Numbers : promise'[c][n] = IF n \in S THEN "broken" ELSE promise[c][n]
  BY <1>0, <1>2 DEF ClientShape
<1>4. /\ DOMAIN pending'[c] = DOMAIN pending[c] \ S
      /\ \A n \in DOMAIN pending'[c] : pending'[c][n] = pending[c][n]
  BY <1>3 DEF Without
<1>5. ClientShape'
  BY <1>0, <1>1, <1>2 DEF ClientShape, States
<1>6. Travelling'
  BY <1>0, <1>2, TravellingStays
<1>7. \A n \in S : promise[c][n] = "waiting"
  BY <1>0, <1>1 DEF Tracking, Tracked, Waits
<1>8. Spinning'
  <2>1. \A b \in Clients, n \in Numbers :
           promise[b][n] \in {"set", "broken"} => promise'[b][n] \in {"set", "broken"}
    BY <1>3
  <2> QED BY <2>1, <1>0, <1>2, SpinningStays
<1>9. ASSUME NEW b \in Clients, NEW n \in Numbers PROVE Tracked(b, n)'
  <2>1. Tracked(b, n) /\ Drawn(b)' = Drawn(b)
    BY <1>0, <1>2, SameDrawn DEF Tracking
  <2>2. CASE b # c
    BY <2>1, <2>2, <1>2, <1>3 DEF Tracked, Waits
  <2>3. CASE b = c /\ n \in S
    <3>1. promise'[c][n] = "broken" /\ promise[c][n] = "waiting" /\ n # sending[c]
      BY <2>3, <1>1, <1>3, <1>7, NumbersFacts
    <3> QED BY <2>1, <2>3, <3>1, <1>2, <1>3, <1>4 DEF Tracked, Waits
  <2>4. CASE b = c /\ n \notin S
    BY <2>1, <2>4, <1>2, <1>3, <1>4 DEF Tracked, Waits
  <2> QED BY <2>2, <2>3, <2>4
<1>10. ASSUME NEW b \in Clients
      PROVE  /\ DOMAIN pending'[b] \subseteq Numbers
             /\ \A n \in DOMAIN pending'[b] : pending'[b][n] \in 0..now'
  BY <1>0, <1>2, <1>3, <1>4 DEF Tracking
<1>11. Tracking'
  BY <1>9, <1>10 DEF Tracking
<1> QED BY <1>5, <1>6, <1>8, <1>11 DEF ClientInv

(* A response is looked up: the request it answers is handled, or it is ignored. *)
LEMMA EraseStep ==
    ASSUME ClientInv, NEW c \in Clients, NEW k \in Numbers, get_and_erase_pending_request(c, k)
    PROVE  ClientInv'
<1>0. ClientShape /\ Travelling /\ Tracking /\ Spinning
  BY DEF ClientInv
<1>1. /\ UNCHANGED <<next, sending, promise, callbacks, removed, requests, deferred, responses, spin, now>>
      /\ sending[c] = 0 /\ taken[c][k] > 0 /\ taken' = [taken EXCEPT ![c][k] = @ - 1]
      /\ \/ /\ k \in DOMAIN pending[c]
            /\ pending' = [pending EXCEPT ![c] = Without(pending[c], {k})]
            /\ handling' = [handling EXCEPT ![c] = handling[c] \cup {k}]
            /\ UNCHANGED ignored
         \/ /\ k \notin DOMAIN pending[c]
            /\ ignored' = [ignored EXCEPT ![c] = ignored[c] \cup {k}]
            /\ UNCHANGED <<pending, handling>>
  BY <1>0 DEF get_and_erase_pending_request, serviceVars, ClientShape
<1>2. /\ taken' \in [Clients -> [Numbers -> 0..MaxTaken]]
      /\ \A b \in Clients : \A n \in Numbers : taken'[b][n] > 0 => taken[b][n] > 0
  <2>1. taken[c][k] \in 0..MaxTaken /\ taken[c][k] - 1 \in 0..MaxTaken
    BY <1>0, <1>1, NumbersFacts DEF ClientShape
  <2>2. taken' \in [Clients -> [Numbers -> 0..MaxTaken]]
    BY <2>1, <1>0, <1>1 DEF ClientShape
  <2>3. \A b \in Clients : \A n \in Numbers :
           taken'[b][n] = IF b = c /\ n = k THEN taken[c][k] - 1 ELSE taken[b][n]
    BY <1>0, <1>1 DEF ClientShape
  <2> QED BY <2>2, <2>3, <1>1
<1>3. ClientShape'
  <2>1. /\ DOMAIN pending' = Clients
        /\ handling' \in [Clients -> SUBSET Numbers] /\ ignored' \in [Clients -> SUBSET Numbers]
    <3>1. handling[c] \cup {k} \in SUBSET Numbers /\ ignored[c] \cup {k} \in SUBSET Numbers
      BY <1>0 DEF ClientShape
    <3>2. DOMAIN pending' = Clients
      BY <1>0, <1>1 DEF ClientShape
    <3>3. handling' = handling \/ handling' = [handling EXCEPT ![c] = handling[c] \cup {k}]
      BY <1>1
    <3>4. ignored' = ignored \/ ignored' = [ignored EXCEPT ![c] = ignored[c] \cup {k}]
      BY <1>1
    <3>5. handling \in [Clients -> SUBSET Numbers] /\ ignored \in [Clients -> SUBSET Numbers]
      BY <1>0 DEF ClientShape
    <3>6. handling' \in [Clients -> SUBSET Numbers]
      BY <3>1, <3>3, <3>5
    <3>7. ignored' \in [Clients -> SUBSET Numbers]
      BY <3>1, <3>4, <3>5
    <3> QED BY <3>2, <3>6, <3>7
  <2> QED BY <2>1, <1>0, <1>1, <1>2 DEF ClientShape
<1>4. Travelling'
  BY <1>0, <1>1, <1>2, SameDrawn DEF Travelling
<1>5. Spinning'
  BY <1>0, <1>1, SpinningStays
<1>6. k \in Drawn(c)
  BY <1>0, <1>1 DEF Travelling
<1>7. CASE /\ k \in DOMAIN pending[c]
           /\ pending' = [pending EXCEPT ![c] = Without(pending[c], {k})]
           /\ handling' = [handling EXCEPT ![c] = handling[c] \cup {k}]
           /\ UNCHANGED ignored
  <2>1. /\ \A b \in Clients : b # c => pending'[b] = pending[b] /\ handling'[b] = handling[b]
        /\ pending'[c] = Without(pending[c], {k}) /\ handling'[c] = handling[c] \cup {k}
    BY <1>0, <1>7 DEF ClientShape
  <2>2. /\ DOMAIN pending'[c] = DOMAIN pending[c] \ {k}
        /\ \A n \in DOMAIN pending'[c] : pending'[c][n] = pending[c][n]
    BY <2>1 DEF Without
  <2>3. ASSUME NEW b \in Clients, NEW n \in Numbers PROVE Tracked(b, n)'
    <3>1. Tracked(b, n) /\ Drawn(b)' = Drawn(b)
      BY <1>0, <1>1, SameDrawn DEF Tracking
    <3>2. CASE b # c
      BY <3>1, <3>2, <2>1, <1>1, <1>7 DEF Tracked, Waits
    <3>3. CASE b = c /\ n # k
      BY <3>1, <3>3, <2>1, <2>2, <1>1, <1>7 DEF Tracked, Waits
    <3>4. CASE b = c /\ n = k
      BY <3>1, <3>4, <2>1, <2>2, <1>1, <1>7, NumbersFacts DEF Tracked, Waits
    <3> QED BY <3>2, <3>3, <3>4
  <2>4. ASSUME NEW b \in Clients
        PROVE  /\ DOMAIN pending'[b] \subseteq Numbers
               /\ \A n \in DOMAIN pending'[b] : pending'[b][n] \in 0..now'
    BY <2>1, <2>2, <1>0, <1>1 DEF Tracking
  <2>5. Tracking'
    BY <2>3, <2>4 DEF Tracking
  <2> QED BY <2>5, <1>3, <1>4, <1>5 DEF ClientInv
<1>8. CASE /\ k \notin DOMAIN pending[c]
           /\ ignored' = [ignored EXCEPT ![c] = ignored[c] \cup {k}]
           /\ UNCHANGED <<pending, handling>>
  <2>1. /\ \A b \in Clients : b # c => ignored'[b] = ignored[b]
        /\ ignored'[c] = ignored[c] \cup {k}
    BY <1>0, <1>8 DEF ClientShape
  <2>2. k \in handling[c] \/ promise[c][k] \in {"set", "broken"}
    <3>1. Tracked(c, k) /\ promise[c][k] \in States /\ k # sending[c]
      BY <1>0, <1>1, NumbersFacts DEF Tracking, ClientShape
    <3> QED BY <3>1, <1>6, <1>8 DEF Tracked, Waits, States
  <2>3. ASSUME NEW b \in Clients, NEW n \in Numbers PROVE Tracked(b, n)'
    <3>1. Tracked(b, n) /\ Drawn(b)' = Drawn(b)
      BY <1>0, <1>1, SameDrawn DEF Tracking
    <3> QED BY <3>1, <2>1, <2>2, <1>1, <1>8 DEF Tracked, Waits
  <2>4. Tracking'
    BY <2>3, <1>0, <1>1, <1>8 DEF Tracking
  <2> QED BY <2>4, <1>3, <1>4, <1>5 DEF ClientInv
<1> QED BY <1>1, <1>7, <1>8

(* The promise of a request that is being handled is set and its callback called. *)
LEMMA HandleStep ==
    ASSUME ClientInv, NEW c \in Clients, NEW k \in Numbers, handle_response(c, k)
    PROVE  ClientInv'
<1>0. ClientShape /\ Travelling /\ Tracking /\ Spinning
  BY DEF ClientInv
<1>1. /\ UNCHANGED <<next, sending, pending, removed, ignored, requests, deferred, responses, taken, spin,
                     now>>
      /\ k \in handling[c] /\ handling' = [handling EXCEPT ![c] = handling[c] \ {k}]
      /\ promise' = [promise EXCEPT ![c][k] = "set"]
      /\ callbacks' = [callbacks EXCEPT ![c][k] = @ + 1]
  BY <1>0 DEF handle_response, serviceVars, ClientShape
<1>2. ClientShape'
  BY <1>0, <1>1 DEF ClientShape, States
<1>3. /\ \A b \in Clients : b # c => handling'[b] = handling[b]
      /\ handling'[c] = handling[c] \ {k}
      /\ \A b \in Clients : \A n \in Numbers :
            /\ promise'[b][n] = IF b = c /\ n = k THEN "set" ELSE promise[b][n]
            /\ callbacks'[b][n] = IF b = c /\ n = k THEN callbacks[c][k] + 1 ELSE callbacks[b][n]
  BY <1>0, <1>1 DEF ClientShape
<1>4. Travelling'
  BY <1>0, <1>1, TravellingStays
<1>5. Spinning'
  BY <1>0, <1>1, <1>3, SpinningStays
<1>6. ASSUME NEW b \in Clients, NEW n \in Numbers PROVE Tracked(b, n)'
  <2>1. Tracked(b, n) /\ Drawn(b)' = Drawn(b)
    BY <1>0, <1>1, SameDrawn DEF Tracking
  <2>2. CASE ~(b = c /\ n = k)
    <3>1. n \in handling'[b] <=> n \in handling[b]
      BY <2>2, <1>3
    <3>2. promise'[b][n] = promise[b][n] /\ callbacks'[b][n] = callbacks[b][n]
      BY <2>2, <1>3
    <3> QED BY <2>1, <3>1, <3>2, <1>1 DEF Tracked, Waits
  <2>3. CASE b = c /\ n = k
    <3>1. promise[c][k] = "waiting" /\ k \notin DOMAIN pending[c] /\ k # sending[c]
      BY <2>1, <2>3, <1>1 DEF Tracked, Waits
    <3>2. promise'[c][k] = "set" /\ callbacks'[c][k] = 1 /\ k \notin handling'[c]
      BY <2>1, <2>3, <3>1, <1>3 DEF Tracked
    <3> QED BY <2>1, <2>3, <3>1, <3>2, <1>1 DEF Tracked, Waits
  <2> QED BY <2>2, <2>3
<1>7. Tracking'
  BY <1>6, <1>0, <1>1 DEF Tracking
<1> QED BY <1>2, <1>4, <1>5, <1>7 DEF ClientInv

-----------------------------------------------------------------------------
(* The steps of the service and of the middleware touch only what travels. *)

LEMMA MessageStep ==
    ASSUME ClientInv, UNCHANGED <<clientVars, handling, spin, now>>,
           taken' \in [Clients -> [Numbers -> 0..MaxTaken]], Travelling'
    PROVE  ClientInv'
<1>1. ClientShape /\ Tracking /\ Spinning /\ now <= now' /\ now' \in Nat
  BY DEF ClientInv, ClientShape
<1>2. ClientShape'
  BY <1>1 DEF ClientShape, clientVars
<1>3. Tracking'
  BY <1>1, TrackingStays DEF clientVars
<1>4. Spinning'
  BY <1>1, SpinningStays DEF clientVars
<1> QED BY <1>2, <1>3, <1>4 DEF ClientInv

LEMMA RequestStep ==
    ASSUME ClientInv, handle_request
    PROVE  ClientInv'
<1>0. ClientShape /\ Travelling
  BY DEF ClientInv
<1>1. PICK h : h = Head(requests)
  OBVIOUS
<1>2. h \in Sent /\ Tail(requests) \in Seq(Sent)
  BY <1>0, <1>1, SeqFacts DEF Travelling, handle_request
<1>3. h.client \in Clients /\ h.number \in Drawn(h.client)
  BY <1>2 DEF Sent, Headers
<1>4. /\ responses' = [responses EXCEPT ![h.client] = responses[h.client] \o dispatch(h)]
      /\ deferred' = deferred \cup {h} \/ deferred' = deferred
      /\ requests' = Tail(requests) /\ UNCHANGED <<clientVars, taken, handling, spin, now, next>>
  BY <1>0, <1>1, <1>3 DEF handle_request, Travelling, clientVars
<1>5. responses[h.client] \o dispatch(h) \in Seq(Drawn(h.client))
  BY <1>0, <1>3, SeqFacts DEF dispatch, Travelling
<1>6. DOMAIN responses' = Clients /\ \A c \in Clients : responses'[c] \in Seq(Drawn(c))
  BY <1>0, <1>3, <1>4, <1>5 DEF Travelling
<1>7. Travelling'
  BY <1>0, <1>2, <1>4, <1>6, SameDrawn DEF Travelling
<1> QED BY <1>0, <1>4, <1>7, MessageStep DEF ClientShape

LEMMA ResponseStep ==
    ASSUME ClientInv, NEW h, send_response(h)
    PROVE  ClientInv'
<1>0. ClientShape /\ Travelling
  BY DEF ClientInv
<1>1. h \in Sent
  BY <1>0 DEF Travelling, send_response
<1>2. h.client \in Clients /\ h.number \in Drawn(h.client)
  BY <1>1 DEF Sent, Headers
<1>3. /\ responses' = [responses EXCEPT ![h.client] = Append(responses[h.client], h.number)]
      /\ deferred' \subseteq deferred
      /\ UNCHANGED <<clientVars, requests, taken, handling, spin, now, next>>
  BY <1>0, <1>2 DEF send_response, Travelling, clientVars
<1>4. Append(responses[h.client], h.number) \in Seq(Drawn(h.client))
  BY <1>0, <1>2, SeqFacts DEF Travelling
<1>5. DOMAIN responses' = Clients /\ \A c \in Clients : responses'[c] \in Seq(Drawn(c))
  BY <1>0, <1>2, <1>3, <1>4 DEF Travelling
<1>6. Travelling'
  BY <1>0, <1>3, <1>5, SameDrawn DEF Travelling
<1> QED BY <1>0, <1>3, <1>6, MessageStep DEF ClientShape

LEMMA TakeStep ==
    ASSUME ClientInv, NEW c \in Clients, take_response(c)
    PROVE  ClientInv'
<1>0. ClientShape /\ Travelling
  BY DEF ClientInv
<1>1. PICK k : k = Head(responses[c])
  OBVIOUS
<1>2. k \in Drawn(c) /\ k \in Numbers /\ Tail(responses[c]) \in Seq(Drawn(c))
  BY <1>0, <1>1, SeqFacts DEF Travelling, take_response, Drawn
<1>3. /\ taken[c][k] < MaxTaken /\ taken' = [taken EXCEPT ![c][k] = @ + 1]
      /\ responses' = [responses EXCEPT ![c] = Tail(responses[c])]
      /\ UNCHANGED <<clientVars, requests, deferred, handling, spin, now, next>>
  BY <1>0, <1>1 DEF take_response, Travelling, clientVars, serviceVars
<1>4. taken[c][k] + 1 \in 0..MaxTaken
  BY <1>0, <1>2, <1>3, NumbersFacts DEF ClientShape
<1>5. /\ taken' \in [Clients -> [Numbers -> 0..MaxTaken]]
      /\ \A b \in Clients : \A n \in Numbers : b # c \/ n # k => taken'[b][n] = taken[b][n]
  BY <1>0, <1>3, <1>4 DEF ClientShape
<1>6. DOMAIN responses' = Clients /\ \A b \in Clients : responses'[b] \in Seq(Drawn(b))
  BY <1>0, <1>2, <1>3 DEF Travelling
<1>7. \A b \in Clients : \A n \in Numbers : taken'[b][n] > 0 => n \in Drawn(b)
  BY <1>0, <1>2, <1>5 DEF Travelling
<1>8. Travelling'
  BY <1>0, <1>3, <1>6, <1>7, SameDrawn DEF Travelling
<1> QED BY <1>3, <1>5, <1>8, MessageStep

LEMMA LoseStep ==
    ASSUME ClientInv, Lose
    PROVE  ClientInv'
<1>0. ClientShape /\ Travelling
  BY DEF ClientInv
<1>1. UNCHANGED <<clientVars, taken, handling, spin, now, next>>
  BY DEF Lose, clientVars
<1>2. requests' \in Seq(Sent) /\ deferred' \subseteq Sent
  <2>1. <<>> \in Seq(Sent) /\ requests \in Seq(Sent) /\ deferred \subseteq Sent
    BY <1>0, SeqFacts DEF Travelling
  <2>2. requests' = requests \/ requests' = <<>> \/ (requests # <<>> /\ requests' = Tail(requests))
    BY DEF Lose
  <2>3. deferred' = deferred \/ deferred' = {}
    BY DEF Lose
  <2> QED BY <2>1, <2>2, <2>3, SeqFacts
<1>3. DOMAIN responses' = Clients /\ \A b \in Clients : responses'[b] \in Seq(Drawn(b))
  <2>1. CASE UNCHANGED responses
    BY <2>1, <1>0 DEF Travelling
  <2>2. ASSUME NEW c \in Clients, responses[c] # <<>>,
               responses' = [responses EXCEPT ![c] = Tail(@)]
        PROVE  DOMAIN responses' = Clients /\ \A b \in Clients : responses'[b] \in Seq(Drawn(b))
    <3>1. Tail(responses[c]) \in Seq(Drawn(c))
      BY <2>2, <1>0, SeqFacts DEF Travelling
    <3> QED BY <2>2, <3>1, <1>0 DEF Travelling
  <2> QED BY <2>1, <2>2 DEF Lose
<1>4. Travelling'
  BY <1>0, <1>1, <1>2, <1>3, SameDrawn DEF Travelling
<1> QED BY <1>0, <1>1, <1>4, MessageStep DEF ClientShape

-----------------------------------------------------------------------------
(* The caller that spins. *)
LEMMA SpinStep ==
    ASSUME ClientInv, NEW c \in Clients, StartSpin(c) \/ EndSpin(c) \/ EndCall(c)
    PROVE  ClientInv'
<1>0. ClientShape /\ Travelling /\ Tracking /\ Spinning
  BY DEF ClientInv
<1>1. UNCHANGED <<next, sending, pending, requests, deferred, responses, taken, handling, promise,
                  callbacks, removed, ignored, now>>
  BY DEF StartSpin, EndSpin, EndCall, clientVars, serviceVars
<1>2. PICK s \in [number : 0..MaxRequests,
                  state : {"idle", "spinning", "SUCCESS", "TIMEOUT", "INTERRUPTED"}] :
        /\ spin' = [spin EXCEPT ![c] = s]
        /\ s.state # "idle" => s.number \in Numbers
        /\ s.state = "SUCCESS" => Ready(c, s.number)
  <2>1. CASE StartSpin(c)
    <3>1. PICK n : n = next[c] - 1
      OBVIOUS
    <3>2. n \in Numbers /\ n \in 0..MaxRequests
      BY <2>1, <3>1, <1>0, NumbersFacts DEF StartSpin, ClientShape
    <3>3. PICK s : s = [number |-> n, state |-> IF Ready(c, n) THEN "SUCCESS" ELSE "spinning"]
      OBVIOUS
    <3>4. spin' = [spin EXCEPT ![c] = s]
      BY <2>1, <3>1, <3>3 DEF StartSpin
    <3>5. /\ s \in [number : 0..MaxRequests,
                    state : {"idle", "spinning", "SUCCESS", "TIMEOUT", "INTERRUPTED"}]
          /\ s.number = n /\ (s.state = "SUCCESS" => Ready(c, n))
      BY <3>2, <3>3
    <3> QED BY <3>2, <3>4, <3>5
  <2>2. CASE EndSpin(c)
    <3>1. PICK r \in SpinResults(c) : spin' = [spin EXCEPT ![c].state = r]
      BY <2>2 DEF EndSpin
    <3>2. PICK s : s = [spin[c] EXCEPT !.state = r]
      OBVIOUS
    <3>3. r \in {"SUCCESS", "TIMEOUT", "INTERRUPTED"} /\ (r = "SUCCESS" => Ready(c, spin[c].number))
      BY <3>1 DEF SpinResults
    <3>4. spin[c] \in [number : 0..MaxRequests,
                       state : {"idle", "spinning", "SUCCESS", "TIMEOUT", "INTERRUPTED"}]
      BY <1>0 DEF ClientShape
    <3>5. spin[c].number \in Numbers
      BY <2>2, <1>0 DEF EndSpin, Spinning
    <3>6. /\ s \in [number : 0..MaxRequests,
                    state : {"idle", "spinning", "SUCCESS", "TIMEOUT", "INTERRUPTED"}]
          /\ s.number = spin[c].number /\ s.state = r
      BY <3>2, <3>3, <3>4
    <3>7. spin' = [spin EXCEPT ![c] = s]
      BY <3>1, <3>2
    <3> QED BY <3>3, <3>5, <3>6, <3>7
  <2>3. CASE EndCall(c)
    <3>1. PICK s : s = [number |-> 0, state |-> "idle"]
      OBVIOUS
    <3>2. spin' = [spin EXCEPT ![c] = s]
      BY <2>3, <3>1 DEF EndCall
    <3>3. 0 \in 0..MaxRequests
      BY NumbersFacts
    <3>4. s.state = "idle" /\ s \in [number : 0..MaxRequests,
                    state : {"idle", "spinning", "SUCCESS", "TIMEOUT", "INTERRUPTED"}]
      BY <3>1, <3>3
    <3> QED BY <3>2, <3>4
  <2> QED BY <2>1, <2>2, <2>3
<1>3. /\ spin'[c] = s /\ \A b \in Clients : b # c => spin'[b] = spin[b]
      /\ spin' \in [Clients -> [number : 0..MaxRequests,
                       state : {"idle", "spinning", "SUCCESS", "TIMEOUT", "INTERRUPTED"}]]
  BY <1>0, <1>2 DEF ClientShape
<1>4. ClientShape'
  BY <1>0, <1>1, <1>3 DEF ClientShape
<1>5. Travelling'
  BY <1>0, <1>1, TravellingStays
<1>6. Tracking'
  BY <1>0, <1>1, TrackingStays DEF ClientShape
<1>7. Spinning'
  <2> SUFFICES ASSUME NEW b \in Clients
               PROVE  /\ spin'[b].state # "idle" => spin'[b].number \in Numbers
                      /\ spin'[b].state = "SUCCESS" => Ready(b, spin'[b].number)
    BY <1>1 DEF Spinning, Ready
  <2> QED BY <1>0, <1>2, <1>3 DEF Spinning
<1> QED BY <1>4, <1>5, <1>6, <1>7 DEF ClientInv

(* Time passes, the context is shut down, or nothing happens. *)
LEMMA IdleStep ==
    ASSUME ClientInv, now' \in Nat, now <= now',
           UNCHANGED <<next, sending, pending, requests, deferred, responses, taken, handling, promise,
                       callbacks, removed, ignored, spin>>
    PROVE  ClientInv'
<1>0. ClientShape /\ Travelling /\ Tracking /\ Spinning
  BY DEF ClientInv
<1>1. ClientShape'
  BY <1>0 DEF ClientShape
<1>2. Travelling'
  BY <1>0, TravellingStays
<1>3. Tracking'
  BY <1>0, TrackingStays
<1>4. Spinning'
  BY <1>0, SpinningStays
<1> QED BY <1>1, <1>2, <1>3, <1>4 DEF ClientInv

LEMMA StepInv ==
    ClientInv /\ [ClientNext]_allVars => ClientInv'
<1> SUFFICES ASSUME ClientInv, [ClientNext]_allVars PROVE ClientInv'
  OBVIOUS
<1>0. now \in Nat
  BY DEF ClientInv, ClientShape
<1>1. CASE UNCHANGED allVars
  BY <1>0, <1>1, IdleStep DEF allVars
<1>2. CASE ClientTick \/ ClientShutdown
  BY <1>0, <1>2, IdleStep DEF ClientTick, ClientShutdown, clientVars, serviceVars
<1>3. CASE Lose
  BY <1>3, LoseStep
<1>4. CASE ServiceThread
  BY <1>4, RequestStep, ResponseStep DEF ServiceThread
<1>5. ASSUME NEW c \in Clients, async_send_request(c) PROVE ClientInv'
  BY <1>5, SendStep
<1>6. ASSUME NEW c \in Clients, ClientThread(c) PROVE ClientInv'
  BY <1>6, RecordStep, TakeStep, EraseStep, HandleStep DEF ClientThread
<1>7. ASSUME NEW c \in Clients, prune_pending_requests(c) PROVE ClientInv'
  BY <1>7, RemovesStep DEF prune_pending_requests
<1>8. ASSUME NEW c \in Clients, NEW n \in Numbers, remove_pending_request(c, n) PROVE ClientInv'
  BY <1>8, RemovesStep DEF remove_pending_request
<1>9. ASSUME NEW c \in Clients, NEW time \in 1..MaxTime, prune_requests_older_than(c, time)
      PROVE  ClientInv'
  <2>1. PICK S : S = {n \in DOMAIN pending[c] : pending[c][n] < time}
    OBVIOUS
  <2>2. S \subseteq DOMAIN pending[c] /\ sending[c] = 0 /\ Removes(c, S)
    BY <1>9, <2>1 DEF prune_requests_older_than
  <2> QED BY <2>2, RemovesStep
<1>10. ASSUME NEW c \in Clients, StartSpin(c) \/ EndSpin(c) \/ EndCall(c) PROVE ClientInv'
  BY <1>10, SpinStep
<1> QED BY <1>1, <1>2, <1>3, <1>4, <1>5, <1>6, <1>7, <1>8, <1>9, <1>10 DEF ClientNext

-----------------------------------------------------------------------------
LEMMA InvSafe ==
    ClientInv => ClientSafe /\ ClientTypeOK
<1> SUFFICES ASSUME ClientInv PROVE ClientSafe /\ ClientTypeOK
  OBVIOUS
<1>0. ClientShape /\ Tracking /\ Spinning
  BY DEF ClientInv
<1>1. CalledAtMostOnce
  BY <1>0 DEF CalledAtMostOnce, Tracking, Tracked
<1>2. NoAnswerOvertakes
  BY <1>0 DEF NoAnswerOvertakes, Tracking, Tracked, ClientShape
<1>3. RemovedNotCalled
  BY <1>0 DEF RemovedNotCalled, Tracking, Tracked, ClientShape
<1>4. SuccessIsComplete
  BY <1>0 DEF SuccessIsComplete, Spinning
<1>5. ASSUME NEW c \in Clients
      PROVE  {n \in Numbers : promise[c][n] = "waiting"} =
                DOMAIN pending[c] \cup handling[c] \cup ({sending[c]} \ {0})
  <2>1. \A n \in Numbers : promise[c][n] = "waiting" <=> Waits(c, n)
    BY <1>0 DEF Tracking, Tracked
  <2>2. /\ DOMAIN pending[c] \subseteq Numbers /\ handling[c] \subseteq Numbers
        /\ sending[c] # 0 => sending[c] \in Numbers
    BY <1>0, NumbersFacts DEF Tracking, ClientShape
  <2> QED BY <2>1, <2>2, NumbersFacts DEF Waits
<1>6. ClientTypeOK
  BY <1>0, <1>5 DEF ClientTypeOK, Tracking, ClientShape
<1> QED BY <1>1, <1>2, <1>3, <1>4, <1>6 DEF ClientSafe

(* A client's variables keep their types, and a promise waits exactly as long as its request
   is being sent, is pending or is being handled (client.hpp:549-826). *)
THEOREM ClientTypes == ClientSpec => []ClientTypeOK
<1>1. ClientSpec => []ClientInv
  BY InitInv, StepInv, PTL DEF ClientSpec
<1> QED BY <1>1, InvSafe, PTL

(* For any number of clients, requests and executor threads, with lost and repeated messages,
   restarts of the service, removal and pruning at any time: a callback is called at most once
   and never after a removal that succeeded, a response that finds no pending request belongs
   to one that was answered or removed, and SUCCESS means that the future is ready
   (client.hpp:549-826, executor.hpp:330-384). *)
THEOREM ClientIsSafe == ClientSpec => []ClientSafe
<1>1. ClientSpec => []ClientInv
  BY InitInv, StepInv, PTL DEF ClientSpec
<1> QED BY <1>1, InvSafe, PTL
==============================================================================
