------------------------------ MODULE Tracking ------------------------------
(***************************************************************************)
(* reference_system_tracking: TrackingWriter numbers the records of every  *)
(* producer (node) and Runtime's reporter thread periodically writes a     *)
(* delivery record whose through_ns promises that no older event of that   *)
(* producer is still to come. Executor threads (Workers) run node          *)
(* callbacks under the RAII guard of provenance_callback_guard.            *)
(***************************************************************************)
EXTENDS Naturals, Sequences

CONSTANTS
    Producers,      \* the nodes
    Workers,        \* the threads that run node callbacks
    Reporter,       \* Runtime::reporter_
    None,
    MaxTime,        \* bound: CLOCK_MONOTONIC values
    MaxCallbacks,   \* bound: callbacks per producer
    MaxRounds       \* bound: wake-ups of the reporter

ASSUME TrackingAssumption ==
    /\ MaxTime \in Nat
    /\ MaxCallbacks \in Nat
    /\ MaxRounds \in Nat
    /\ Reporter \notin Workers
    /\ None \notin Workers \cup {Reporter} \cup Producers

VARIABLES
    clock,          \* CLOCK_MONOTONIC
    mutex,          \* holder of TrackingWriter::mutex_, or None
    next_record,    \* ProducerState::next_record
    next_callback,  \* ProducerState::next_callback
    active,         \* ProducerState::active, as a set of [token, entry]
    out,            \* the records written to stdout, per producer
    pc,             \* where each worker and the reporter is
    producer,       \* the node whose callback a worker runs
    token,          \* the token in its Callback guard
    t_ns,           \* the timestamp of the event it is about to write
    seq,            \* the record_seq a thread has drawn under mutex_
    registered,     \* Runtime::producers_
    todo,           \* the rest of the reporter's copy of registered producers
    now,            \* the clock value the reporter read
    through,        \* through_ns the reporter has computed under mutex_
    stopping,       \* Runtime::stopping_
    rounds

writer == <<mutex, next_record, next_callback, active, out>>
worker == <<producer, token, t_ns>>
reporter == <<registered, todo, now, through, stopping, rounds>>
vars == <<clock, writer, pc, worker, seq, reporter>>

Threads == Workers \cup {Reporter}

Active == [token : Nat, entry : Nat]
Record == [event : {"delivery", "event"}, seq : Nat, t : Nat]

WorkerLabels == {"idle", "entered", "stamped", "writing", "written"}
ReporterLabels == {"none", "waiting", "round", "now_read", "writing", "exited"}

TypeOK ==
    /\ clock \in Nat
    /\ mutex \in Threads \cup {None}
    /\ next_record \in [Producers -> Nat]
    /\ next_callback \in [Producers -> Nat]
    /\ active \in [Producers -> SUBSET Active]
    /\ out \in [Producers -> Seq(Record)]
    /\ pc \in [Threads -> WorkerLabels \cup ReporterLabels]
    /\ producer \in [Workers -> Producers \cup {None}]
    /\ token \in [Workers -> Nat]
    /\ t_ns \in [Workers -> Nat]
    /\ seq \in [Threads -> Nat]
    /\ registered \in Seq(Producers)
    /\ todo \in Seq(Producers)
    /\ now \in Nat
    /\ through \in Nat
    /\ stopping \in BOOLEAN
    /\ rounds \in Nat
    /\ \A w \in Workers : pc[w] \in WorkerLabels
    /\ pc[Reporter] \in ReporterLabels
    /\ \A w \in Workers : pc[w] # "idle" => producer[w] \in Producers
    /\ pc[Reporter] \in {"now_read", "writing"} => todo # <<>>
    /\ \A t \in Threads : pc[t] = "writing" <=> mutex = t

Init ==
    /\ clock = 0
    /\ mutex = None
    /\ next_record = [p \in Producers |-> 0]
    /\ next_callback = [p \in Producers |-> 0]
    /\ active = [p \in Producers |-> {}]
    /\ out = [p \in Producers |-> <<>>]
    /\ pc = [t \in Threads |-> IF t = Reporter THEN "none" ELSE "idle"]
    /\ producer = [w \in Workers |-> None]
    /\ token = [w \in Workers |-> 0]
    /\ t_ns = [w \in Workers |-> 0]
    /\ seq = [t \in Threads |-> 0]
    /\ registered = <<>>
    /\ todo = <<>>
    /\ now = 0
    /\ through = 0
    /\ stopping = FALSE
    /\ rounds = 0

Goto(t, l) == pc' = [pc EXCEPT ![t] = l]

(* CLOCK_MONOTONIC never goes back; two reads may return the same value. *)
Tick ==
    /\ clock < MaxTime
    /\ clock' = clock + 1
    /\ UNCHANGED <<writer, pc, worker, seq, reporter>>

-----------------------------------------------------------------------------
(* TrackingWriter, each operation under mutex_. *)

(* Draws the next record_seq of p and keeps mutex_ until the record is out. *)
DrawRecord_PreIncrement(t, p) ==
    /\ mutex = None
    /\ mutex' = t
    /\ seq' = [seq EXCEPT ![t] = next_record[p] + 1]
    /\ next_record' = [next_record EXCEPT ![p] = @ + 1]

DrawRecord(t, p) ==
    /\ mutex = None
    /\ mutex' = t
    /\ seq' = [seq EXCEPT ![t] = next_record[p]]
    /\ next_record' = [next_record EXCEPT ![p] = @ + 1]

(* write_ under mutex_: one line on stdout, then mutex_ is unlocked. Locals that *)
(* go out of scope, as the number drawn does here, are set back to 0.            *)
WriteRecord_NotUnlocked(t, p, event, time) ==
    /\ out' = [out EXCEPT ![p] = Append(@, [event |-> event, seq |-> seq[t], t |-> time])]
    /\ seq' = [seq EXCEPT ![t] = 0]
    /\ UNCHANGED mutex

WriteRecord(t, p, event, time) ==
    /\ out' = [out EXCEPT ![p] = Append(@, [event |-> event, seq |-> seq[t], t |-> time])]
    /\ seq' = [seq EXCEPT ![t] = 0]
    /\ mutex' = None

(* begin_callback reads the clock inside the critical section. *)
EntryTime == clock

BeginCallback(w, p) ==
    /\ pc[w] = "idle"
    /\ mutex = None
    /\ next_callback[p] < MaxCallbacks
    /\ next_callback' = [next_callback EXCEPT ![p] = @ + 1]
    /\ token' = [token EXCEPT ![w] = next_callback[p] + 1]
    /\ producer' = [producer EXCEPT ![w] = p]
    /\ active' = [active EXCEPT ![p] = @ \cup {[token |-> next_callback[p] + 1,
                                                 entry |-> EntryTime]}]
    /\ Goto(w, "entered")
    /\ UNCHANGED <<clock, mutex, next_record, out, t_ns, seq, reporter>>

(* The callback reads provenance_now_ns() for the record it will emit. *)
Stamp(w) ==
    /\ pc[w] = "entered"
    /\ t_ns' = [t_ns EXCEPT ![w] = clock]
    /\ Goto(w, "stamped")
    /\ UNCHANGED <<clock, writer, producer, token, seq, reporter>>

(* write_event: the record_seq is drawn and the line written under one lock. *)
WriteEvent(w) ==
    /\ pc[w] = "stamped"
    /\ DrawRecord(w, producer[w])
    /\ Goto(w, "writing")
    /\ UNCHANGED <<clock, next_callback, active, out, worker, reporter>>

EventWritten(w) ==
    /\ pc[w] = "writing"
    /\ WriteRecord(w, producer[w], "event", t_ns[w])
    /\ Goto(w, "written")
    /\ UNCHANGED <<clock, next_record, next_callback, active, worker, reporter>>

(* ~Callback: end_callback erases the token. A callback that only caches its *)
(* input ends without having written anything.                               *)
EndCallback(w) ==
    /\ pc[w] \in {"entered", "written"}
    /\ mutex = None
    /\ active' = [active EXCEPT ![producer[w]] = {a \in @ : a.token # token[w]}]
    /\ producer' = [producer EXCEPT ![w] = None]
    /\ token' = [token EXCEPT ![w] = 0]
    /\ t_ns' = [t_ns EXCEPT ![w] = 0]
    /\ Goto(w, "idle")
    /\ UNCHANGED <<clock, mutex, next_record, next_callback, out, seq, reporter>>

-----------------------------------------------------------------------------
(* Runtime. *)

(* register_producer: remembers the node once and starts the reporter. *)
Register(p) ==
    /\ ~stopping
    /\ p \notin {registered[i] : i \in DOMAIN registered}
    /\ registered' = Append(registered, p)
    /\ Goto(Reporter, IF pc[Reporter] = "none" THEN "waiting" ELSE pc[Reporter])
    /\ UNCHANGED <<clock, writer, worker, seq, todo, now, through, stopping, rounds>>

(* ~Runtime sets stopping_, notifies and joins the reporter if there is one. *)
Stop ==
    /\ ~stopping
    /\ stopping' = TRUE
    /\ UNCHANGED <<clock, writer, pc, worker, seq, registered, todo, now, through, rounds>>

(* registered_producers(): a copy under Runtime::mutex_. *)
RegisteredProducers_SkipsFirst == IF registered = <<>> THEN <<>> ELSE Tail(registered)
RegisteredProducers == registered

(* wait_for times out: the producers known by then are reported. *)
StartRound ==
    /\ pc[Reporter] = "waiting"
    /\ ~stopping
    /\ rounds < MaxRounds
    /\ rounds' = rounds + 1
    /\ todo' = RegisteredProducers
    /\ Goto(Reporter, "round")
    /\ UNCHANGED <<clock, writer, worker, seq, registered, now, through, stopping>>

(* wait_for's predicate is true: report_loop returns. *)
ExitReporter_CheckedOnce ==
    /\ pc[Reporter] = "waiting"
    /\ stopping
    /\ rounds = 0
    /\ Goto(Reporter, "exited")
    /\ UNCHANGED <<clock, writer, worker, seq, reporter>>

ExitReporter ==
    /\ pc[Reporter] = "waiting"
    /\ stopping
    /\ Goto(Reporter, "exited")
    /\ UNCHANGED <<clock, writer, worker, seq, reporter>>

(* monotonic_now_ns() is read before report_delivery locks mutex_. *)
ReadNow ==
    /\ pc[Reporter] = "round"
    /\ todo # <<>>
    /\ now' = clock
    /\ Goto(Reporter, "now_read")
    /\ UNCHANGED <<clock, writer, worker, seq, registered, todo, through, stopping, rounds>>

(* through_ns is the least of now_ns and of one less than the entry of every *)
(* active callback (0 for an entry of 0).                                    *)
Bounds_ActiveIgnored(p) == {now}
Bounds(p) == {now} \cup {IF a.entry = 0 THEN 0 ELSE a.entry - 1 : a \in active[p]}

ReportDelivery ==
    /\ pc[Reporter] = "now_read"
    /\ DrawRecord(Reporter, Head(todo))
    /\ \E b \in Bounds(Head(todo)) :
          /\ \A c \in Bounds(Head(todo)) : b <= c
          /\ through' = b
    /\ Goto(Reporter, "writing")
    /\ UNCHANGED <<clock, next_callback, active, out, worker, registered, todo, now,
                   stopping, rounds>>

DeliveryWritten ==
    /\ pc[Reporter] = "writing"
    /\ WriteRecord(Reporter, Head(todo), "delivery", through)
    /\ todo' = Tail(todo)
    /\ now' = 0
    /\ through' = 0
    /\ Goto(Reporter, "round")
    /\ UNCHANGED <<clock, next_record, next_callback, active, worker, registered, stopping,
                   rounds>>

EndRound ==
    /\ pc[Reporter] = "round"
    /\ todo = <<>>
    /\ Goto(Reporter, "waiting")
    /\ UNCHANGED <<clock, writer, worker, seq, reporter>>

ReportLoop == StartRound \/ ExitReporter \/ ReadNow \/ ReportDelivery \/ DeliveryWritten \/ EndRound

RunCallback(w) == Stamp(w) \/ WriteEvent(w) \/ EventWritten(w) \/ EndCallback(w)

Next ==
    \/ Tick
    \/ Stop
    \/ \E p \in Producers : Register(p)
    \/ \E w \in Workers : RunCallback(w) \/ \E p \in Producers : BeginCallback(w, p)
    \/ ReportLoop

Spec == Init /\ [][Next]_vars

(* The reporter and the threads inside a callback keep running; mutex_ is *)
(* granted to whoever keeps asking.                                       *)
Fairness ==
    /\ SF_vars(ReportLoop)
    /\ \A w \in Workers : SF_vars(RunCallback(w))

FairSpec == Spec /\ Fairness

-----------------------------------------------------------------------------
(* What through_ns is for: once a delivery record is in the log of a producer, *)
(* no event with an earlier timestamp follows it, although the reporter reads  *)
(* the clock before it locks mutex_ and callbacks stamp and write their events *)
(* without holding it in between.                                              *)
Watermark ==
    \A p \in Producers : \A i, j \in DOMAIN out[p] :
        /\ i < j
        /\ out[p][i].event = "delivery"
        /\ out[p][j].event = "event"
        => out[p][i].t <= out[p][j].t

(* The log of a producer carries record_seq 0, 1, 2, ... in this order: a reader *)
(* that sees a gap has lost a record.                                            *)
RecordSeqGapFree ==
    \A p \in Producers : \A i \in DOMAIN out[p] : out[p][i].seq = i - 1

(* through_ns never falls back by more than the one nanosecond that a callback *)
(* entered at the very time of the last report takes off.                      *)
WatermarkAdvances ==
    \A p \in Producers : \A i, j \in DOMAIN out[p] :
        /\ i < j
        /\ out[p][i].event = "delivery"
        /\ out[p][j].event = "delivery"
        => out[p][i].t <= out[p][j].t + 1

(* The log of a producer can be read as it comes: its numbers follow one another *)
(* and the times up to which it is complete do not fall back (tracking.hpp).     *)
LogInOrder == RecordSeqGapFree /\ WatermarkAdvances

(* Every producer that is registered before a round of the reporter starts gets *)
(* a delivery record, idle or not, unless the process stops.                    *)
EveryProducerReported ==
    \A p \in Producers :
        (p \in {registered[i] : i \in DOMAIN registered} /\ rounds < MaxRounds) ~>
            (stopping \/ \E i \in DOMAIN out[p] : out[p][i].event = "delivery")

(* The join in ~Runtime returns: a reporter that was started exits after stop, *)
(* which is for ever.                                                         *)
StopJoins == []<>(stopping => pc[Reporter] \in {"none", "exited"})
=============================================================================
