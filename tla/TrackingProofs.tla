--------------------------- MODULE TrackingProofs ---------------------------
(***************************************************************************)
(* Proofs that the state of Tracking is well typed and that no event is    *)
(* written behind the watermark, for any producers, workers and bounds.    *)
(***************************************************************************)
EXTENDS Tracking, TLAPS

(* What Append does to a log. *)
LEMMA AppendFacts ==
    ASSUME NEW S, NEW s \in Seq(S), NEW e \in S
    PROVE  /\ Append(s, e) \in Seq(S)
           /\ DOMAIN Append(s, e) = DOMAIN s \cup {Len(s) + 1}
           /\ \A i \in DOMAIN s : Append(s, e)[i] = s[i] /\ i < Len(s) + 1
           /\ Append(s, e)[Len(s) + 1] = e
           /\ Len(s) \in Nat
           /\ DOMAIN s \subseteq Nat
    OBVIOUS

(* A round in progress has a first producer. *)
LEMMA HeadFacts ==
    ASSUME NEW S, NEW s \in Seq(S), s # <<>>
    PROVE  Head(s) \in S /\ Tail(s) \in Seq(S)
    OBVIOUS

-----------------------------------------------------------------------------
(* Every step keeps the state well typed and mutex_ with the one thread that *)
(* is writing.                                                               *)
LEMMA TypeStep == TypeOK /\ [Next]_vars => TypeOK'
<1> USE TrackingAssumption
<1> SUFFICES ASSUME TypeOK, [Next]_vars PROVE TypeOK'
    OBVIOUS
<1>1. CASE Tick
  BY <1>1 DEF TypeOK, Tick, writer, worker, reporter
<1>2. CASE Stop
  BY <1>2 DEF TypeOK, Stop, writer, worker, reporter
<1>3. ASSUME NEW p \in Producers, Register(p) PROVE TypeOK'
  <2>1. registered' \in Seq(Producers)
    BY <1>3, AppendFacts DEF TypeOK, Register
  <2> QED
    BY <1>3, <2>1 DEF TypeOK, Register, Goto, writer, worker, Threads, ReporterLabels, WorkerLabels
<1>4. ASSUME NEW w \in Workers, Stamp(w) PROVE TypeOK'
  BY <1>4 DEF TypeOK, Stamp, Goto, writer, reporter, Threads, WorkerLabels, ReporterLabels
<1>5. ASSUME NEW w \in Workers, WriteEvent(w) PROVE TypeOK'
  BY <1>5 DEF TypeOK, WriteEvent, DrawRecord, Goto, worker, reporter, Threads, WorkerLabels,
     ReporterLabels
<1>6. ASSUME NEW w \in Workers, EventWritten(w) PROVE TypeOK'
  <2>1. out' \in [Producers -> Seq(Record)]
    BY <1>6, AppendFacts DEF TypeOK, EventWritten, WriteRecord, Record, Threads
  <2> QED
    BY <1>6, <2>1 DEF TypeOK, EventWritten, WriteRecord, Goto, worker, reporter, Threads,
       WorkerLabels, ReporterLabels
<1>7. ASSUME NEW w \in Workers, EndCallback(w) PROVE TypeOK'
  BY <1>7 DEF TypeOK, EndCallback, Goto, reporter, Threads, WorkerLabels, ReporterLabels
<1>8. ASSUME NEW w \in Workers, NEW p \in Producers, BeginCallback(w, p) PROVE TypeOK'
  <2>1. [token |-> next_callback[p] + 1, entry |-> clock] \in Active
    BY DEF TypeOK, Active
  <2>2. active' \in [Producers -> SUBSET Active]
    BY <1>8, <2>1 DEF TypeOK, BeginCallback, EntryTime
  <2>3. /\ pc' \in [Threads -> WorkerLabels \cup ReporterLabels]
        /\ pc' = [pc EXCEPT ![w] = "entered"]
        /\ producer' = [producer EXCEPT ![w] = p]
    BY <1>8 DEF TypeOK, BeginCallback, Goto, Threads, WorkerLabels
  <2>4. next_callback' \in [Producers -> Nat] /\ token' \in [Workers -> Nat]
    <3>1. /\ next_callback' = [next_callback EXCEPT ![p] = @ + 1]
          /\ token' = [token EXCEPT ![w] = next_callback[p] + 1]
      BY <1>8 DEF BeginCallback
    <3>2. next_callback \in [Producers -> Nat] /\ token \in [Workers -> Nat]
      BY DEF TypeOK
    <3>3. next_callback[p] + 1 \in Nat
      BY <3>2
    <3> QED
      BY <3>1, <3>2, <3>3
  <2>5. \A v \in Workers : pc'[v] \in WorkerLabels /\ (pc'[v] # "idle" => producer'[v] \in Producers)
    BY <2>3 DEF TypeOK, Threads, WorkerLabels
  <2>6. \A t \in Threads : pc'[t] = "writing" <=> mutex' = t
    BY <1>8, <2>3 DEF TypeOK, BeginCallback, Threads
  <2>7. UNCHANGED <<clock, mutex, next_record, out, t_ns, seq, registered, todo, now, through,
                    stopping, rounds>> /\ pc'[Reporter] = pc[Reporter]
    BY <1>8, <2>3 DEF TypeOK, BeginCallback, reporter, Threads
  <2> QED
    BY <2>2, <2>3, <2>4, <2>5, <2>6, <2>7 DEF TypeOK
<1>9. CASE StartRound
  BY <1>9 DEF TypeOK, StartRound, RegisteredProducers, Goto, writer, worker, Threads,
     WorkerLabels, ReporterLabels
<1>10. CASE ExitReporter
  BY <1>10 DEF TypeOK, ExitReporter, Goto, writer, worker, reporter, Threads, WorkerLabels,
     ReporterLabels
<1>11. CASE ReadNow
  BY <1>11 DEF TypeOK, ReadNow, Goto, writer, worker, Threads, WorkerLabels, ReporterLabels
<1>12. CASE ReportDelivery
  <2>1. Head(todo) \in Producers
    BY <1>12, HeadFacts DEF TypeOK, ReportDelivery
  <2>2. through' \in Nat
    BY <1>12, <2>1 DEF TypeOK, ReportDelivery, Bounds, Active
  <2>3. /\ mutex = None /\ mutex' = Reporter
        /\ seq' = [seq EXCEPT ![Reporter] = next_record[Head(todo)]]
        /\ next_record' = [next_record EXCEPT ![Head(todo)] = @ + 1]
        /\ pc' = [pc EXCEPT ![Reporter] = "writing"]
    BY <1>12 DEF ReportDelivery, DrawRecord, Goto
  <2>4. UNCHANGED <<clock, next_callback, active, out, producer, token, t_ns, registered, todo, now,
                    stopping, rounds>>
    BY <1>12 DEF ReportDelivery, worker
  <2>5. next_record' \in [Producers -> Nat] /\ seq' \in [Threads -> Nat]
    BY <2>1, <2>3 DEF TypeOK, Threads
  <2>6. /\ pc' \in [Threads -> WorkerLabels \cup ReporterLabels]
        /\ pc'[Reporter] = "writing"
        /\ \A w \in Workers : pc'[w] = pc[w]
    BY <2>3 DEF TypeOK, Threads, ReporterLabels
  <2>7. todo' # <<>>
    BY <1>12, <2>4 DEF TypeOK, ReportDelivery
  <2>8. \A t \in Threads : pc'[t] = "writing" <=> mutex' = t
    BY <2>3, <2>6 DEF TypeOK, Threads
  <2> QED
    BY <2>2, <2>3, <2>4, <2>5, <2>6, <2>7, <2>8 DEF TypeOK, Threads, ReporterLabels
<1>13. CASE DeliveryWritten
  <2>1. Head(todo) \in Producers /\ Tail(todo) \in Seq(Producers)
    BY <1>13, HeadFacts DEF TypeOK, DeliveryWritten
  <2>2. out' \in [Producers -> Seq(Record)]
    BY <1>13, <2>1, AppendFacts DEF TypeOK, DeliveryWritten, WriteRecord, Record, Threads
  <2> QED
    BY <1>13, <2>1, <2>2 DEF TypeOK, DeliveryWritten, WriteRecord, Goto, worker, Threads,
       WorkerLabels, ReporterLabels
<1>14. CASE EndRound
  BY <1>14 DEF TypeOK, EndRound, Goto, writer, worker, reporter, Threads, WorkerLabels,
     ReporterLabels
<1>15. CASE UNCHANGED vars
  BY <1>15 DEF TypeOK, vars, writer, worker, reporter
<1> QED
  BY <1>1, <1>2, <1>3, <1>4, <1>5, <1>6, <1>7, <1>8, <1>9, <1>10, <1>11, <1>12, <1>13, <1>14,
     <1>15 DEF Next, RunCallback, ReportLoop

(* The state of the writer and the runtime is well typed, and mutex_ is held *)
(* by exactly the thread between drawing a record_seq and its line.          *)
THEOREM TypeCorrect == Spec => []TypeOK
<1>1. Init => TypeOK
  <2> SUFFICES ASSUME Init PROVE TypeOK
    OBVIOUS
  <2> USE TrackingAssumption DEF Init, Threads, WorkerLabels, ReporterLabels
  <2>1. out \in [Producers -> Seq(Record)] /\ registered \in Seq(Producers)
        /\ todo \in Seq(Producers)
    OBVIOUS
  <2>2. /\ pc \in [Threads -> WorkerLabels \cup ReporterLabels]
        /\ \A w \in Workers : pc[w] = "idle"
        /\ pc[Reporter] = "none"
        /\ \A t \in Threads : mutex # t
    OBVIOUS
  <2>3. \A t \in Threads : pc[t] # "writing"
    BY <2>2
  <2>4. active \in [Producers -> SUBSET Active]
    OBVIOUS
  <2> QED
    BY <2>1, <2>2, <2>3, <2>4 DEF TypeOK
<1> QED
  BY <1>1, TypeStep, PTL DEF Spec

-----------------------------------------------------------------------------
(* The inductive invariant behind the watermark. A thread inside a callback has *)
(* a token of its own among the active ones, entered before the event it has    *)
(* stamped; no callback is entered in the future.                               *)
CallbackInv ==
    /\ \A w \in Workers : pc[w] # "idle" =>
          /\ token[w] <= next_callback[producer[w]]
          /\ \E a \in active[producer[w]] :
                /\ a.token = token[w]
                /\ pc[w] \in {"stamped", "writing"} => a.entry <= t_ns[w]
    /\ \A w, v \in Workers :
          w # v /\ pc[w] # "idle" /\ pc[v] # "idle" /\ producer[w] = producer[v]
          => token[w] # token[v]
    /\ \A p \in Producers : \A a \in active[p] : a.entry <= clock

(* What has been reported, or is about to be, is not after the entry of any *)
(* active callback, nor in the future.                                      *)
ReportInv ==
    /\ now <= clock
    /\ pc[Reporter] = "writing" =>
          through <= clock /\ \A a \in active[Head(todo)] : through <= a.entry
    /\ \A p \in Producers : \A i \in DOMAIN out[p] : out[p][i].event = "delivery" =>
          out[p][i].t <= clock /\ \A a \in active[p] : out[p][i].t <= a.entry

(* Each callback keeps its own token, and with it its entry, until it ends. *)
LEMMA CallbackStep == TypeOK /\ TypeOK' /\ CallbackInv /\ [Next]_vars => CallbackInv'
<1> USE TrackingAssumption
<1> SUFFICES ASSUME TypeOK, TypeOK', CallbackInv, [Next]_vars PROVE CallbackInv'
    OBVIOUS
<1>1. CASE Tick
  BY <1>1 DEF TypeOK, CallbackInv, Tick, writer, worker, Active
<1>2. ASSUME NEW w \in Workers, Stamp(w) PROVE CallbackInv'
  <2>1. \A v \in Workers \ {w} : pc'[v] = pc[v] /\ t_ns'[v] = t_ns[v]
    BY <1>2 DEF TypeOK, Stamp, Goto, Threads
  <2>2. pc[w] = "entered" /\ pc'[w] = "stamped" /\ t_ns'[w] = clock
    BY <1>2 DEF TypeOK, Stamp, Goto, Threads
  <2>3. UNCHANGED <<clock, active, next_callback, producer, token>>
    BY <1>2 DEF Stamp, writer
  <2>4. ASSUME NEW v \in Workers, pc'[v] # "idle"
        PROVE  /\ token'[v] <= next_callback'[producer'[v]]
               /\ \E a \in active'[producer'[v]] :
                     /\ a.token = token'[v]
                     /\ pc'[v] \in {"stamped", "writing"} => a.entry <= t_ns'[v]
    <3>1. pc[v] # "idle" /\ producer[v] \in Producers
      BY <2>1, <2>2, <2>4 DEF TypeOK
    <3>2. CASE v = w
      BY <2>2, <2>3, <3>1, <3>2 DEF CallbackInv
    <3>3. CASE v # w
      BY <2>1, <2>3, <2>4, <3>1, <3>3 DEF CallbackInv
    <3> QED
      BY <3>2, <3>3
  <2>5. \A u, v \in Workers : pc'[u] # "idle" /\ pc'[v] # "idle" => pc[u] # "idle" /\ pc[v] # "idle"
    BY <2>1, <2>2
  <2> QED
    BY <2>3, <2>4, <2>5 DEF CallbackInv
<1>3. ASSUME NEW w \in Workers, WriteEvent(w) PROVE CallbackInv'
  <2>1. \A v \in Workers : pc'[v] = pc[v] \/ (pc[v] = "stamped" /\ pc'[v] = "writing")
    BY <1>3 DEF TypeOK, WriteEvent, Goto, Threads
  <2> QED
    BY <1>3, <2>1 DEF CallbackInv, WriteEvent, worker
<1>4. ASSUME NEW w \in Workers, EventWritten(w) PROVE CallbackInv'
  <2>1. \A v \in Workers : pc'[v] = pc[v] \/ (pc[v] = "writing" /\ pc'[v] = "written")
    BY <1>4 DEF TypeOK, EventWritten, Goto, Threads
  <2> QED
    BY <1>4, <2>1 DEF CallbackInv, EventWritten, worker
<1>5. ASSUME NEW w \in Workers, EndCallback(w) PROVE CallbackInv'
  <2>1. /\ pc[w] # "idle" /\ pc'[w] = "idle"
        /\ \A v \in Workers \ {w} : /\ pc'[v] = pc[v] /\ producer'[v] = producer[v]
                                    /\ token'[v] = token[v] /\ t_ns'[v] = t_ns[v]
        /\ UNCHANGED <<clock, next_callback>>
    BY <1>5 DEF TypeOK, EndCallback, Goto, Threads
  <2>2. \A p \in Producers : active'[p] =
           IF p = producer[w] THEN {a \in active[p] : a.token # token[w]} ELSE active[p]
    BY <1>5 DEF TypeOK, EndCallback
  <2>3. ASSUME NEW v \in Workers, pc'[v] # "idle"
        PROVE  /\ v # w /\ pc[v] # "idle" /\ pc'[v] = pc[v] /\ producer'[v] = producer[v]
               /\ producer[v] \in Producers
               /\ producer[v] = producer[w] => token[v] # token[w]
    <3>1. v # w /\ pc[v] # "idle" /\ pc'[v] = pc[v] /\ producer'[v] = producer[v]
      BY <2>1, <2>3
    <3> QED
      BY <2>1, <3>1 DEF CallbackInv, TypeOK
  <2>4. ASSUME NEW v \in Workers, pc'[v] # "idle"
        PROVE  /\ token'[v] <= next_callback'[producer'[v]]
               /\ \E a \in active'[producer'[v]] :
                     /\ a.token = token'[v]
                     /\ pc'[v] \in {"stamped", "writing"} => a.entry <= t_ns'[v]
    <3>1. PICK a \in active[producer[v]] :
             a.token = token[v] /\ (pc[v] \in {"stamped", "writing"} => a.entry <= t_ns[v])
      BY <2>3, <2>4 DEF CallbackInv
    <3>2. a \in active'[producer[v]]
      BY <2>2, <2>3, <2>4, <3>1
    <3> QED
      BY <2>1, <2>3, <2>4, <3>1, <3>2 DEF CallbackInv
  <2>5. \A v, u \in Workers :
           v # u /\ pc'[v] # "idle" /\ pc'[u] # "idle" /\ producer'[v] = producer'[u]
           => token'[v] # token'[u]
    BY <2>1, <2>3 DEF CallbackInv
  <2>6. \A p \in Producers : \A a \in active'[p] : a.entry <= clock'
    BY <2>1, <2>2 DEF CallbackInv
  <2> QED
    BY <2>4, <2>5, <2>6 DEF CallbackInv
<1>6. ASSUME NEW w \in Workers, NEW p \in Producers, BeginCallback(w, p) PROVE CallbackInv'
  <2> DEFINE new == [token |-> next_callback[p] + 1, entry |-> clock]
  <2>1. /\ pc[w] = "idle" /\ pc'[w] = "entered" /\ producer'[w] = p /\ token'[w] = new.token
        /\ \A v \in Workers \ {w} :
              pc'[v] = pc[v] /\ producer'[v] = producer[v] /\ token'[v] = token[v]
        /\ UNCHANGED <<clock, t_ns>>
    BY <1>6 DEF TypeOK, BeginCallback, Goto, Threads
  <2>2. \A q \in Producers :
           /\ active'[q] = IF q = p THEN active[q] \cup {new} ELSE active[q]
           /\ next_callback'[q] = IF q = p THEN next_callback[q] + 1 ELSE next_callback[q]
    BY <1>6 DEF TypeOK, BeginCallback, EntryTime
  <2>3. /\ new \in active'[p] /\ new.token = next_callback[p] + 1 /\ new.entry = clock
        /\ next_callback[p] \in Nat /\ clock \in Nat
    BY <2>2 DEF TypeOK
  <2> HIDE DEF new
  <2>4. \A v \in Workers \ {w} : pc[v] # "idle" =>
           producer[v] \in Producers /\ token[v] <= next_callback[producer[v]]
           /\ token[v] \in Nat /\ next_callback[producer[v]] \in Nat
    BY DEF CallbackInv, TypeOK
  <2>4a. /\ next_callback'[p] = next_callback[p] + 1
         /\ \A q \in Producers : next_callback'[q] \in {next_callback[q], next_callback[q] + 1}
         /\ \A q \in Producers : \A a \in active'[q] : a \in active[q] \/ a = new
    BY <2>2
  <2>5. \A v \in Workers : pc'[v] # "idle" =>
           /\ token'[v] <= next_callback'[producer'[v]]
           /\ \E a \in active'[producer'[v]] :
                 /\ a.token = token'[v]
                 /\ pc'[v] \in {"stamped", "writing"} => a.entry <= t_ns'[v]
    <3> SUFFICES ASSUME NEW v \in Workers, pc'[v] # "idle"
                 PROVE  /\ token'[v] <= next_callback'[producer'[v]]
                        /\ \E a \in active'[producer'[v]] :
                              /\ a.token = token'[v]
                              /\ pc'[v] \in {"stamped", "writing"} => a.entry <= t_ns'[v]
      OBVIOUS
    <3>1. CASE v = w
      <4>1. token'[w] <= next_callback'[p]
        BY <2>1, <2>3, <2>4a
      <4>2. pc'[w] \notin {"stamped", "writing"}
        BY <2>1
      <4> QED
        BY <2>1, <2>3, <3>1, <4>1, <4>2
    <3>2. CASE v # w
      <4>0. pc'[v] = pc[v] /\ producer'[v] = producer[v] /\ token'[v] = token[v]
        BY <2>1, <3>2
      <4>1. token'[v] <= next_callback'[producer'[v]]
        <5>1. /\ producer[v] \in Producers /\ token[v] \in Nat
              /\ next_callback[producer[v]] \in Nat /\ token[v] <= next_callback[producer[v]]
          BY <2>4, <3>2, <4>0
        <5>2. next_callback'[producer[v]] \in {next_callback[producer[v]],
                                               next_callback[producer[v]] + 1}
          BY <2>4a, <5>1
        <5> QED
          BY <4>0, <5>1, <5>2
      <4>2. PICK a \in active[producer[v]] :
               a.token = token[v] /\ (pc[v] \in {"stamped", "writing"} => a.entry <= t_ns[v])
        BY <3>2, <4>0 DEF CallbackInv
      <4>3. a \in active'[producer'[v]]
        BY <2>2, <2>4, <3>2, <4>0, <4>2
      <4> QED
        BY <2>1, <3>2, <4>1, <4>2, <4>3
    <3> QED
      BY <3>1, <3>2
  <2>6. \A v, u \in Workers :
           v # u /\ pc'[v] # "idle" /\ pc'[u] # "idle" /\ producer'[v] = producer'[u]
           => token'[v] # token'[u]
    <3> SUFFICES ASSUME NEW v \in Workers, NEW u \in Workers, v # u, pc'[v] # "idle",
                        pc'[u] # "idle", producer'[v] = producer'[u]
                 PROVE  token'[v] # token'[u]
      OBVIOUS
    <3>1. CASE v = w
      BY <2>1, <2>3, <2>4, <3>1
    <3>2. CASE u = w
      BY <2>1, <2>3, <2>4, <3>2
    <3>3. CASE v # w /\ u # w
      BY <2>1, <3>3 DEF CallbackInv
    <3> QED
      BY <3>1, <3>2, <3>3
  <2>7. ASSUME NEW q \in Producers, NEW a \in active'[q] PROVE a.entry <= clock'
    <3>1. CASE a \in active[q]
      BY <2>1, <3>1 DEF CallbackInv
    <3>2. CASE a = new
      BY <2>1, <2>3, <3>2
    <3> QED
      BY <2>7, <2>4a, <3>1, <3>2
  <2> QED
    BY <2>5, <2>6, <2>7 DEF CallbackInv
<1>7. CASE Stop \/ (\E p \in Producers : Register(p)) \/ ReportLoop \/ UNCHANGED vars
  <2>1. UNCHANGED <<clock, next_callback, active, producer, token, t_ns>>
    BY <1>7 DEF Stop, Register, ReportLoop, StartRound, ExitReporter, ReadNow, ReportDelivery,
       DeliveryWritten, EndRound, vars, writer, worker
  <2>2. \A w \in Workers : pc'[w] = pc[w]
    BY <1>7 DEF TypeOK, Stop, Register, ReportLoop, StartRound, ExitReporter, ReadNow,
       ReportDelivery, DeliveryWritten, EndRound, vars, Goto, Threads
  <2> QED
    BY <2>1, <2>2 DEF CallbackInv
<1> QED
  BY <1>1, <1>2, <1>3, <1>4, <1>5, <1>6, <1>7 DEF Next, RunCallback

(* The reporter computes through_ns while no callback can enter or leave, and *)
(* a callback that enters later has a later entry.                            *)
LEMMA ReportStep == TypeOK /\ TypeOK' /\ ReportInv /\ [Next]_vars => ReportInv'
<1> USE TrackingAssumption
<1> SUFFICES ASSUME TypeOK, TypeOK', ReportInv, [Next]_vars PROVE ReportInv'
    OBVIOUS
<1>0. /\ clock \in Nat /\ now \in Nat /\ through \in Nat
      /\ \A p \in Producers : \A a \in active[p] : a.entry \in Nat
      /\ \A p \in Producers : out[p] \in Seq(Record)
      /\ \A p \in Producers : \A i \in DOMAIN out[p] : out[p][i].t \in Nat
  <2>1. \A p \in Producers : active[p] \subseteq Active
    BY DEF TypeOK
  <2>2. \A p \in Producers : out[p] \in Seq(Record)
    BY DEF TypeOK
  <2>3. \A p \in Producers : \A i \in DOMAIN out[p] : out[p][i] \in Record
    BY <2>2
  <2>4. \A a \in Active : a.entry \in Nat
    BY DEF Active
  <2>5. \A r \in Record : r.t \in Nat
    BY DEF Record
  <2>6. clock \in Nat /\ now \in Nat /\ through \in Nat
    BY DEF TypeOK
  <2> QED
    BY <2>1, <2>2, <2>3, <2>4, <2>5, <2>6, Zenon
<1>1. CASE Tick
  <2>1. clock' = clock + 1
    BY <1>1 DEF Tick
  <2>2. UNCHANGED <<now, pc, through, active, todo, out>>
    BY <1>1 DEF Tick, writer, reporter
  <2> QED
    BY <1>0, <2>1, <2>2 DEF ReportInv
<1>2. CASE \/ Stop \/ (\E p \in Producers : Register(p)) \/ UNCHANGED vars
           \/ StartRound \/ ExitReporter \/ EndRound
           \/ (\E w \in Workers : Stamp(w) \/ WriteEvent(w))
  <2>1. UNCHANGED <<clock, now, through, active, out>>
    BY <1>2 DEF Stop, Register, StartRound, ExitReporter, EndRound, Stamp, WriteEvent, DrawRecord,
       vars, writer, reporter
  <2>2. pc'[Reporter] = "writing" => pc[Reporter] = "writing" /\ todo' = todo
    <3>1. CASE StartRound \/ ExitReporter \/ EndRound
      BY <3>1 DEF TypeOK, StartRound, ExitReporter, EndRound, Goto, Threads
    <3>2. CASE Stop \/ UNCHANGED vars
      BY <3>2 DEF Stop, vars, reporter
    <3>3. ASSUME NEW p \in Producers, Register(p)
          PROVE  pc'[Reporter] = "writing" => pc[Reporter] = "writing" /\ todo' = todo
      BY <3>3 DEF TypeOK, Register, Goto, Threads
    <3>4. ASSUME NEW w \in Workers, Stamp(w) \/ WriteEvent(w)
          PROVE  pc'[Reporter] = "writing" => pc[Reporter] = "writing" /\ todo' = todo
      BY <3>4 DEF TypeOK, Stamp, WriteEvent, reporter, Goto, Threads
    <3> QED
      BY <1>2, <3>1, <3>2, <3>3, <3>4
  <2> QED
    BY <2>1, <2>2 DEF ReportInv
<1>3. ASSUME NEW w \in Workers, EventWritten(w) PROVE ReportInv'
  <2>1. UNCHANGED <<clock, now, through, active, todo>> /\ pc'[Reporter] = pc[Reporter]
    BY <1>3 DEF TypeOK, EventWritten, Goto, Threads, reporter
  <2>2. ASSUME NEW p \in Producers, NEW i \in DOMAIN out'[p], out'[p][i].event = "delivery"
        PROVE  i \in DOMAIN out[p] /\ out'[p][i] = out[p][i]
    <3>1. CASE p = producer[w]
      <4> DEFINE e == [event |-> "event", seq |-> seq[w], t |-> t_ns[w]]
      <4>1. out'[p] = Append(out[p], e) /\ e \in Record /\ e.event # "delivery"
        BY <1>3, <3>1 DEF TypeOK, EventWritten, WriteRecord, Record, Threads
      <4> HIDE DEF e
      <4> QED
        BY <1>0, <2>2, <4>1, AppendFacts
    <3>2. CASE p # producer[w]
      BY <1>3, <2>2, <3>2 DEF TypeOK, EventWritten, WriteRecord
    <3> QED
      BY <3>1, <3>2
  <2> QED
    BY <2>1, <2>2 DEF ReportInv
<1>4. ASSUME NEW w \in Workers, EndCallback(w) PROVE ReportInv'
  <2>1. UNCHANGED <<clock, now, through, out, todo>> /\ pc'[Reporter] = pc[Reporter]
    BY <1>4 DEF TypeOK, EndCallback, Goto, Threads, reporter
  <2>2. \A p \in Producers : active'[p] \subseteq active[p]
    BY <1>4 DEF TypeOK, EndCallback
  <2>3. pc[Reporter] # "writing"
    BY <1>4 DEF TypeOK, EndCallback, Threads
  <2> QED
    BY <2>1, <2>2, <2>3 DEF ReportInv
<1>5. ASSUME NEW w \in Workers, NEW p \in Producers, BeginCallback(w, p) PROVE ReportInv'
  <2>1. UNCHANGED <<clock, now, through, out, todo>> /\ pc'[Reporter] = pc[Reporter]
    BY <1>5 DEF TypeOK, BeginCallback, Goto, Threads, reporter
  <2>2. \A q \in Producers : \A a \in active'[q] : a \in active[q] \/ a.entry = clock
    BY <1>5 DEF TypeOK, BeginCallback, EntryTime
  <2>3. pc[Reporter] # "writing"
    BY <1>5 DEF TypeOK, BeginCallback, Threads
  <2> QED
    BY <2>1, <2>2, <2>3 DEF ReportInv
<1>6. CASE ReadNow
  <2>1. UNCHANGED <<clock, out, active>> /\ pc'[Reporter] = "now_read" /\ now' = clock
    BY <1>6 DEF TypeOK, ReadNow, Goto, Threads, writer
  <2> QED
    BY <1>0, <2>1 DEF ReportInv
<1>7. CASE ReportDelivery
  <2>1. UNCHANGED <<clock, now, out, active, todo>>
    BY <1>7 DEF ReportDelivery
  <2>2. Head(todo) \in Producers
    BY <1>7, HeadFacts DEF TypeOK, ReportDelivery
  <2>3. through' \in Nat /\ \A c \in Bounds(Head(todo)) : through' <= c
    BY <1>7 DEF ReportDelivery, TypeOK
  <2>4. through' <= now
    BY <2>3 DEF Bounds
  <2>5. ASSUME NEW a \in active[Head(todo)] PROVE through' <= a.entry
    <3>1. through' <= IF a.entry = 0 THEN 0 ELSE a.entry - 1
      BY <2>3 DEF Bounds
    <3>2. a.entry \in Nat
      BY <1>0, <2>2
    <3> QED
      BY <2>3, <3>1, <3>2
  <2>6. through' <= clock
    BY <1>0, <2>3, <2>4 DEF ReportInv
  <2> QED
    BY <2>1, <2>5, <2>6 DEF ReportInv
<1>8. CASE DeliveryWritten
  <2> DEFINE p == Head(todo)
  <2>1. UNCHANGED <<clock, active>> /\ now' = 0 /\ pc[Reporter] = "writing" /\ pc'[Reporter] = "round"
    BY <1>8 DEF TypeOK, DeliveryWritten, Goto, Threads
  <2>2. p \in Producers
    BY <1>8, HeadFacts DEF TypeOK, DeliveryWritten
  <2> DEFINE e == [event |-> "delivery", seq |-> seq[Reporter], t |-> through]
  <2>3. e \in Record /\ e.t = through
    BY <1>0 DEF TypeOK, Record, Threads
  <2>4. \A q \in Producers : out'[q] = IF q = p THEN Append(out[q], e) ELSE out[q]
    BY <1>8 DEF TypeOK, DeliveryWritten, WriteRecord
  <2> HIDE DEF e, p
  <2>5. through <= clock /\ \A a \in active[p] : through <= a.entry
    BY <2>1 DEF ReportInv, p
  <2>6. ASSUME NEW q \in Producers, NEW i \in DOMAIN out'[q], out'[q][i].event = "delivery"
        PROVE  out'[q][i].t <= clock' /\ \A a \in active'[q] : out'[q][i].t <= a.entry
    <3>1. CASE i \in DOMAIN out[q] /\ out'[q][i] = out[q][i]
      BY <2>1, <2>6, <3>1 DEF ReportInv
    <3>2. CASE q = p /\ out'[q][i] = e
      BY <2>1, <2>3, <2>5, <3>2
    <3>3. CASE q = p
      <4>1. out'[q] = Append(out[q], e)
        BY <2>4, <3>3
      <4>2. (i \in DOMAIN out[q] /\ out'[q][i] = out[q][i]) \/ out'[q][i] = e
        BY <1>0, <2>3, <2>6, <4>1, AppendFacts
      <4> QED
        BY <3>1, <3>2, <3>3, <4>2
    <3>4. CASE q # p
      BY <2>4, <2>6, <3>1, <3>4
    <3> QED
      BY <3>3, <3>4
  <2> QED
    BY <1>0, <2>1, <2>6 DEF ReportInv
<1> QED
  BY <1>1, <1>2, <1>3, <1>4, <1>5, <1>6, <1>7, <1>8 DEF Next, RunCallback, ReportLoop

(* The one step that adds an event finds it stamped after its own entry, which *)
(* is after everything reported so far.                                        *)
LEMMA WatermarkStep ==
    TypeOK /\ CallbackInv /\ ReportInv /\ Watermark /\ [Next]_vars => Watermark'
<1> USE TrackingAssumption
<1> SUFFICES ASSUME TypeOK, CallbackInv, ReportInv, Watermark, [Next]_vars PROVE Watermark'
    OBVIOUS
<1>0. \A p \in Producers : out[p] \in Seq(Record)
  BY DEF TypeOK
<1>1. ASSUME NEW w \in Workers, EventWritten(w) PROVE Watermark'
  <2> DEFINE p == producer[w]
  <2> DEFINE e == [event |-> "event", seq |-> seq[w], t |-> t_ns[w]]
  <2>1. p \in Producers /\ pc[w] = "writing"
    BY <1>1 DEF TypeOK, EventWritten
  <2>2. e \in Record /\ e.t = t_ns[w] /\ t_ns[w] \in Nat
    BY DEF TypeOK, Record, Threads
  <2>3. \A q \in Producers : out'[q] = IF q = p THEN Append(out[q], e) ELSE out[q]
    BY <1>1 DEF TypeOK, EventWritten, WriteRecord
  <2>4. PICK a \in active[p] : a.entry <= t_ns[w]
    BY <2>1 DEF CallbackInv
  <2>5. a.entry \in Nat
    <3>1. a \in Active
      BY <2>1, <2>4 DEF TypeOK
    <3> QED
      BY <3>1 DEF Active
  <2>6. ASSUME NEW i \in DOMAIN out[p], out[p][i].event = "delivery" PROVE out[p][i].t <= t_ns[w]
    <3>1. out[p][i].t <= a.entry
      BY <2>1, <2>4, <2>6 DEF ReportInv
    <3>2. out[p][i] \in Record
      BY <1>0, <2>1
    <3>3. out[p][i].t \in Nat
      BY <3>2 DEF Record
    <3> QED
      BY <2>2, <2>4, <2>5, <3>1, <3>3
  <2> HIDE DEF e, p
  <2>7. ASSUME NEW q \in Producers, NEW i \in DOMAIN out'[q], NEW j \in DOMAIN out'[q],
               i < j, out'[q][i].event = "delivery", out'[q][j].event = "event"
        PROVE  out'[q][i].t <= out'[q][j].t
    <3>1. CASE q # p
      BY <2>3, <2>7, <3>1 DEF Watermark
    <3>2. CASE q = p
      <4>1. out'[q] = Append(out[q], e) /\ out[q] \in Seq(Record)
        BY <1>0, <2>3, <3>2
      <4>2. /\ DOMAIN out'[q] = DOMAIN out[q] \cup {Len(out[q]) + 1}
            /\ \A k \in DOMAIN out[q] : out'[q][k] = out[q][k] /\ k < Len(out[q]) + 1
            /\ out'[q][Len(out[q]) + 1] = e
            /\ Len(out[q]) \in Nat
            /\ DOMAIN out[q] \subseteq Nat
        BY <2>2, <4>1, AppendFacts
      <4>3. i \in DOMAIN out[q]
        BY <2>7, <4>2
      <4>4. CASE j \in DOMAIN out[q]
        BY <2>7, <4>2, <4>3, <4>4 DEF Watermark
      <4>5. CASE j = Len(out[q]) + 1
        BY <2>2, <2>6, <2>7, <3>2, <4>2, <4>3, <4>5
      <4> QED
        BY <4>2, <4>4, <4>5
    <3> QED
      BY <3>1, <3>2
  <2> QED
    BY <2>7 DEF Watermark
<1>2. CASE DeliveryWritten
  <2> DEFINE p == Head(todo)
  <2> DEFINE e == [event |-> "delivery", seq |-> seq[Reporter], t |-> through]
  <2>1. e \in Record /\ e.event # "event"
    BY DEF TypeOK, Record, Threads
  <2>2. \A q \in Producers : out'[q] = IF q = p THEN Append(out[q], e) ELSE out[q]
    BY <1>2 DEF TypeOK, DeliveryWritten, WriteRecord
  <2> HIDE DEF e, p
  <2>3. ASSUME NEW q \in Producers, NEW i \in DOMAIN out'[q], NEW j \in DOMAIN out'[q],
               i < j, out'[q][i].event = "delivery", out'[q][j].event = "event"
        PROVE  out'[q][i].t <= out'[q][j].t
    <3>1. CASE q # p
      BY <2>2, <2>3, <3>1 DEF Watermark
    <3>2. CASE q = p
      <4>1. out'[q] = Append(out[q], e) /\ out[q] \in Seq(Record)
        BY <1>0, <2>2, <3>2
      <4>2. /\ DOMAIN out'[q] = DOMAIN out[q] \cup {Len(out[q]) + 1}
            /\ \A k \in DOMAIN out[q] : out'[q][k] = out[q][k] /\ k < Len(out[q]) + 1
            /\ out'[q][Len(out[q]) + 1] = e
            /\ Len(out[q]) \in Nat
            /\ DOMAIN out[q] \subseteq Nat
        BY <2>1, <4>1, AppendFacts
      <4>3. j \in DOMAIN out[q]
        BY <2>1, <2>3, <4>2
      <4>4. i \in DOMAIN out[q]
        BY <2>3, <4>2, <4>3
      <4> QED
        BY <2>3, <4>2, <4>3, <4>4 DEF Watermark
    <3> QED
      BY <3>1, <3>2
  <2> QED
    BY <2>3 DEF Watermark
<1>3. CASE UNCHANGED out
  BY <1>3 DEF Watermark
<1>4. ASSUME NEW w \in Workers, RunCallback(w) \/ \E p \in Producers : BeginCallback(w, p)
      PROVE  Watermark'
  BY <1>1, <1>3, <1>4 DEF RunCallback, Stamp, WriteEvent, EndCallback, BeginCallback, writer
<1>5. CASE ReportLoop
  BY <1>2, <1>3, <1>5 DEF ReportLoop, StartRound, ExitReporter, ReadNow, ReportDelivery, EndRound,
     writer
<1>6. CASE Tick \/ Stop \/ (\E p \in Producers : Register(p)) \/ UNCHANGED vars
  BY <1>3, <1>6 DEF Tick, Stop, Register, vars, writer
<1> QED
  BY <1>4, <1>5, <1>6 DEF Next

(* No event is written behind a delivery record that promised it would not *)
(* come, for any number of nodes, threads, callbacks and reports.          *)
THEOREM WatermarkHolds == Spec => []Watermark
<1>1. Init => CallbackInv /\ ReportInv /\ Watermark
  <2> SUFFICES ASSUME Init PROVE CallbackInv /\ ReportInv /\ Watermark
    OBVIOUS
  <2>1. \A w \in Workers : pc[w] = "idle"
    BY TrackingAssumption DEF Init, Threads
  <2>2. pc[Reporter] = "none"
    BY DEF Init, Threads
  <2>3. \A p \in Producers : DOMAIN out[p] = {} /\ active[p] = {}
    <3>1. \A p \in Producers : out[p] = <<>> /\ active[p] = {}
      BY DEF Init
    <3>2. DOMAIN <<>> = {}
      OBVIOUS
    <3> QED
      BY <3>1, <3>2, Zenon
  <2>4. now <= clock
    BY DEF Init
  <2>5. CallbackInv
    BY <2>1, <2>3 DEF CallbackInv
  <2>6. ReportInv
    BY <2>2, <2>3, <2>4 DEF ReportInv
  <2>7. Watermark
    BY <2>3 DEF Watermark
  <2> QED
    BY <2>5, <2>6, <2>7
<1> QED
  BY <1>1, TypeCorrect, CallbackStep, ReportStep, WatermarkStep, PTL DEF Spec
-----------------------------------------------------------------------------
(* The producer whose record the thread that holds mutex_ is writing. *)
Target(t) == IF t = Reporter THEN Head(todo) ELSE producer[t]

(* The numbers handed out are those in the log, and the one of the record that *)
(* is being written, which is the next in the log of its producer.             *)
NumberInv ==
    /\ RecordSeqGapFree
    /\ mutex = None => \A p \in Producers : next_record[p] = Len(out[p])
    /\ \A t \in Threads : mutex = t =>
          /\ seq[t] = Len(out[Target(t)])
          /\ \A p \in Producers :
                next_record[p] = IF p = Target(t) THEN Len(out[p]) + 1 ELSE Len(out[p])

(* A number that is drawn is that of the next line. *)
LEMMA NumberDrawn ==
    ASSUME TypeOK, NumberInv, NEW t \in Threads, Target(t) \in Producers,
           DrawRecord(t, Target(t)), UNCHANGED <<out, todo, producer>>
    PROVE  NumberInv'
<1> USE TrackingAssumption
<1>1. mutex = None /\ mutex' = t /\ t # None
  BY DEF DrawRecord, Threads
<1>2. \A u \in Threads : Target(u)' = Target(u)
  BY DEF Target
<1>3. RecordSeqGapFree'
  BY DEF NumberInv, RecordSeqGapFree
<1>4. \A p \in Producers : next_record[p] = Len(out[p]) /\ next_record[p] \in Nat
  BY <1>1 DEF NumberInv, TypeOK
<1>5. seq'[t] = Len(out[Target(t)])
  BY <1>4 DEF DrawRecord, TypeOK
<1>6. \A p \in Producers :
        next_record'[p] = IF p = Target(t) THEN Len(out[p]) + 1 ELSE Len(out[p])
  BY <1>4 DEF DrawRecord, TypeOK
<1> QED
  BY <1>1, <1>2, <1>3, <1>5, <1>6 DEF NumberInv

(* The line that is written carries the number that was drawn for it. *)
LEMMA NumberWritten ==
    ASSUME TypeOK, NumberInv, NEW t \in Threads, mutex = t, Target(t) \in Producers,
           NEW event \in {"delivery", "event"}, NEW time \in Nat,
           WriteRecord(t, Target(t), event, time), UNCHANGED next_record
    PROVE  NumberInv'
<1> USE TrackingAssumption
<1> DEFINE p == Target(t)
<1> DEFINE e == [event |-> event, seq |-> seq[t], t |-> time]
<1>1. e \in Record /\ e.seq = seq[t]
  BY DEF TypeOK, Record
<1>2. out[p] \in Seq(Record) /\ seq[t] = Len(out[p])
  BY DEF TypeOK, NumberInv
<1>3. mutex' = None /\ \A q \in Producers : out'[q] = IF q = p THEN Append(out[q], e) ELSE out[q]
  BY DEF TypeOK, WriteRecord
<1>4. \A q \in Producers :
        next_record[q] = IF q = p THEN Len(out[q]) + 1 ELSE Len(out[q])
  BY DEF NumberInv
<1> HIDE DEF e, p
<1>5. Len(Append(out[p], e)) = Len(out[p]) + 1
  BY <1>1, <1>2
<1>6. \A q \in Producers : next_record'[q] = Len(out'[q])
  BY <1>3, <1>4, <1>5
<1>7. ASSUME NEW q \in Producers, NEW i \in DOMAIN out'[q] PROVE out'[q][i].seq = i - 1
  <2>1. CASE q # p
    BY <1>3, <1>7, <2>1 DEF NumberInv, RecordSeqGapFree
  <2>2. CASE q = p
    <3>1. out'[q] = Append(out[p], e)
      BY <1>3, <1>7, <2>2
    <3>2. CASE i \in DOMAIN out[p]
      <4>1. out'[q][i] = out[p][i]
        BY <1>1, <1>2, <3>1, <3>2, AppendFacts
      <4> QED
        BY <1>7, <2>2, <3>2, <4>1 DEF NumberInv, RecordSeqGapFree
    <3>3. CASE i = Len(out[p]) + 1
      <4>1. out'[q][i] = e /\ Len(out[p]) \in Nat
        BY <1>1, <1>2, <3>1, <3>3, AppendFacts
      <4> QED
        BY <1>1, <1>2, <3>3, <4>1
    <3> QED
      BY <1>1, <1>2, <1>7, <3>1, <3>2, <3>3, AppendFacts
  <2> QED
    BY <2>1, <2>2
<1>8. \A u \in Threads : u # None
  BY DEF Threads
<1> QED
  BY <1>3, <1>6, <1>7, <1>8 DEF NumberInv, RecordSeqGapFree

(* Nobody else touches the numbers, nor what the writing thread writes about. *)
LEMMA NumberStep == TypeOK /\ NumberInv /\ [Next]_vars => NumberInv'
<1> USE TrackingAssumption
<1> SUFFICES ASSUME TypeOK, NumberInv, [Next]_vars PROVE NumberInv'
    OBVIOUS
<1>0. /\ \A w \in Workers : w # Reporter /\ w \in Threads /\ Target(w) = producer[w]
      /\ Target(Reporter) = Head(todo) /\ Reporter \in Threads
  BY DEF Threads, Target
<1>1. ASSUME NEW w \in Workers, WriteEvent(w) PROVE NumberInv'
  <2>1. producer[w] \in Producers
    BY <1>1 DEF TypeOK, WriteEvent
  <2> QED
    BY <1>0, <1>1, <2>1, NumberDrawn DEF WriteEvent, worker, reporter
<1>2. ASSUME NEW w \in Workers, EventWritten(w) PROVE NumberInv'
  <2>1. producer[w] \in Producers /\ mutex = w /\ t_ns[w] \in Nat
    BY <1>0, <1>2 DEF TypeOK, EventWritten
  <2> QED
    BY <1>0, <1>2, <2>1, NumberWritten DEF EventWritten
<1>3. CASE ReportDelivery
  <2>1. Head(todo) \in Producers
    BY <1>3, HeadFacts DEF TypeOK, ReportDelivery
  <2> QED
    BY <1>0, <1>3, <2>1, NumberDrawn DEF ReportDelivery, worker
<1>4. CASE DeliveryWritten
  <2>1. Head(todo) \in Producers /\ mutex = Reporter /\ through \in Nat
    BY <1>0, <1>4, HeadFacts DEF TypeOK, DeliveryWritten
  <2> QED
    BY <1>0, <1>4, <2>1, NumberWritten DEF DeliveryWritten
<1>5. ASSUME UNCHANGED <<mutex, next_record, out, seq>>,
             \A t \in Threads : mutex = t => Target(t)' = Target(t)
      PROVE  NumberInv'
  BY <1>5 DEF NumberInv, RecordSeqGapFree
<1>6. CASE Tick \/ Stop \/ (\E p \in Producers : Register(p)) \/ UNCHANGED vars
  BY <1>5, <1>6 DEF Tick, Stop, Register, vars, writer, worker, reporter, Target
<1>7. ASSUME NEW w \in Workers, Stamp(w) PROVE NumberInv'
  BY <1>5, <1>7 DEF Stamp, writer, reporter, Target
<1>8. ASSUME NEW w \in Workers, EndCallback(w) \/ \E p \in Producers : BeginCallback(w, p)
      PROVE  NumberInv'
  <2>1. mutex = None /\ UNCHANGED <<mutex, next_record, out, seq>>
    BY <1>8 DEF EndCallback, BeginCallback
  <2>2. \A t \in Threads : mutex # t
    BY <2>1 DEF Threads
  <2> QED
    BY <1>5, <2>1, <2>2
<1>9. CASE StartRound \/ ExitReporter \/ ReadNow \/ EndRound
  <2>1. UNCHANGED <<mutex, next_record, out, seq, producer>> /\ pc[Reporter] # "writing"
    BY <1>9 DEF StartRound, ExitReporter, ReadNow, EndRound, writer, worker
  <2>2. mutex # Reporter
    BY <1>0, <2>1 DEF TypeOK
  <2>3. \A t \in Threads : mutex = t => Target(t)' = Target(t)
    BY <2>1, <2>2 DEF Target
  <2> QED
    BY <1>5, <2>1, <2>3
<1> QED
  BY <1>1, <1>2, <1>3, <1>4, <1>6, <1>7, <1>8, <1>9 DEF Next, RunCallback, ReportLoop

(* The clock that the reporter has read is past everything reported, and what *)
(* it has computed from it and from the active callbacks is at most one less. *)
AdvanceInv ==
    /\ pc[Reporter] = "now_read" => \A p \in Producers : \A i \in DOMAIN out[p] :
          out[p][i].event = "delivery" => out[p][i].t <= now
    /\ pc[Reporter] = "writing" => \A i \in DOMAIN out[Head(todo)] :
          out[Head(todo)][i].event = "delivery" => out[Head(todo)][i].t <= through + 1
    /\ WatermarkAdvances

LEMMA AdvanceStep ==
    TypeOK /\ TypeOK' /\ ReportInv /\ AdvanceInv /\ [Next]_vars => AdvanceInv'
<1> USE TrackingAssumption
<1> SUFFICES ASSUME TypeOK, TypeOK', ReportInv, AdvanceInv, [Next]_vars PROVE AdvanceInv'
    OBVIOUS
<1>0. /\ now \in Nat /\ through \in Nat /\ clock \in Nat
      /\ \A p \in Producers : out[p] \in Seq(Record)
      /\ \A p \in Producers : \A i \in DOMAIN out[p] : out[p][i].t \in Nat
      /\ \A p \in Producers : \A a \in active[p] : a.entry \in Nat
      /\ todo # <<>> => Head(todo) \in Producers
  <2>1. \A p \in Producers : active[p] \subseteq Active /\ out[p] \in Seq(Record)
    BY DEF TypeOK
  <2>2. \A p \in Producers : \A i \in DOMAIN out[p] : out[p][i] \in Record
    BY <2>1
  <2>3. (\A a \in Active : a.entry \in Nat) /\ (\A r \in Record : r.t \in Nat)
    BY DEF Active, Record
  <2>4. now \in Nat /\ through \in Nat /\ clock \in Nat /\ todo \in Seq(Producers)
    BY DEF TypeOK
  <2>5. todo # <<>> => Head(todo) \in Producers
    BY <2>4, HeadFacts
  <2> QED
    BY <2>1, <2>2, <2>3, <2>4, <2>5, Zenon
<1>1. CASE ReadNow
  <2>1. UNCHANGED out /\ now' = clock /\ pc'[Reporter] = "now_read"
    BY <1>1 DEF ReadNow, writer, TypeOK, Goto, Threads
  <2> QED
    BY <2>1 DEF AdvanceInv, ReportInv, WatermarkAdvances
<1>2. CASE ReportDelivery
  <2> DEFINE p == Head(todo)
  <2>1. p \in Producers /\ UNCHANGED <<out, todo>> /\ pc[Reporter] = "now_read"
    BY <1>0, <1>2 DEF ReportDelivery, TypeOK
  <2>2. pc'[Reporter] = "writing" /\ through' \in Bounds(p)
    BY <1>2 DEF ReportDelivery, TypeOK, Goto, Threads
  <2>3. ASSUME NEW i \in DOMAIN out[p], out[p][i].event = "delivery"
        PROVE  out[p][i].t <= through' + 1
    <3>1. out[p][i].t <= now /\ out[p][i].t \in Nat
      BY <1>0, <2>1, <2>3 DEF AdvanceInv
    <3>2. CASE through' = now
      BY <1>0, <3>1, <3>2
    <3>3. ASSUME NEW a \in active[p], through' = IF a.entry = 0 THEN 0 ELSE a.entry - 1
          PROVE  out[p][i].t <= through' + 1
      <4>1. out[p][i].t <= a.entry /\ a.entry \in Nat
        BY <1>0, <2>1, <2>3, <3>3 DEF ReportInv
      <4> QED
        BY <3>1, <3>3, <4>1
    <3> QED
      BY <2>2, <3>2, <3>3 DEF Bounds
  <2> HIDE DEF p
  <2>4. \A i \in DOMAIN out'[p] : out'[p][i].event = "delivery" => out'[p][i].t <= through' + 1
    BY <2>1, <2>3
  <2>5. WatermarkAdvances'
    BY <2>1 DEF AdvanceInv, WatermarkAdvances
  <2> QED
    BY <2>1, <2>2, <2>4, <2>5 DEF AdvanceInv, p
<1>3. ASSUME NEW p \in Producers, NEW e \in Record,
             \A q \in Producers : out'[q] = IF q = p THEN Append(out[q], e) ELSE out[q],
             e.event = "delivery" => \A i \in DOMAIN out[p] :
                out[p][i].event = "delivery" => out[p][i].t <= e.t + 1
      PROVE  WatermarkAdvances'
  <2>1. SUFFICES ASSUME NEW q \in Producers, NEW i \in DOMAIN out'[q], NEW j \in DOMAIN out'[q],
                        i < j, out'[q][i].event = "delivery", out'[q][j].event = "delivery"
                 PROVE  out'[q][i].t <= out'[q][j].t + 1
    BY DEF WatermarkAdvances
  <2>2. CASE q # p
    BY <1>3, <2>1, <2>2 DEF AdvanceInv, WatermarkAdvances
  <2>3. CASE q = p
    <3>1. out'[q] = Append(out[p], e) /\ out[p] \in Seq(Record)
      BY <1>0, <1>3, <2>1, <2>3
    <3>2. /\ DOMAIN out'[q] = DOMAIN out[p] \cup {Len(out[p]) + 1}
          /\ \A k \in DOMAIN out[p] : out'[q][k] = out[p][k] /\ k < Len(out[p]) + 1
          /\ out'[q][Len(out[p]) + 1] = e
          /\ Len(out[p]) \in Nat
          /\ DOMAIN out[p] \subseteq Nat
      BY <1>3, <3>1, AppendFacts
    <3>3. i \in DOMAIN out[p]
      BY <2>1, <3>2
    <3>4. CASE j \in DOMAIN out[p]
      BY <2>1, <2>3, <3>2, <3>3, <3>4 DEF AdvanceInv, WatermarkAdvances
    <3>5. CASE j = Len(out[p]) + 1
      BY <1>3, <2>1, <2>3, <3>2, <3>3, <3>5
    <3> QED
      BY <2>1, <3>2, <3>4, <3>5
  <2> QED
    BY <2>2, <2>3
<1>4. CASE DeliveryWritten
  <2> DEFINE e == [event |-> "delivery", seq |-> seq[Reporter], t |-> through]
  <2>1. Head(todo) \in Producers /\ pc[Reporter] = "writing" /\ pc'[Reporter] = "round"
    BY <1>0, <1>4 DEF DeliveryWritten, TypeOK, Goto, Threads
  <2>2. e \in Record /\ e.t = through
    BY DEF TypeOK, Record, Threads
  <2>3. \A q \in Producers : out'[q] = IF q = Head(todo) THEN Append(out[q], e) ELSE out[q]
    BY <1>4 DEF TypeOK, DeliveryWritten, WriteRecord
  <2>4. \A i \in DOMAIN out[Head(todo)] :
          out[Head(todo)][i].event = "delivery" => out[Head(todo)][i].t <= e.t + 1
    BY <2>1, <2>2 DEF AdvanceInv
  <2> HIDE DEF e
  <2>5. WatermarkAdvances'
    BY <1>3, <2>1, <2>2, <2>3, <2>4
  <2> QED
    BY <2>1, <2>5 DEF AdvanceInv
<1>5. ASSUME NEW w \in Workers, EventWritten(w) PROVE AdvanceInv'
  <2> DEFINE p == producer[w]
  <2> DEFINE e == [event |-> "event", seq |-> seq[w], t |-> t_ns[w]]
  <2>1. /\ p \in Producers /\ w \in Threads /\ mutex = w /\ w # Reporter
        /\ UNCHANGED <<now, through, todo>> /\ pc'[Reporter] = pc[Reporter]
    BY <1>5 DEF TypeOK, EventWritten, Threads, Goto, reporter
  <2>2. e \in Record /\ e.event = "event"
    BY DEF TypeOK, Record, Threads
  <2>3. \A q \in Producers : out'[q] = IF q = p THEN Append(out[q], e) ELSE out[q]
    BY <1>5 DEF TypeOK, EventWritten, WriteRecord
  <2>4. pc[Reporter] # "writing"
    BY <2>1 DEF TypeOK, Threads
  <2> HIDE DEF e, p
  <2>5. WatermarkAdvances'
    BY <1>3, <2>1, <2>2, <2>3
  <2>6. ASSUME NEW q \in Producers, NEW i \in DOMAIN out'[q], out'[q][i].event = "delivery"
        PROVE  i \in DOMAIN out[q] /\ out'[q][i] = out[q][i]
    <3>1. CASE q # p
      BY <2>3, <2>6, <3>1
    <3>2. CASE q = p
      <4>1. out'[q] = Append(out[p], e) /\ out[p] \in Seq(Record)
        BY <1>0, <2>3, <2>6, <3>2
      <4>2. (i \in DOMAIN out[p] /\ out'[q][i] = out[p][i]) \/ out'[q][i] = e
        BY <2>2, <2>6, <4>1, AppendFacts
      <4> QED
        BY <2>2, <2>6, <3>2, <4>2
    <3> QED
      BY <3>1, <3>2
  <2> QED
    BY <2>1, <2>4, <2>5, <2>6 DEF AdvanceInv
<1>6. ASSUME UNCHANGED out,
             pc'[Reporter] \in {"now_read", "writing"} =>
                UNCHANGED <<now, through, todo>> /\ pc'[Reporter] = pc[Reporter]
      PROVE  AdvanceInv'
  BY <1>6 DEF AdvanceInv, WatermarkAdvances
<1>7. CASE Tick \/ Stop \/ (\E p \in Producers : Register(p)) \/ UNCHANGED vars
  BY <1>6, <1>7 DEF Tick, Stop, Register, vars, writer, reporter, TypeOK, Goto, Threads
<1>8. ASSUME NEW w \in Workers,
             Stamp(w) \/ WriteEvent(w) \/ EndCallback(w) \/ \E p \in Producers : BeginCallback(w, p)
      PROVE  AdvanceInv'
  <2>1. w # Reporter
    OBVIOUS
  <2> QED
    BY <1>6, <1>8, <2>1 DEF Stamp, WriteEvent, EndCallback, BeginCallback, writer, reporter,
       TypeOK, Goto, Threads
<1>9. CASE StartRound \/ ExitReporter \/ EndRound
  BY <1>6, <1>9 DEF StartRound, ExitReporter, EndRound, writer, reporter, TypeOK, Goto, Threads
<1> QED
  BY <1>1, <1>2, <1>4, <1>5, <1>7, <1>8, <1>9 DEF Next, RunCallback, ReportLoop

(* A reader of a producer's log finds the records numbered without a gap, and    *)
(* the times up to which the log is complete fall back by a nanosecond at most,  *)
(* for any number of nodes, threads, callbacks and reports.                      *)
THEOREM LogReadable == Spec => []LogInOrder
<1>1. Init => ReportInv /\ NumberInv /\ AdvanceInv
  <2> SUFFICES ASSUME Init PROVE ReportInv /\ NumberInv /\ AdvanceInv
    OBVIOUS
  <2>1. pc[Reporter] = "none" /\ mutex = None /\ \A t \in Threads : t # None
    BY TrackingAssumption DEF Init, Threads
  <2>2. \A p \in Producers : out[p] = <<>> /\ active[p] = {} /\ next_record[p] = 0
    BY DEF Init
  <2>3. DOMAIN <<>> = {} /\ Len(<<>>) = 0
    OBVIOUS
  <2>4. \A p \in Producers : DOMAIN out[p] = {} /\ active[p] = {} /\ next_record[p] = Len(out[p])
    BY <2>2, <2>3, Zenon
  <2>5. NumberInv
    BY <2>1, <2>4 DEF NumberInv, RecordSeqGapFree
  <2>6. ReportInv /\ AdvanceInv
    BY <2>1, <2>4 DEF ReportInv, AdvanceInv, WatermarkAdvances, Init
  <2> QED
    BY <2>5, <2>6
<1>2. NumberInv /\ AdvanceInv => LogInOrder
  BY DEF NumberInv, AdvanceInv, LogInOrder
<1> QED
  BY <1>1, <1>2, TypeCorrect, ReportStep, NumberStep, AdvanceStep, PTL DEF Spec
=============================================================================
