------------------------ MODULE SourceScheduleProofs ------------------------
(***************************************************************************)
(* Proofs about SourceSchedule, for every set of schedule files, whatever  *)
(* the coordinator writes, and for any number of crashes and restarts: the *)
(* evidence of a sensor tells its phases once, in order and truthfully,    *)
(* and no process discards the evidence of another.                        *)
(***************************************************************************)
EXTENDS SourceSchedule, TLAPS

-----------------------------------------------------------------------------
(* The inductive invariant. *)

(* Evidence is written by a process whose constructor has accepted the schedule; the
   epoch is read before anything is recorded, and leaves room for the schedule. *)
Started ==
    /\ evidence # NoFile => schedule \in Schedules /\ Valid(schedule)
    /\ epoch = 0 => Records = <<>>
    /\ epoch # 0 => evidence # NoFile /\ epoch <= MaxInt - schedule.duration

(* What the running callback still has to handle: nothing between callbacks, when next_ is
   the phase after the last one recorded; within one, the phases that follow the last one
   recorded, without a gap, whose time has come. *)
Pending ==
    /\ state = "waiting" => due = {} /\ next = Len(Records) + 1
    /\ state \in {"handling", "applying"} =>
          /\ epoch # 0
          /\ \A i \in due :
                /\ i > Len(Records)
                /\ \A j \in Len(Records) + 1 .. i : j \in due
                /\ monotonic >= Requested(epoch, i)
    /\ state = "applying" => due = {Len(Records) + 1}

(* The timer's period is the one the evidence tells until the exchange, and then that of
   the phase which is about to be recorded. *)
PeriodsJoin ==
    /\ state \in {"waiting", "handling"} => period = PeriodAfter(Len(Records))
    /\ state = "applying" =>
          /\ old_period = PeriodAfter(Len(Records))
          /\ period = NewPeriod(Len(Records) + 1)
    /\ \A i \in DOMAIN Records :
          /\ Records[i].old = PeriodAfter(i - 1)
          /\ Records[i].status = "skipped" => Records[i].new = Records[i].old

FullPeriod == state # "down" => next_call >= since + period

ScheduleInv ==
    /\ ScheduleTypeOK /\ Started /\ Pending /\ PhasesOnceInOrder /\ NeverEarly
    /\ PeriodsJoin /\ FullPeriod

-----------------------------------------------------------------------------
(* A valid schedule has three phases with positive periods and non-negative offsets. *)
LEMMA ValidPhases ==
    ASSUME NEW s \in Schedules, Valid(s), NEW i \in 1 .. 3
    PROVE  /\ s.phases[i].period \in Nat \ {0}
           /\ s.phases[i].offset \in Nat
           /\ s.duration \in Nat
           /\ s.phases[i].offset < s.duration
BY ScheduleAssumption DEF Valid

(* rcl_timer_call never brings the next expiry nearer than one period after the last. *)
LEMMA NextCallLater ==
    ASSUME next_call \in Nat, period \in Nat \ {0}, monotonic \in Nat
    PROVE  NextCall \in Nat /\ NextCall >= next_call + period
<1> DEFINE n == next_call + period
           q == (monotonic - n) \div period
<1>1. CASE n < monotonic
  <2>1. q \in Nat
    BY <1>1
  <2> HIDE DEF q
  <2>2. (1 + q) * period \in Nat
    BY <2>1
  <2>3. NextCall = n + (1 + q) * period
    BY <1>1 DEF NextCall, q
  <2> QED BY <2>2, <2>3
<1>2. CASE ~(n < monotonic)
  BY <1>2 DEF NextCall
<1> QED BY <1>1, <1>2

(* What Append does to the evidence. *)
LEMMA AppendFacts ==
    ASSUME NEW S, NEW q \in Seq(S), NEW e \in S
    PROVE  /\ Append(q, e) \in Seq(S)
           /\ Len(Append(q, e)) = Len(q) + 1
           /\ Append(q, e) # <<>>
           /\ DOMAIN Append(q, e) = 1 .. Len(q) + 1
           /\ \A i \in 1 .. Len(q) : Append(q, e)[i] = q[i]
           /\ Append(q, e)[Len(q) + 1] = e
OBVIOUS

(* A record of phase i that is appended to evidence of i - 1 phases, at or after the time
   that was requested, keeps the evidence true. *)
LEMMA Recorded ==
    ASSUME ScheduleInv, NEW i \in 1 .. 3, NEW status \in Statuses,
           NEW old \in Nat, NEW new \in Nat,
           evidence # NoFile, epoch # 0, i = Len(Records) + 1,
           monotonic >= Requested(epoch, i),
           status = "skipped" => i + 1 \in 1 .. 3 /\ monotonic >= Requested(epoch, i + 1),
           old = PeriodAfter(Len(Records)),
           status = "skipped" => new = old,
           evidence' = Append(evidence, PhaseRecord(i, status, old, new)),
           UNCHANGED <<schedule, epoch>>
    PROVE  /\ evidence' \in Seq(EvidenceRecord) /\ evidence' # NoFile
           /\ Len(Records') = Len(Records) + 1
           /\ Records' # <<>>
           /\ PeriodAfter(Len(Records))' = new
           /\ PhasesOnceInOrder' /\ NeverEarly'
           /\ \A j \in DOMAIN Records' :
                 /\ Records'[j].old = PeriodAfter(j - 1)'
                 /\ Records'[j].status = "skipped" => Records'[j].new = Records'[j].old
<1> DEFINE r == PhaseRecord(i, status, old, new)
<1>1. Requested(epoch, i) \in Int
  BY ValidPhases DEF ScheduleInv, ScheduleTypeOK, Started, Requested
<1>2. r \in EvidenceRecord
  BY <1>1 DEF PhaseRecord, EvidenceRecord, ScheduleInv, ScheduleTypeOK
<1>3. /\ r.phase = i /\ r.status = status /\ r.requested = Requested(epoch, i)
      /\ r.t = monotonic /\ r.old = old /\ r.new = new
  BY DEF PhaseRecord
<1>4. evidence \in Seq(EvidenceRecord) /\ Records = evidence
  BY DEF ScheduleInv, ScheduleTypeOK, Records
<1> HIDE DEF r
<1>5. /\ evidence' \in Seq(EvidenceRecord) /\ Len(evidence') = Len(evidence) + 1
      /\ evidence' # <<>>
      /\ DOMAIN evidence' = 1 .. Len(evidence) + 1
      /\ \A j \in 1 .. Len(evidence) : evidence'[j] = evidence[j]
      /\ evidence'[Len(evidence) + 1] = r
  BY <1>2, <1>4, AppendFacts DEF r
<1>6. evidence' # NoFile /\ Records' = evidence'
  BY <1>5, ScheduleAssumption DEF Records
<1>7. Len(evidence) \in Nat /\ DOMAIN evidence = 1 .. Len(evidence)
  BY <1>4
<1>8. PeriodAfter(Len(Records))' = new
  BY <1>3, <1>4, <1>5, <1>6, <1>7 DEF PeriodAfter
<1>9. PhasesOnceInOrder'
  BY <1>3, <1>4, <1>5, <1>6, <1>7 DEF ScheduleInv, PhasesOnceInOrder
<1>10. NeverEarly'
  <2> SUFFICES ASSUME NEW j \in 1 .. Len(evidence) + 1
               PROVE  /\ evidence'[j].t >= evidence'[j].requested
                      /\ evidence'[j].status = "skipped" =>
                            evidence'[j].t >= Requested(epoch, evidence'[j].phase + 1)
    BY <1>5, <1>6 DEF NeverEarly, Requested
  <2>1. CASE j \in 1 .. Len(evidence)
    BY <2>1, <1>4, <1>5, <1>7 DEF ScheduleInv, NeverEarly
  <2>2. CASE j = Len(evidence) + 1
    BY <2>2, <1>3, <1>5
  <2> QED BY <2>1, <2>2, <1>7
<1>11. ASSUME NEW j \in DOMAIN Records'
       PROVE  /\ Records'[j].old = PeriodAfter(j - 1)'
              /\ Records'[j].status = "skipped" => Records'[j].new = Records'[j].old
  <2>1. j \in 1 .. Len(evidence) + 1
    BY <1>5, <1>6
  <2>2. j - 1 # 0 => j - 1 \in 1 .. Len(evidence)
    BY <2>1, <1>7
  <2>3. PeriodAfter(j - 1)' = PeriodAfter(j - 1)
    BY <2>2, <1>4, <1>5, <1>6 DEF PeriodAfter
  <2>4. CASE j \in 1 .. Len(evidence)
    BY <2>3, <2>4, <1>4, <1>5, <1>6, <1>7 DEF ScheduleInv, PeriodsJoin
  <2>5. CASE j = Len(evidence) + 1
    BY <2>3, <2>5, <1>3, <1>4, <1>5, <1>6, <1>7
  <2> QED BY <2>1, <2>4, <2>5, <1>7
<1> QED BY <1>4, <1>5, <1>6, <1>8, <1>9, <1>10, <1>11

-----------------------------------------------------------------------------
LEMMA InitInv == ScheduleInit => ScheduleInv
<1> SUFFICES ASSUME ScheduleInit PROVE ScheduleInv
  OBVIOUS
<1> USE DEF ScheduleInit
<1>1. ScheduleTypeOK
  BY ScheduleAssumption DEF ScheduleTypeOK, States
<1>2. Records = <<>>
  BY DEF Records
<1>3. PhasesOnceInOrder /\ NeverEarly
  BY <1>2 DEF PhasesOnceInOrder, NeverEarly
<1>4. Started /\ Pending /\ PeriodsJoin /\ FullPeriod
  BY <1>2 DEF Started, Pending, PeriodsJoin, FullPeriod
<1> QED BY <1>1, <1>3, <1>4 DEF ScheduleInv

(* Steps that leave the evidence, the schedule and the epoch alone keep what the evidence
   says. *)
LEMMA EvidenceUnchanged ==
    ASSUME ScheduleInv, UNCHANGED <<evidence, schedule, epoch>>
    PROVE  /\ Started' /\ PhasesOnceInOrder' /\ NeverEarly'
           /\ Records' = Records
           /\ \A n : PeriodAfter(n)' = PeriodAfter(n)
           /\ \A i : Requested(epoch, i)' = Requested(epoch, i)
           /\ \A i : NewPeriod(i)' = NewPeriod(i)
<1>1. Records' = Records
  BY DEF Records
<1>2. Started'
  BY <1>1 DEF ScheduleInv, Started, Valid
<1>3. PhasesOnceInOrder' /\ NeverEarly'
  BY <1>1 DEF ScheduleInv, PhasesOnceInOrder, NeverEarly, Requested
<1> QED BY <1>1, <1>2, <1>3 DEF PeriodAfter, Requested, NewPeriod

LEMMA StepInv == ScheduleInv /\ [ScheduleNext]_scheduleVars => ScheduleInv'
<1> SUFFICES ASSUME ScheduleInv, [ScheduleNext]_scheduleVars PROVE ScheduleInv'
  OBVIOUS
<1>0. Len(Records) \in Nat /\ DOMAIN Records = 1 .. Len(Records)
  BY DEF ScheduleInv, ScheduleTypeOK, Records
<1>1. CASE ScheduleTick
  <2> USE <1>1 DEF ScheduleTick, process
  <2>1. ScheduleTypeOK'
    BY ScheduleAssumption DEF ScheduleInv, ScheduleTypeOK
  <2>2. Pending'
    <3>1. \A i \in due : state \in {"handling", "applying"} => Requested(epoch, i) \in Int
      BY ValidPhases DEF ScheduleInv, Started, ScheduleTypeOK, Requested
    <3> QED BY <3>1, EvidenceUnchanged, <1>0 DEF ScheduleInv, Pending, ScheduleTypeOK
  <2>3. PeriodsJoin' /\ FullPeriod'
    BY EvidenceUnchanged DEF ScheduleInv, PeriodsJoin, FullPeriod
  <2> QED BY <2>1, <2>2, <2>3, EvidenceUnchanged DEF ScheduleInv
<1>2. ASSUME NEW valid \in BOOLEAN, NEW e \in Epochs, WriteStart(valid, e) PROVE ScheduleInv'
  <2> USE <1>2 DEF WriteStart, process
  <2>1. ScheduleTypeOK'
    BY DEF ScheduleInv, ScheduleTypeOK, StartRecord
  <2>2. Pending' /\ PeriodsJoin' /\ FullPeriod'
    BY EvidenceUnchanged DEF ScheduleInv, Pending, PeriodsJoin, FullPeriod
  <2> QED BY <2>1, <2>2, EvidenceUnchanged DEF ScheduleInv
<1>3. ASSUME NEW s \in Schedules, StartProcess(s) PROVE ScheduleInv'
  <2> USE <1>3 DEF StartProcess
  <2>1. <<>> \in Seq(EvidenceRecord) /\ <<>> # NoFile
    <3>1. <<>> \in Seq(EvidenceRecord)
      OBVIOUS
    <3> QED BY <3>1, ScheduleAssumption, Zenon
  <2>2. Records' = <<>>
    BY <2>1 DEF Records
  <2>3. ScheduleTypeOK'
    BY <2>1, ScheduleAssumption DEF ScheduleInv, ScheduleTypeOK, States
  <2>4. Started'
    BY <2>1, <2>2 DEF Started, Valid
  <2>5. PhasesOnceInOrder' /\ NeverEarly'
    BY <2>2 DEF PhasesOnceInOrder, NeverEarly
  <2>6. Pending'
    BY <2>2 DEF Pending
  <2>7. PeriodsJoin' /\ FullPeriod'
    BY <2>2, ScheduleAssumption DEF PeriodsJoin, PeriodAfter, FullPeriod, ScheduleInv, ScheduleTypeOK
  <2> QED BY <2>3, <2>4, <2>5, <2>6, <2>7 DEF ScheduleInv
<1>4. ASSUME NEW s \in Schedules, RefuseProcess(s) PROVE ScheduleInv'
  <2> USE <1>4 DEF RefuseProcess, process
  <2>1. ScheduleTypeOK'
    BY ScheduleAssumption DEF ScheduleInv, ScheduleTypeOK
  <2>2. Pending' /\ PeriodsJoin' /\ FullPeriod'
    BY EvidenceUnchanged DEF ScheduleInv, Pending, PeriodsJoin, FullPeriod
  <2> QED BY <2>1, <2>2, EvidenceUnchanged DEF ScheduleInv
<1>5. CASE Crash \/ PollRejected
  <2> USE <1>5 DEF Crash, PollRejected, process
  <2>1. ScheduleTypeOK'
    BY DEF ScheduleInv, ScheduleTypeOK, States
  <2>2. Pending' /\ PeriodsJoin' /\ FullPeriod'
    BY EvidenceUnchanged DEF ScheduleInv, Pending, PeriodsJoin, FullPeriod
  <2> QED BY <2>1, <2>2, EvidenceUnchanged DEF ScheduleInv
<1>6. CASE PollUnarmed
  <2> USE <1>6 DEF PollUnarmed, Expired
  <2>1. NextCall \in Nat /\ NextCall >= next_call + period
    BY NextCallLater DEF ScheduleInv, ScheduleTypeOK
  <2>2. ScheduleTypeOK'
    BY <2>1 DEF ScheduleInv, ScheduleTypeOK
  <2>3. Pending' /\ PeriodsJoin'
    BY EvidenceUnchanged DEF ScheduleInv, Pending, PeriodsJoin
  <2>4. FullPeriod'
    BY <2>1 DEF ScheduleInv, ScheduleTypeOK, FullPeriod
  <2> QED BY <2>2, <2>3, <2>4, EvidenceUnchanged DEF ScheduleInv
<1>7. CASE Poll
  <2> DEFINE e == IF epoch = 0 THEN start.epoch ELSE epoch
  <2>1. NextCall \in Nat /\ NextCall >= next_call + period
    BY NextCallLater DEF ScheduleInv, ScheduleTypeOK
  <2>2. /\ state = "waiting" /\ due = {} /\ next = Len(Records) + 1
        /\ evidence # NoFile /\ schedule \in Schedules /\ Valid(schedule)
    BY <1>7 DEF Poll, Expired, ScheduleInv, Pending, Started, ScheduleTypeOK
  <2>3. e \in 0 .. MaxInt /\ e # 0 /\ e <= MaxInt - schedule.duration
    BY <1>7, <2>2, ScheduleAssumption DEF Poll, Accepted, ScheduleInv, Started, ScheduleTypeOK,
       StartRecord, Valid
  <2>4. /\ epoch' = e /\ due' = DueAt(e, monotonic) /\ polled' = monotonic
        /\ state' = IF DueAt(e, monotonic) = {} THEN "waiting" ELSE "handling"
        /\ next_call' = NextCall
        /\ UNCHANGED <<monotonic, start, evidence, schedule, next, old_period, period, since, starts>>
    BY <1>7 DEF Poll
  <2>5. DueAt(e, monotonic) \in SUBSET (1 .. 3)
    BY <2>2, <1>0 DEF DueAt
  <2> HIDE DEF e
  <2>6. ScheduleTypeOK'
    BY <2>1, <2>2, <2>3, <2>4, <2>5 DEF ScheduleInv, ScheduleTypeOK, States
  <2>7. Records' = Records /\ (\A n : PeriodAfter(n)' = PeriodAfter(n))
    BY <2>4 DEF Records, PeriodAfter
  <2>8. epoch = 0 => Records = <<>>
    BY DEF ScheduleInv, Started
  <2>9. Started'
    BY <2>2, <2>3, <2>4, <2>7 DEF Started, Valid
  <2>10. PhasesOnceInOrder'
    BY <2>7 DEF ScheduleInv, PhasesOnceInOrder
  <2>11. NeverEarly'
    <3>1. CASE epoch = 0
      BY <3>1, <2>7, <2>8 DEF NeverEarly
    <3>2. CASE epoch # 0
      BY <3>2, <2>4, <2>7 DEF ScheduleInv, NeverEarly, Requested, e
    <3> QED BY <3>1, <3>2
  <2>12. Pending'
    <3>1. \A i \in DueAt(e, monotonic) :
            /\ i > Len(Records)
            /\ \A j \in Len(Records) + 1 .. i : j \in DueAt(e, monotonic)
            /\ monotonic >= Requested(e, i)
      BY <2>2, <1>0 DEF DueAt
    <3>2. \A i : Requested(e, i) = Requested(epoch, i)'
      BY <2>4 DEF Requested
    <3> QED BY <3>1, <3>2, <2>2, <2>3, <2>4, <2>7 DEF Pending
  <2>13. PeriodsJoin'
    BY <2>2, <2>4, <2>7 DEF ScheduleInv, PeriodsJoin
  <2>14. FullPeriod'
    BY <2>1, <2>2, <2>4 DEF ScheduleInv, ScheduleTypeOK, FullPeriod
  <2> QED BY <2>6, <2>9, <2>10, <2>11, <2>12, <2>13, <2>14 DEF ScheduleInv
<1>8. ASSUME NEW i \in due, Skip(i) PROVE ScheduleInv'
  <2> USE <1>8 DEF Skip
  <2>1. i \in 1 .. 3 /\ evidence # NoFile /\ epoch # 0 /\ due \in SUBSET (1 .. 3)
    BY DEF ScheduleInv, ScheduleTypeOK, Pending
  <2>2. i = Len(Records) + 1
    BY <2>1, <1>0 DEF ScheduleInv, Pending
  <2>3. PICK k \in due : k # i
    BY Zenon
  <2>4. i + 1 \in due
    BY <2>1, <2>2, <2>3, <1>0 DEF ScheduleInv, Pending
  <2>5. monotonic >= Requested(epoch, i) /\ monotonic >= Requested(epoch, i + 1)
    BY <2>4 DEF ScheduleInv, Pending
  <2>6. period \in Nat /\ period = PeriodAfter(Len(Records))
    BY DEF ScheduleInv, ScheduleTypeOK, PeriodsJoin
  <2>7. /\ evidence' \in Seq(EvidenceRecord) /\ evidence' # NoFile
        /\ Len(Records') = Len(Records) + 1
        /\ Records' # <<>>
        /\ PeriodAfter(Len(Records))' = period
        /\ PhasesOnceInOrder' /\ NeverEarly'
        /\ \A j \in DOMAIN Records' :
              /\ Records'[j].old = PeriodAfter(j - 1)'
              /\ Records'[j].status = "skipped" => Records'[j].new = Records'[j].old
    BY <2>1, <2>2, <2>4, <2>5, <2>6, Recorded DEF Statuses
  <2>8. ScheduleTypeOK'
    BY <2>3, <2>7 DEF ScheduleInv, ScheduleTypeOK
  <2>9. Started'
    BY <2>1, <2>7 DEF ScheduleInv, Started, Valid
  <2>10. Pending'
    <3>1. \A j : Requested(epoch, j)' = Requested(epoch, j)
      BY DEF Requested
    <3>2. \A j \in due' : j \in due /\ j > Len(Records')
      BY <2>1, <2>2, <2>7, <1>0
    <3> QED BY <3>1, <3>2, <2>1, <2>2, <2>7, <1>0 DEF ScheduleInv, Pending
  <2>11. PeriodsJoin'
    BY <2>7 DEF PeriodsJoin
  <2>12. FullPeriod'
    BY DEF ScheduleInv, FullPeriod
  <2> QED BY <2>7, <2>8, <2>9, <2>10, <2>11, <2>12 DEF ScheduleInv
<1>9. ASSUME NEW i \in due, Exchange(i) PROVE ScheduleInv'
  <2> USE <1>9 DEF Exchange
  <2>1. /\ i \in 1 .. 3 /\ evidence # NoFile /\ schedule \in Schedules /\ Valid(schedule)
        /\ monotonic \in Nat
    BY DEF ScheduleInv, ScheduleTypeOK, Started
  <2>2. i = Len(Records) + 1
    BY <2>1, <1>0 DEF ScheduleInv, Pending
  <2>3. NewPeriod(i) \in Nat \ {0}
    BY <2>1, ValidPhases DEF NewPeriod
  <2>4. ScheduleTypeOK'
    BY <2>1, <2>3 DEF ScheduleInv, ScheduleTypeOK, States, AfterReset
  <2>5. Pending'
    BY <2>2, EvidenceUnchanged DEF ScheduleInv, Pending
  <2>6. PeriodsJoin'
    BY <2>2, EvidenceUnchanged DEF ScheduleInv, PeriodsJoin
  <2>7. FullPeriod'
    BY <2>1, <2>3 DEF FullPeriod, AfterReset
  <2> QED BY <2>4, <2>5, <2>6, <2>7, EvidenceUnchanged DEF ScheduleInv
<1>10. ASSUME NEW i \in due, Apply(i) PROVE ScheduleInv'
  <2> USE <1>10 DEF Apply
  <2>1. i \in 1 .. 3 /\ evidence # NoFile /\ epoch # 0
    BY DEF ScheduleInv, ScheduleTypeOK, Pending
  <2>2. i = Len(Records) + 1 /\ monotonic >= Requested(epoch, i)
    BY DEF ScheduleInv, Pending
  <2>3. /\ old_period \in Nat /\ old_period = PeriodAfter(Len(Records))
        /\ NewPeriod(i) \in Nat /\ NewPeriod(i) = period
    BY <2>2 DEF ScheduleInv, ScheduleTypeOK, PeriodsJoin
  <2>4. /\ evidence' \in Seq(EvidenceRecord) /\ evidence' # NoFile
        /\ Len(Records') = Len(Records) + 1
        /\ Records' # <<>>
        /\ PeriodAfter(Len(Records))' = NewPeriod(i)
        /\ PhasesOnceInOrder' /\ NeverEarly'
        /\ \A j \in DOMAIN Records' :
              /\ Records'[j].old = PeriodAfter(j - 1)'
              /\ Records'[j].status = "skipped" => Records'[j].new = Records'[j].old
    BY <2>1, <2>2, <2>3, Recorded DEF Statuses
  <2>5. ScheduleTypeOK'
    BY <2>1, <2>4 DEF ScheduleInv, ScheduleTypeOK, States, NextAfter
  <2>6. Started'
    BY <2>1, <2>4 DEF ScheduleInv, Started, Valid
  <2>7. Pending'
    BY <2>2, <2>4 DEF Pending, NextAfter
  <2>8. PeriodsJoin'
    BY <2>3, <2>4 DEF PeriodsJoin
  <2>9. FullPeriod'
    BY DEF ScheduleInv, FullPeriod
  <2> QED BY <2>4, <2>5, <2>6, <2>7, <2>8, <2>9 DEF ScheduleInv
<1>11. CASE UNCHANGED scheduleVars
  <2> USE <1>11 DEF scheduleVars, process
  <2>1. ScheduleTypeOK'
    BY DEF ScheduleInv, ScheduleTypeOK
  <2>2. Pending' /\ PeriodsJoin' /\ FullPeriod'
    BY EvidenceUnchanged DEF ScheduleInv, Pending, PeriodsJoin, FullPeriod
  <2> QED BY <2>1, <2>2, EvidenceUnchanged DEF ScheduleInv
<1> QED
  BY <1>1, <1>2, <1>3, <1>4, <1>5, <1>6, <1>7, <1>8, <1>9, <1>10, <1>11 DEF ScheduleNext, Callback

(* No phase time of a valid schedule overflows once the epoch is accepted, and the parts of
   ScheduleFollowed are those of the invariant. *)
LEMMA InvFollowed == ScheduleInv => ScheduleFollowed
<1> SUFFICES ASSUME ScheduleInv PROVE ScheduleFollowed
  OBVIOUS
<1>1. RequestedFits
  <2> SUFFICES ASSUME epoch # 0, NEW i \in 1 .. 3 PROVE Requested(epoch, i) <= MaxInt
    BY DEF RequestedFits
  <2>1. schedule \in Schedules /\ Valid(schedule) /\ epoch \in Nat /\ epoch <= MaxInt - schedule.duration
    BY ScheduleAssumption DEF ScheduleInv, Started, ScheduleTypeOK
  <2>2. /\ schedule.phases[i].offset \in Nat /\ schedule.duration \in Nat
        /\ schedule.phases[i].offset < schedule.duration
    BY <2>1, ValidPhases
  <2> QED BY <2>1, <2>2, ScheduleAssumption DEF Requested
<1>2. PeriodMatchesEvidence
  BY DEF ScheduleInv, PeriodsJoin, PeriodMatchesEvidence
<1>3. FullPeriodAfterApply
  BY DEF ScheduleInv, FullPeriod, FullPeriodAfterApply
<1> QED BY <1>1, <1>2, <1>3 DEF ScheduleInv, ScheduleFollowed

(* A sensor with a source schedule changes its rate as the schedule says, for every
   schedule file and start file, however late its timer runs and wherever its process dies:
   sensor.hpp:92-115 keeps every part of ScheduleFollowed. *)
THEOREM Followed == ScheduleSpec => []ScheduleFollowed
<1>1. ScheduleSpec => []ScheduleInv
  BY InitInv, StepInv, PTL DEF ScheduleSpec
<1> QED BY <1>1, InvFollowed, PTL

(* No step, of a restarted process either, removes or changes a record of the evidence:
   Sensor::Sensor refuses a file that exists (sensor.hpp:52-55). *)
THEOREM NothingOverwritten == ScheduleSpec => EvidenceKept
<1> DEFINE Kept ==
      evidence # NoFile =>
          /\ evidence' # NoFile
          /\ \A i \in DOMAIN evidence : i \in DOMAIN evidence' /\ evidence'[i] = evidence[i]
<1>1. ScheduleInv /\ ScheduleInv' /\ [ScheduleNext]_scheduleVars => Kept
  <2> SUFFICES ASSUME ScheduleInv, ScheduleInv', [ScheduleNext]_scheduleVars, evidence # NoFile
               PROVE  /\ evidence' # NoFile
                      /\ \A i \in DOMAIN evidence :
                            i \in DOMAIN evidence' /\ evidence'[i] = evidence[i]
    OBVIOUS
  <2>1. evidence \in Seq(EvidenceRecord) /\ evidence' \in Seq(EvidenceRecord) \cup {NoFile}
    BY DEF ScheduleInv, ScheduleTypeOK
  <2>2. (epoch' # 0 /\ \E r : evidence' = Append(evidence, r)) \/ evidence' = evidence
    BY DEF ScheduleInv, Pending, ScheduleNext, Callback, scheduleVars, process, ScheduleTick, WriteStart, StartProcess,
       MayOpen, RefuseProcess, Crash, PollUnarmed, PollRejected, Poll, Skip, Exchange, Apply
  <2>3. ASSUME NEW r, evidence' = Append(evidence, r)
        PROVE  /\ evidence' \in Seq(EvidenceRecord \cup {r})
               /\ \A i \in DOMAIN evidence : i \in DOMAIN evidence' /\ evidence'[i] = evidence[i]
    <3>1. evidence \in Seq(EvidenceRecord \cup {r}) /\ r \in EvidenceRecord \cup {r}
      BY <2>1
    <3> QED BY <3>1, <2>3, AppendFacts
  <2>4. evidence' # NoFile
    BY <2>2 DEF ScheduleInv, Started
  <2> QED BY <2>2, <2>3, <2>4
<1>2. ScheduleSpec => []ScheduleInv
  BY InitInv, StepInv, PTL DEF ScheduleSpec
<1> QED BY <1>1, <1>2, PTL DEF ScheduleSpec, EvidenceKept
=============================================================================
