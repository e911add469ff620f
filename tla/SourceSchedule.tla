--------------------------- MODULE SourceSchedule ---------------------------
(***************************************************************************)
(* A Sensor with a source schedule. Its timer callback polls a start file, *)
(* and from the epoch found there changes the period of its own timer at   *)
(* the offsets of three phases, leaving one evidence record per phase. Any *)
(* failure is an exception that ends the process; a restarted process must *)
(* not overwrite the evidence of the one before. The start file is written *)
(* by an external coordinator, possibly while the sensor reads it.         *)
(***************************************************************************)
EXTENDS Integers, Sequences

CONSTANTS
    Schedules,      \* the schedule files a process may be started with
    Epochs,         \* the epochs a coordinator may write
    Initial,        \* settings.cycle_time
    MaxInt,         \* the largest int64_t
    NoFile,         \* the content of a file that does not exist
    MaxMonotonic,   \* bound: CLOCK_MONOTONIC values
    MaxStarts       \* bound: processes started

StartRecord == [valid : BOOLEAN, epoch : Epochs]
Statuses == {"skipped", "applied"}
EvidenceRecord ==
    [phase : 1 .. 3, status : Statuses, requested : Int, t : Nat, old : Nat, new : Nat]

ASSUME ScheduleAssumption ==
    /\ \A s \in Schedules :
          /\ s.identity \in BOOLEAN         \* well-formed, for this source, boot and instance
          /\ s.duration \in Int
          /\ DOMAIN s.phases = 1 .. Len(s.phases)
          /\ \A i \in DOMAIN s.phases : s.phases[i].offset \in Int /\ s.phases[i].period \in Int
    /\ Epochs \subseteq Int
    /\ Initial \in Nat \ {0}
    /\ MaxInt \in Nat
    /\ MaxMonotonic \in Nat
    /\ MaxStarts \in Nat
    /\ NoFile \notin StartRecord
    /\ NoFile \notin Seq(EvidenceRecord)

VARIABLES
    monotonic,  \* CLOCK_MONOTONIC
    start,      \* the start file: NoFile, or what reading it yields
    evidence,   \* the source-applications file: NoFile, or its records
    state,      \* "down", or where the sensor's callback is
    schedule,   \* what the constructor read
    epoch,      \* epoch_, 0 until the start file has been read
    next,       \* next_, counted from 1
    due,        \* what is left of the result of due() in the running callback
    old_period, \* what rcl_timer_exchange_period returned
    period,     \* the timer's period
    next_call,  \* when the timer expires
    since,      \* history: when the timer was last reset
    polled,     \* history: when due() was last asked
    starts

process == <<schedule, epoch, next, due, old_period, period, next_call, since,
             polled>>
scheduleVars == <<monotonic, start, evidence, state, process, starts>>

States == {"down", "waiting", "handling", "applying"}

ScheduleTypeOK ==
    /\ monotonic \in 0 .. MaxMonotonic
    /\ start \in StartRecord \cup {NoFile}
    /\ evidence \in Seq(EvidenceRecord) \cup {NoFile}
    /\ state \in States
    /\ state # "down" => schedule \in Schedules /\ evidence # NoFile
    /\ next \in 1 .. 4
    /\ due \in SUBSET (1 .. 3)
    /\ state \in {"handling", "applying"} => due # {}
    /\ epoch \in 0 .. MaxInt
    /\ old_period \in Nat
    /\ since \in Nat
    /\ polled \in Nat
    /\ period \in Nat \ {0}
    /\ next_call \in Nat
    /\ starts \in 0 .. MaxStarts

ScheduleInit ==
    /\ monotonic = 0
    /\ start = NoFile
    /\ evidence = NoFile
    /\ state = "down"
    /\ schedule = NoFile
    /\ epoch = 0
    /\ next = 1
    /\ due = {}
    /\ old_period = 0
    /\ period = Initial
    /\ next_call = 0
    /\ since = 0
    /\ polled = 0
    /\ starts = 0

ScheduleTick ==
    /\ monotonic < MaxMonotonic
    /\ monotonic' = monotonic + 1
    /\ UNCHANGED <<start, evidence, state, process, starts>>

(* The coordinator writes the start file: what a reader sees first may be *)
(* incomplete or stale, and is replaced by the complete record later.     *)
WriteStart(valid, e) ==
    /\ start # NoFile => ~start.valid
    /\ start' = [valid |-> valid, epoch |-> e]
    /\ UNCHANGED <<monotonic, evidence, state, process, starts>>

-----------------------------------------------------------------------------
(* The constructor: the schedule's identity, three phases that begin at 0 in *)
(* increasing order within the duration, and the first period, which is also *)
(* the last, equal to the period the sensor is configured with.              *)
Valid(s) ==
    /\ s.identity
    /\ s.duration > 0
    /\ Len(s.phases) = 3
    /\ \A i \in 1 .. 3 :
          /\ s.phases[i].period > 0
          /\ s.phases[i].offset \in 0 .. s.duration - 1
          /\ IF i = 1 THEN s.phases[i].offset = 0
             ELSE s.phases[i].offset > s.phases[i - 1].offset
    /\ \A i, j \in 1 .. 3 : s.phases[i].id = s.phases[j].id => i = j
    /\ s.phases[1].period = Initial
    /\ s.phases[3].period = s.phases[1].period

(* A file left by an earlier process is never opened. *)
MayOpen_Anyway == TRUE
MayOpen == evidence = NoFile

(* Sensor::Sensor: opening the evidence file creates it empty. If a check fails *)
(* the exception leaves the process down.                                       *)
StartProcess(s) ==
    /\ state = "down"
    /\ starts < MaxStarts
    /\ starts' = starts + 1
    /\ Valid(s) /\ MayOpen
    /\ state' = "waiting"
    /\ schedule' = s
    /\ evidence' = <<>>
    /\ epoch' = 0
    /\ next' = 1
    /\ due' = {}
    /\ old_period' = 0
    /\ period' = Initial
    /\ next_call' = monotonic + Initial
    /\ since' = monotonic
    /\ polled' = monotonic
    /\ UNCHANGED <<monotonic, start>>

RefuseProcess(s) ==
    /\ state = "down"
    /\ starts < MaxStarts
    /\ starts' = starts + 1
    /\ ~(Valid(s) /\ MayOpen)
    /\ UNCHANGED <<monotonic, start, evidence, state, process>>

(* The process is killed, or a record cannot be written, at any point. *)
Crash ==
    /\ state # "down"
    /\ state' = "down"
    /\ UNCHANGED <<monotonic, start, evidence, process, starts>>

-----------------------------------------------------------------------------
(* requested(index) *)
Requested(e, i) == e + schedule.phases[i].offset

(* The start record is accepted: its identity is this session's and its epoch *)
(* leaves room for the whole schedule in an int64_t.                          *)
Accepted == start.valid /\ start.epoch > 0 /\ start.epoch <= MaxInt - schedule.duration

(* due(now), once the epoch e is known: the phases from next_ on, up to the first *)
(* whose time has not come.                                                       *)
DueAt_LastHeldBack(e, now) == {i \in next .. 2 : \A j \in next .. i : now >= Requested(e, j)}
DueAt(e, now) == {i \in next .. 3 : \A j \in next .. i : now >= Requested(e, j)}

(* rcl_timer_call moves the expiry on by whole periods past the present. *)
NextCall == LET n == next_call + period
            IN  IF n < monotonic THEN n + (1 + (monotonic - n) \div period) * period ELSE n

Expired == state = "waiting" /\ monotonic >= next_call

(* The timer expires and the schedule has not been started: nothing to do. *)
PollUnarmed ==
    /\ Expired
    /\ epoch = 0
    /\ start = NoFile
    /\ next_call' = NextCall
    /\ UNCHANGED <<monotonic, start, evidence, state, schedule, epoch, next, due, old_period,
                   period, since, polled, starts>>

(* due() throws on a start file that is incomplete, stale or out of range. *)
PollRejected ==
    /\ Expired
    /\ epoch = 0
    /\ start # NoFile
    /\ ~Accepted
    /\ state' = "down"
    /\ UNCHANGED <<monotonic, start, evidence, process, starts>>

(* due() returns the phases to handle, after it has read the epoch if need be. *)
Poll ==
    /\ Expired
    /\ epoch = 0 => start # NoFile /\ Accepted
    /\ LET e == IF epoch = 0 THEN start.epoch ELSE epoch
       IN  /\ epoch' = e
           /\ due' = DueAt(e, monotonic)
           /\ state' = IF DueAt(e, monotonic) = {} THEN "waiting" ELSE "handling"
    /\ polled' = monotonic
    /\ next_call' = NextCall
    /\ UNCHANGED <<monotonic, start, evidence, schedule, next, old_period, period, since, starts>>

PhaseRecord(i, status, old, new) ==
    [phase |-> i, status |-> status, requested |-> Requested(epoch, i), t |-> monotonic,
     old |-> old, new |-> new]

(* All due phases but the last are recorded as skipped, in their order, with the *)
(* current period.                                                               *)
Skip(i) ==
    /\ state = "handling"
    /\ \A j \in due : i <= j
    /\ due # {i}
    /\ evidence' = Append(evidence, PhaseRecord(i, "skipped", period, period))
    /\ due' = due \ {i}
    /\ UNCHANGED <<monotonic, start, state, schedule, epoch, next, old_period, period, next_call,
                   since, polled, starts>>

(* rcl_timer_exchange_period and reset(). *)
NewPeriod(i) == schedule.phases[i].period

AfterReset_Missing(p) == next_call
AfterReset(p) == monotonic + p

Exchange(i) ==
    /\ state = "handling"
    /\ due = {i}
    /\ period' = NewPeriod(i)
    /\ next_call' = AfterReset(NewPeriod(i))
    /\ since' = monotonic
    /\ old_period' = period
    /\ state' = "applying"
    /\ UNCHANGED <<monotonic, start, evidence, schedule, epoch, next, due, polled, starts>>

(* applied(index) *)
NextAfter(i) == i + 1

Apply(i) ==
    /\ state = "applying"
    /\ evidence' = Append(evidence, PhaseRecord(i, "applied", old_period, NewPeriod(i)))
    /\ next' = NextAfter(i)
    /\ due' = {}
    /\ state' = "waiting"
    /\ UNCHANGED <<monotonic, start, schedule, epoch, old_period, period, next_call, since, polled,
                   starts>>

Callback ==
    \/ PollUnarmed \/ PollRejected \/ Poll
    \/ \E i \in due : Skip(i) \/ Exchange(i) \/ Apply(i)

ScheduleNext ==
    \/ ScheduleTick
    \/ \E valid \in BOOLEAN, e \in Epochs : WriteStart(valid, e)
    \/ \E s \in Schedules : StartProcess(s) \/ RefuseProcess(s)
    \/ Crash
    \/ Callback

ScheduleSpec == ScheduleInit /\ [][ScheduleNext]_scheduleVars

(* Time passes, and the executor runs an expired timer's callback to its end. *)
ScheduleFairness == WF_scheduleVars(ScheduleTick) /\ WF_scheduleVars(Callback)

-----------------------------------------------------------------------------
Records == IF evidence = NoFile THEN <<>> ELSE evidence

(* The evidence of a session tells each phase once and in order, whatever was *)
(* missed, wherever the process died and however often it was restarted.      *)
PhasesOnceInOrder == \A i \in DOMAIN Records : Records[i].phase = i

(* No phase takes effect before its time, and one is only skipped when the one *)
(* after it is due as well.                                                    *)
NeverEarly ==
    \A i \in DOMAIN Records :
        /\ Records[i].t >= Records[i].requested
        /\ Records[i].status = "skipped" =>
              Records[i].t >= Requested(epoch, Records[i].phase + 1)

(* The period that is in effect after the first n records, by the evidence. *)
PeriodAfter(n) == IF n = 0 THEN Initial ELSE Records[n].new

(* Between callbacks the timer runs with the period that the evidence says was *)
(* applied last, and the recorded changes of period join up.                   *)
PeriodMatchesEvidence ==
    /\ state = "waiting" => period = PeriodAfter(Len(Records))
    /\ \A i \in DOMAIN Records :
          /\ Records[i].old = PeriodAfter(i - 1)
          /\ Records[i].status = "skipped" => Records[i].new = Records[i].old

(* After a change of period the next sample comes a full new period later, not *)
(* at the expiry the old period had scheduled.                                 *)
FullPeriodAfterApply == state = "waiting" => next_call >= since + period

(* No phase time overflows an int64_t. *)
RequestedFits == state # "down" /\ epoch # 0 => \A i \in 1 .. 3 : Requested(epoch, i) <= MaxInt

(* A sensor with a schedule changes its rate as the schedule says, however late its timer,
   wherever the process dies and however often it is restarted: the evidence tells each
   phase once and in order, no phase takes effect before its time or is skipped without
   need, the timer runs with the period recorded last, for a full period after each change,
   and no phase time overflows (source_schedule.hpp, sensor.hpp:92-115). *)
ScheduleFollowed ==
    /\ ScheduleTypeOK /\ PhasesOnceInOrder /\ NeverEarly
    /\ PeriodMatchesEvidence /\ FullPeriodAfterApply /\ RequestedFits

(* Evidence is only ever added to: not even a restarted process discards it
   (sensor.hpp:52-55). *)
EvidenceKept ==
    [][evidence # NoFile =>
          /\ evidence' # NoFile
          /\ \A i \in DOMAIN evidence :
                i \in DOMAIN evidence' /\ evidence'[i] = evidence[i]]_scheduleVars

(* Once a sensor has read the epoch of a schedule that ends within the run, it *)
(* applies the last phase and is back at its configured period, unless it dies *)
(* or the run ends before the timer expires again after the phase is due.      *)
FinalPhaseApplied ==
    (state # "down" /\ epoch # 0 /\ Requested(epoch, 3) <= MaxMonotonic) ~>
        \/ state = "down"
        \/ Len(Records) = 3 /\ Records[3].status = "applied" /\ period = Initial
        \/ polled < Requested(epoch, 3) /\ next_call > MaxMonotonic
=============================================================================
