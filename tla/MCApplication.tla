--------------------------- MODULE MCApplication ----------------------------
(***************************************************************************)
(* The parts of the reference system around its nodes: the tracking of     *)
(* callbacks, a sensor's source schedule and the merging of histories. A   *)
(* behaviour is one of one part, which says whose; the other parts stay as *)
(* they are initially.                                                     *)
(***************************************************************************)
EXTENDS Tracking, SourceSchedule, SampleHistory

VARIABLE which

-----------------------------------------------------------------------------
(* One good schedule and files that the constructor must refuse, for Schedules. *)
Phase(o, p) == [id |-> <<o, p>>, offset |-> o, period |-> p]
File(id, d, ps) == [identity |-> id, duration |-> d, phases |-> ps]

Good == File(TRUE, 5, <<Phase(0, 1), Phase(2, 3), Phase(4, 1)>>)

Files ==
    {Good,
     File(FALSE, 5, Good.phases),                                \* stale
     File(TRUE, 4, Good.phases),                                 \* a phase after the end
     File(TRUE, 5, <<Phase(0, 1), Phase(0, 3), Phase(4, 1)>>),   \* not increasing
     File(TRUE, 5, <<Phase(0, 1), Phase(2, 0), Phase(4, 1)>>),   \* no period
     File(TRUE, 5, [Good.phases EXCEPT ![3].id = <<0, 1>>]),     \* an id twice
     File(TRUE, 5, <<Phase(0, 1), Phase(2, 3), Phase(4, 2)>>)}   \* does not end as it began

-----------------------------------------------------------------------------
ApplicationInit ==
    /\ which \in {"tracking", "schedule", "history"}
    /\ Init /\ ScheduleInit /\ HistoryInit

ApplicationNext ==
    \/ which = "tracking" /\ Next /\ UNCHANGED <<which, scheduleVars, historyVars>>
    \/ which = "schedule" /\ ScheduleNext /\ UNCHANGED <<which, vars, historyVars>>
    \/ which = "history" /\ HistoryNext /\ UNCHANGED <<which, vars, scheduleVars>>

(* The fairness of each part: Tracking's needs no mention of which, because none of *)
(* its fair actions is possible before the part has taken a step.                   *)
ApplicationSpec ==
    /\ ApplicationInit
    /\ [][ApplicationNext]_<<which, vars, scheduleVars, historyVars>>
    /\ Fairness
    /\ WF_scheduleVars(which = "schedule" /\ ScheduleTick)
    /\ WF_scheduleVars(which = "schedule" /\ Callback)

=============================================================================
