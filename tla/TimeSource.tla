------------------------------- MODULE TimeSource -------------------------------
(***************************************************************************)
(* TimeSource with its ClocksState and NodeState: the use_sim_time parameter *)
(* switches the attached clocks between system time and the time of /clock   *)
(* messages, which a thread of its own may receive.  One thread sleeps with  *)
(* Clock::sleep_until on one of the clocks while the source, the time and    *)
(* the context change under it.                                              *)
(***************************************************************************)
EXTENDS Naturals, FiniteSets

CONSTANTS Clocks,
          Slept,          \* the clock the sleeping thread uses
          UseClockThread, \* whether /clock has its own executor thread
          MayDelete,      \* whether use_sim_time is undeclared
          MayShutdown,
          MaxTime,        \* bound on system and simulated time
          MaxEvents       \* bound on parameter events, messages and attachments

Assumption ==
    /\ Slept \in Clocks /\ {UseClockThread, MayDelete, MayShutdown} \subseteq BOOLEAN
    /\ MaxTime \in Nat \ {0} /\ MaxEvents \in Nat

Times == 0..MaxTime

VARIABLES
    attached,         \* associated_clocks_
    active, time,     \* a clock's ROS time override: enabled, and its value
    ros_time_active,  \* ros_time_active_ of ClocksState
    last,             \* time of last_msg_set_, 0 if there is none
    parameter_state,
    wanted,           \* the value of use_sim_time, "none" before a node is attached
    subscribed,       \* clock_subscription_, and its thread if it has one
    ppc,              \* the thread in on_parameter_event or attachNode
    cpc, msg,         \* the thread in clock_cb, and its message
    system,           \* system time
    ok,               \* whether the context is valid
    sleeper,          \* Clock::sleep_until: [pc, until, ros, changed]
    switched,         \* whether the slept clock changed its source since the sleep began
    result, events

vars == <<attached, active, time, ros_time_active, last, parameter_state, wanted, subscribed, ppc, cpc, msg,
          system, ok, sleeper, switched, result, events>>
clockVars == <<active, time, sleeper, switched>>
nodeVars == <<parameter_state, wanted, subscribed>>
worldVars == <<system, ok, result>>

Awake == [pc |-> "idle", until |-> 0, ros |-> FALSE, changed |-> FALSE]

(* parameter_state_ has no initializer. *)
Init ==
    /\ attached = {} /\ active = [c \in Clocks |-> FALSE] /\ time = [c \in Clocks |-> 0]
    /\ ros_time_active = FALSE /\ last = 0
    /\ parameter_state \in {"UNSET", "SET_TRUE", "SET_FALSE"}
    /\ wanted = "none" /\ subscribed = FALSE
    /\ ppc = "idle" /\ cpc = "idle" /\ msg = 0 /\ system = 0 /\ ok = TRUE
    /\ sleeper = Awake /\ switched = FALSE /\ result = "none" /\ events = 0

Counted == events < MaxEvents /\ events' = events + 1

(* Clock::now *)
now(c) == IF active[c] THEN time[c] ELSE system

(* sleep_until holds the clock's mutex from its test to the wait. *)
ClockMutexFree(S) == Slept \in S => sleeper.pc # "sleep"

(* The jump callback of sleep_until notifies of a changed source and of every move. *)
JumpNotifies(switch, moved) == switch \/ moved

(* set_clock on the clocks of S, each under its mutex: the override is switched and set,
   and the jump callback of the sleeper called when that moves its clock. *)
set_clock(S, t, enabled) ==
    LET switch == Slept \in S /\ active[Slept] # enabled
        moved == Slept \in S /\ active[Slept] /\ enabled /\ time[Slept] # t
        notify == JumpNotifies(switch, moved)
    IN /\ ClockMutexFree(S)
       /\ active' = [c \in Clocks |-> IF c \in S THEN enabled ELSE active[c]]
       /\ time' = [c \in Clocks |-> IF c \in S THEN t ELSE time[c]]
       /\ switched' = (switched \/ switch)
       /\ sleeper' = [sleeper EXCEPT
              !.changed = @ \/ (switch /\ sleeper.pc \notin {"idle", "begin"}),
              !.pc = IF notify /\ @ = "blocked" THEN "loop" ELSE @]

-----------------------------------------------------------------------------
(* ClocksState::attachClock and detachClock, from a user's thread. *)
attachClock(c) ==
    /\ c \notin attached /\ Counted
    /\ attached' = attached \cup {c}
    /\ set_clock({c}, last, ros_time_active)
    /\ UNCHANGED <<ros_time_active, last, nodeVars, ppc, cpc, msg, worldVars>>

detachClock(c) ==
    /\ c \in attached /\ Counted
    /\ attached' = attached \ {c}
    /\ UNCHANGED <<clockVars, ros_time_active, last, nodeVars, ppc, cpc, msg, worldVars>>

(* NodeState::attachNode reads or declares use_sim_time. *)
attachNode(v) ==
    /\ wanted = "none" /\ Counted
    /\ wanted' = v
    /\ IF v = "true" THEN parameter_state' = "SET_TRUE" /\ ppc' = "enable"
       ELSE UNCHANGED <<parameter_state, ppc>>
    /\ UNCHANGED <<attached, clockVars, ros_time_active, last, subscribed, cpc, msg, worldVars>>

(* on_parameter_event, for a new or changed and for a deleted use_sim_time.  Without a
   clock thread both callbacks are in the node's mutually exclusive group. *)
on_parameter_event(v) ==
    /\ wanted # "none" /\ ppc = "idle" /\ Counted
    /\ UseClockThread \/ cpc = "idle"
    /\ wanted' = v
    /\ parameter_state' = IF v = "true" THEN "SET_TRUE" ELSE "SET_FALSE"
    /\ ppc' = IF v = "true" THEN "enable" ELSE "destroy"
    /\ UNCHANGED <<attached, clockVars, ros_time_active, last, subscribed, cpc, msg, worldVars>>

DeletedEvent ==
    /\ MayDelete /\ wanted # "none" /\ ppc = "idle" /\ Counted
    /\ UseClockThread \/ cpc = "idle"
    /\ parameter_state' = "UNSET"
    /\ UNCHANGED <<attached, clockVars, ros_time_active, last, wanted, subscribed, ppc, cpc, msg, worldVars>>

-----------------------------------------------------------------------------
(* enable_ros_time: the flag first, then the clocks under the lock of their list. *)
Enable ==
    /\ ppc = "enable"
    /\ ppc' = IF ros_time_active THEN "create" ELSE "enable_clocks"
    /\ ros_time_active' = TRUE
    /\ UNCHANGED <<attached, clockVars, last, nodeVars, cpc, msg, worldVars, events>>

EnableClocks ==
    /\ ppc = "enable_clocks" /\ ppc' = "create"
    /\ set_clock(attached, last, TRUE)
    /\ UNCHANGED <<attached, ros_time_active, last, nodeVars, cpc, msg, worldVars, events>>

create_clock_sub ==
    /\ ppc = "create" /\ ppc' = "idle"
    /\ subscribed' = TRUE
    /\ UNCHANGED <<attached, clockVars, ros_time_active, last, parameter_state, wanted, cpc, msg, worldVars,
                   events>>

(* destroy_clock_sub joins the clock thread before it drops the subscription. *)
destroy_clock_sub ==
    /\ ppc = "destroy" /\ cpc = "idle" /\ ppc' = "disable"
    /\ subscribed' = FALSE
    /\ UNCHANGED <<attached, clockVars, ros_time_active, last, parameter_state, wanted, cpc, msg, worldVars,
                   events>>

Disable ==
    /\ ppc = "disable"
    /\ ppc' = IF ros_time_active THEN "disable_clocks" ELSE "idle"
    /\ ros_time_active' = FALSE
    /\ UNCHANGED <<attached, clockVars, last, nodeVars, cpc, msg, worldVars, events>>

DisableClocks ==
    /\ ppc = "disable_clocks" /\ ppc' = "idle"
    /\ set_clock(attached, 0, FALSE)
    /\ UNCHANGED <<attached, ros_time_active, last, nodeVars, cpc, msg, worldVars, events>>

detachNode_KeepsSubscription ==
    /\ wanted # "none" /\ ppc = "idle" /\ cpc = "idle" /\ Counted
    /\ wanted' = "none" /\ UNCHANGED subscribed
    /\ IF ros_time_active THEN set_clock(attached, 0, FALSE) ELSE UNCHANGED clockVars
    /\ ros_time_active' = FALSE /\ attached' = {} /\ last' = 0
    /\ parameter_state' \in {"UNSET", "SET_TRUE", "SET_FALSE"}
    /\ UNCHANGED <<ppc, cpc, msg, worldVars>>

(* TimeSource::detachNode: the subscription goes, the clocks are disabled, and a new
   NodeState starts with none. *)
detachNode ==
    /\ wanted # "none" /\ ppc = "idle" /\ cpc = "idle" /\ Counted
    /\ wanted' = "none" /\ subscribed' = FALSE
    /\ IF ros_time_active THEN set_clock(attached, 0, FALSE) ELSE UNCHANGED clockVars
    /\ ros_time_active' = FALSE /\ attached' = {} /\ last' = 0
    /\ parameter_state' \in {"UNSET", "SET_TRUE", "SET_FALSE"}
    /\ UNCHANGED <<ppc, cpc, msg, worldVars>>

-----------------------------------------------------------------------------
(* clock_cb: a message of the simulator arrives; its time may be earlier.  ROS time is
   enabled if it should be, and the clocks then shown the message. *)
ClockMessage(t) ==
    /\ subscribed /\ cpc = "idle" /\ Counted
    /\ UseClockThread \/ ppc = "idle"
    /\ ros_time_active' = (ros_time_active \/ parameter_state = "SET_TRUE")
    /\ msg' = t /\ cpc' = "cache"
    /\ UNCHANGED <<attached, clockVars, last, nodeVars, ppc, worldVars>>

(* The message is kept, then shown by all clocks if the parameter still says so. *)
cache_last_msg ==
    /\ cpc = "cache" /\ last' = msg
    /\ cpc' = IF parameter_state = "SET_TRUE" THEN "set" ELSE "idle"
    /\ UNCHANGED <<attached, clockVars, ros_time_active, nodeVars, ppc, msg, worldVars, events>>

set_all_clocks ==
    /\ cpc = "set" /\ cpc' = "idle"
    /\ set_clock(attached, msg, TRUE)
    /\ UNCHANGED <<attached, ros_time_active, last, nodeVars, ppc, msg, worldVars, events>>

-----------------------------------------------------------------------------
(* Clock::sleep_until on a ROS clock: the shutdown callback and the jump handler are
   added before the source is looked at. *)
sleep_until(u) ==
    /\ sleeper.pc = "idle" /\ ok /\ result = "none"
    /\ sleeper' = [Awake EXCEPT !.pc = "mode", !.until = u]
    /\ switched' = FALSE
    /\ UNCHANGED <<attached, active, time, ros_time_active, last, nodeVars, ppc, cpc, msg, worldVars, events>>

SleepMode ==
    /\ sleeper.pc = "mode"
    /\ sleeper' = [sleeper EXCEPT !.pc = "loop", !.ros = active[Slept]]
    /\ UNCHANGED <<attached, active, time, switched, ros_time_active, last, nodeVars, ppc, cpc, msg,
                   worldVars, events>>

(* The loop's test, under the clock's mutex. *)
SleepLoop ==
    /\ sleeper.pc = "loop"
    /\ sleeper' = [sleeper EXCEPT !.pc =
                     IF now(Slept) < sleeper.until /\ ok /\ ~sleeper.changed THEN "sleep" ELSE "leave"]
    /\ UNCHANGED <<attached, active, time, switched, ros_time_active, last, nodeVars, ppc, cpc, msg,
                   worldVars, events>>

SleepWait ==
    /\ sleeper.pc = "sleep"
    /\ sleeper' = [sleeper EXCEPT !.pc = "blocked"]
    /\ UNCHANGED <<attached, active, time, switched, ros_time_active, last, nodeVars, ppc, cpc, msg,
                   worldVars, events>>

(* cv.wait_until of a sleep on system time; one on ROS time waits without a limit. *)
SleepTimesOut ==
    /\ sleeper.pc = "blocked" /\ ~sleeper.ros /\ system >= sleeper.until
    /\ sleeper' = [sleeper EXCEPT !.pc = "loop"]
    /\ UNCHANGED <<attached, active, time, switched, ros_time_active, last, nodeVars, ppc, cpc, msg,
                   worldVars, events>>

SleepLeave ==
    /\ sleeper.pc = "leave"
    /\ result' = IF ok /\ ~sleeper.changed /\ now(Slept) >= sleeper.until THEN "true" ELSE "false"
    /\ sleeper' = [sleeper EXCEPT !.pc = "idle"]
    /\ UNCHANGED <<attached, active, time, switched, ros_time_active, last, nodeVars, ppc, cpc, msg, system,
                   ok, events>>

(* Context::shutdown notifies the sleeper, without the clock's mutex. *)
Shutdown ==
    /\ MayShutdown /\ ok /\ ok' = FALSE
    /\ sleeper' = [sleeper EXCEPT !.pc = IF @ = "blocked" THEN "loop" ELSE @]
    /\ UNCHANGED <<attached, active, time, switched, ros_time_active, last, nodeVars, ppc, cpc, msg, system,
                   result, events>>

Tick ==
    /\ system < MaxTime /\ system' = system + 1
    /\ UNCHANGED <<attached, clockVars, ros_time_active, last, nodeVars, ppc, cpc, msg, ok, result, events>>

ParameterThread == Enable \/ EnableClocks \/ create_clock_sub \/ destroy_clock_sub \/ Disable \/ DisableClocks
ClockThread == cache_last_msg \/ set_all_clocks
Sleeper == SleepMode \/ SleepLoop \/ SleepWait \/ SleepTimesOut \/ SleepLeave

Next ==
    \/ \E c \in Clocks : attachClock(c) \/ detachClock(c)
    \/ \E v \in {"true", "false"} : attachNode(v) \/ on_parameter_event(v)
    \/ DeletedEvent \/ ParameterThread \/ detachNode
    \/ \E t \in Times \ {0} : ClockMessage(t)
    \/ ClockThread
    \/ \E u \in Times \ {0} : sleep_until(u)
    \/ Sleeper \/ Shutdown \/ Tick

Spec == Init /\ [][Next]_vars

Fairness == WF_vars(ParameterThread) /\ WF_vars(ClockThread) /\ WF_vars(Sleeper) /\ WF_vars(Tick)

FairSpec == Spec /\ Fairness

-----------------------------------------------------------------------------
Quiet == ppc = "idle" /\ cpc = "idle"

(* The shapes of the state; the subscription exists only while a node is attached. *)
TimeTypeOK ==
    /\ attached \subseteq Clocks /\ last \in Times /\ msg \in Times
    /\ \A c \in Clocks : active[c] \in BOOLEAN /\ time[c] \in Times
    /\ parameter_state \in {"UNSET", "SET_TRUE", "SET_FALSE"}
    /\ subscribed => wanted # "none"
    /\ sleeper.pc \in {"idle", "mode", "loop", "sleep", "blocked", "leave"}

(* Between callbacks every attached clock follows use_sim_time: overridden exactly when
   the parameter is true, whatever clock message raced with the change. *)
ClocksFollowParameter ==
    Quiet /\ ~MayDelete =>
        /\ ros_time_active = (wanted = "true")
        /\ \A c \in attached : active[c] = ros_time_active

(* An overridden clock shows the time of the last message: a clock attached, or enabled,
   while a message is being shown does not fall behind. *)
ClocksShowLast == Quiet /\ ~MayDelete => \A c \in attached : active[c] => time[c] = last

(* sleep_until says true only if its clock reached the time without changing its source
   since the sleep began. *)
SleepNotFooled == result' = "true" /\ result # "true" => ~switched

Asleep == sleeper.pc = "blocked"
TooEarly == now(Slept) < sleeper.until

=============================================================================
