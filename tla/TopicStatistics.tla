-------------------------- MODULE TopicStatistics ---------------------------
(***************************************************************************)
(* SubscriptionTopicStatistics: handle_message feeds every collector under *)
(* mutex_, the publisher timer reads the clock, takes and clears the       *)
(* measurements under mutex_, publishes, and only then moves the window.   *)
(* Timer callbacks hold the object through a weak pointer.                 *)
(***************************************************************************)
EXTENDS Integers, FiniteSets, Sequences

CONSTANTS
    Collectors,   \* the age and the period of received messages
    Timers,       \* threads that run the publisher timer's callback
    MaxMessages,  \* bound: messages received
    MaxTime,      \* bound: the clock
    MaxWindows    \* bound: windows that are published

VARIABLES
    alive,        \* the object, not torn down
    measured,     \* for each collector, the messages since it was cleared
    window_start_,
    received,     \* messages handed to handle_message
    now,
    pc, end, taken,   \* of each timer thread: where it is, window_end, msgs
    sent          \* the published statistics, in order

vars == <<alive, measured, window_start_, received, now, pc, end, taken, sent>>

Init ==
    /\ alive = TRUE
    /\ measured = [c \in Collectors |-> {}]
    /\ window_start_ = 0
    /\ received = 0
    /\ now = 0
    /\ pc = [t \in Timers |-> "idle"]
    /\ end = [t \in Timers |-> 0]
    /\ taken = [t \in Timers |-> <<>>]
    /\ sent = <<>>

Tick ==
    /\ now < MaxTime
    /\ now' = now + 1
    /\ UNCHANGED <<alive, measured, window_start_, received, pc, end, taken, sent>>

(* Every collector gets the message under one lock. *)
handle_message(m) ==
    /\ alive /\ received < MaxMessages /\ m = received + 1
    /\ received' = m
    /\ measured' = [c \in Collectors |-> measured[c] \cup {m}]
    /\ UNCHANGED <<alive, window_start_, now, pc, end, taken, sent>>

(* publish_message_and_reset_measurements: window_end is read before the lock. *)
PublishBegin(t) ==
    /\ alive /\ pc[t] = "idle"
    /\ Len(sent) + Cardinality({u \in Timers : pc[u] # "idle"}) < MaxWindows
    /\ end' = [end EXCEPT ![t] = now]
    /\ pc' = [pc EXCEPT ![t] = "read"]
    /\ UNCHANGED <<alive, measured, window_start_, received, now, taken, sent>>

Message(c, t) == [metric |-> c, start |-> window_start_, stop |-> end[t], of |-> measured[c]]

PublishCollect(t) ==
    /\ pc[t] = "read"
    /\ taken' = [taken EXCEPT ![t] = [c \in Collectors |-> Message(c, t)]]
    /\ measured' = [c \in Collectors |-> {}]
    /\ pc' = [pc EXCEPT ![t] = "taken"]
    /\ UNCHANGED <<alive, window_start_, received, now, end, sent>>

PublishEnd(t) ==
    /\ pc[t] = "taken"
    /\ sent' = Append(sent, taken[t])
    /\ taken' = [taken EXCEPT ![t] = <<>>]
    /\ window_start_' = end[t]
    /\ pc' = [pc EXCEPT ![t] = "idle"]
    /\ UNCHANGED <<alive, measured, received, now, end>>

(* The last owner is gone: no timer callback holds the object. The timer is    *)
(* cancelled; a callback that starts later finds the weak pointer empty.       *)
tear_down ==
    /\ alive /\ \A t \in Timers : pc[t] = "idle"
    /\ alive' = FALSE
    /\ measured' = [c \in Collectors |-> {}]
    /\ UNCHANGED <<window_start_, received, now, pc, end, taken, sent>>

Next ==
    \/ Tick
    \/ \E m \in 1 .. MaxMessages : handle_message(m)
    \/ \E t \in Timers : PublishBegin(t) \/ PublishCollect(t) \/ PublishEnd(t)
    \/ tear_down

Spec == Init /\ [][Next]_vars

-----------------------------------------------------------------------------
(* Every received message is in exactly one window of every metric: measured,   *)
(* taken by a timer callback that has not published yet, or published.          *)
MeasuredOnce ==
    alive => \A c \in Collectors, m \in 1 .. received :
        Cardinality({w \in {"measured"} : m \in measured[c]})
          + Cardinality({t \in Timers : pc[t] = "taken" /\ m \in taken[t][c].of})
          + Cardinality({i \in DOMAIN sent : m \in sent[i][c].of}) = 1

(* With one timer callback at a time the windows follow each other without a gap. *)
WindowsMeet ==
    Cardinality(Timers) = 1 =>
        \A c \in Collectors : \A i \in 1 .. Len(sent) - 1 : sent[i + 1][c].start = sent[i][c].stop
=============================================================================
