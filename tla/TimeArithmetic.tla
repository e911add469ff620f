--------------------------- MODULE TimeArithmetic ---------------------------
(***************************************************************************)
(* Time, Duration and GenericRate: their arithmetic on int64_t nanoseconds *)
(* and the conversions to and from messages with int32_t seconds, on       *)
(* integers of smaller widths. An operation that throws is "throws"; every *)
(* result is a record, [ns |-> ...] for a value.                           *)
(***************************************************************************)
EXTENDS Integers

CONSTANTS
    Second,      \* nanoseconds in a second
    Max64,       \* the largest int64_t; the smallest is -Max64 - 1
    Max32,       \* the largest int32_t
    MaxU32       \* the largest uint32_t

Min64 == -Max64 - 1
Min32 == -Max32 - 1
Int64 == Min64 .. Max64

Throws == [throws |-> TRUE]
Value(ns) == [throws |-> FALSE, ns |-> ns]

(* Conversion to a signed integer of the width of int32_t. *)
ToInt32(x) == ((x - Min32) % (2 * (Max32 + 1))) + Min32

(* std::div truncates: quot and rem have the sign of the dividend. *)
Abs(x) == IF x < 0 THEN -x ELSE x
Quot(x, d) == IF x < 0 THEN -(Abs(x) \div d) ELSE x \div d
Rem(x, d) == x - d * Quot(x, d)

-----------------------------------------------------------------------------
(* rclcpp::Time: nanoseconds of a clock. *)

TimeOf(seconds, nanoseconds) ==
    IF seconds < 0 THEN Throws ELSE Value(seconds * Second + nanoseconds)
TimeFromMessage(msg) ==
    IF msg.sec < 0 THEN Throws ELSE Value(msg.sec * Second + msg.nanosec)
TimeMax == TimeOf(Max32, Second - 1)

TimeToMessage(ns) ==
    IF Rem(ns, Second) >= 0
    THEN [sec |-> ToInt32(Quot(ns, Second)), nanosec |-> Rem(ns, Second)]
    ELSE [sec |-> ToInt32(Quot(ns, Second) - 1), nanosec |-> Second + Rem(ns, Second)]

add_will_overflow(x, y) == y > 0 /\ x > Max64 - y
add_will_underflow(x, y) == y < 0 /\ x < Min64 - y
sub_will_overflow_OneLate(x, y) == y < 0 /\ x > Max64 + y + 1
sub_will_overflow(x, y) == y < 0 /\ x > Max64 + y
sub_will_underflow(x, y) == y > 0 /\ x < Min64 + y

(* operator+ and operator+= with a Duration, on either side. *)
TimePlus(t, d) ==
    IF add_will_overflow(d, t) \/ add_will_underflow(d, t) THEN Throws ELSE Value(t + d)
DurationPlusTime(d, t) ==
    IF add_will_overflow(t, d) \/ add_will_underflow(t, d) THEN Throws ELSE Value(d + t)
TimePlusAssign(t, d) ==
    IF add_will_overflow(d, t) \/ add_will_underflow(d, t) THEN Throws ELSE Value(t + d)
TimeMinusAssign(t, d) ==
    IF sub_will_overflow(t, d) \/ sub_will_underflow(t, d) THEN Throws ELSE Value(t - d)
TimeMinusDuration(t, d) ==
    IF sub_will_overflow(t, d) \/ sub_will_underflow(t, d) THEN Throws ELSE Value(t - d)

(* operator- and the comparisons refuse times of different clocks. *)
TimeMinusTime(t, s) ==
    IF t.clock # s.clock \/ sub_will_overflow(t.ns, s.ns) \/ sub_will_underflow(t.ns, s.ns)
    THEN Throws ELSE Value(t.ns - s.ns)
TimeLess(t, s) ==
    IF t.clock # s.clock THEN Throws ELSE [throws |-> FALSE, less |-> t.ns < s.ns]

-----------------------------------------------------------------------------
(* rclcpp::Duration *)

DurationOf(seconds, nanoseconds) == seconds * Second + nanoseconds
DurationFromMessage(msg) == msg.sec * Second + msg.nanosec

(* A negative number of whole seconds has the remainder 0: it is not compared *)
(* with the smallest int32_t.                                                 *)
DurationToMessage(ns) ==
    LET quot == Quot(ns, Second) rem == Rem(ns, Second)
    IN  IF rem >= 0
        THEN IF quot > Max32 THEN [sec |-> Max32, nanosec |-> MaxU32]
             ELSE [sec |-> ToInt32(quot), nanosec |-> rem]
        ELSE IF quot <= Min32 THEN [sec |-> Min32, nanosec |-> 0]
             ELSE [sec |-> ToInt32(quot - 1), nanosec |-> Second + rem]

(* The absolute values are uint64_t: their sum wraps. *)
Unsigned(x) == x % (2 * (Max64 + 1))

bounds_check_duration_sum(lhs, rhs) ==
    /\ (lhs > 0 /\ rhs > 0) \/ (lhs < 0 /\ rhs < 0)
    /\ Unsigned(Abs(lhs) + Abs(rhs)) > Max64
bounds_check_duration_difference(lhs, rhs) ==
    /\ (lhs > 0 /\ rhs < 0) \/ (lhs < 0 /\ rhs > 0)
    /\ Unsigned(Abs(lhs) + Abs(rhs)) > Max64

DurationPlus(lhs, rhs) == IF bounds_check_duration_sum(lhs, rhs) THEN Throws ELSE Value(lhs + rhs)
DurationMinus(lhs, rhs) ==
    IF bounds_check_duration_difference(lhs, rhs) THEN Throws ELSE Value(lhs - rhs)

(* A scale is the fraction num / den, den > 0; infinities and NaN throw. *)
bounds_check_duration_scale(ns, num, den) ==
    Abs(num) > den /\ Abs(ns) > (Max64 * den) \div Abs(num)
DurationTimes(ns, num, den) ==
    IF den = 0 \/ bounds_check_duration_scale(ns, num, den) THEN Throws ELSE Value(Quot(ns * num, den))

to_rmw_time(ns) ==
    IF ns < 0 THEN Throws
    ELSE [throws |-> FALSE, sec |-> Quot(ns, Second), nsec |-> Rem(ns, Second)]

from_rmw_time(t) ==
    IF t.sec > Max64 \div Second \/ t.nsec > Max64 THEN Max64
    ELSE LET total == Unsigned(t.sec * Second + t.nsec) IN IF total > Max64 THEN Max64 ELSE total

-----------------------------------------------------------------------------
(* GenericRate::sleep at the time now: whether and how long it sleeps, and *)
(* the end of the interval that it keeps.                                  *)
RateSleep(last, period, now) ==
    LET next == (IF now < last THEN now ELSE last) + period
    IN  [slept |-> next > now, time |-> next - now,
         last |-> IF next <= now /\ now > next + period THEN now + period ELSE last + period]
=============================================================================
