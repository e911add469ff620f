---------------------------- MODULE NodeOptions -----------------------------
(***************************************************************************)
(* rclcpp::NodeOptions: the options of rcl are built from five of the      *)
(* settings when they are first asked for, and kept until one of the five  *)
(* changes. Arguments are "none", "known", "unknown" (an unknown ROS       *)
(* argument) or "broken" (rcl cannot parse them).                          *)
(***************************************************************************)
EXTENDS Integers

CONSTANTS
    Objects,      \* instances of NodeOptions
    Arguments,    \* the arguments they may be given
    None

VARIABLES
    settings,     \* of each object
    node_options_,\* the rcl options it keeps, or None
    answer        \* the last call of get_rcl_node_options

vars == <<settings, node_options_, answer>>

(* "rest" stands for every setting that rcl's options do not hold. *)
Fields == {"arguments", "use_global_arguments", "enable_rosout", "rosout_qos", "allocator", "rest"}
Values(f) == IF f = "arguments" THEN Arguments ELSE 0 .. 1

Initially == [f \in Fields |-> IF f = "arguments" THEN "none" ELSE 0]

Init ==
    /\ settings = [o \in Objects |-> Initially]
    /\ node_options_ = [o \in Objects |-> None]
    /\ answer = None

(* The part of the settings that rcl's options are made of. *)
Built(s) == [f \in Fields \ {"rest"} |-> s[f]]

Set(o, f, v) == settings' = [settings EXCEPT ![o][f] = v]
Reset(o) == node_options_' = [node_options_ EXCEPT ![o] = None]

arguments(o, v) == Set(o, "arguments", v) /\ Reset(o) /\ UNCHANGED answer
use_global_arguments(o, v) == Set(o, "use_global_arguments", v) /\ Reset(o) /\ UNCHANGED answer
enable_rosout(o, v) == Set(o, "enable_rosout", v) /\ Reset(o) /\ UNCHANGED answer
rosout_qos(o, v) == Set(o, "rosout_qos", v) /\ Reset(o) /\ UNCHANGED answer
allocator(o, v) == Set(o, "allocator", v) /\ Reset(o) /\ UNCHANGED answer
(* context, parameter_overrides, use_intra_process_comms, clock_qos, ... *)
SetRest(o, v) == Set(o, "rest", v) /\ UNCHANGED <<node_options_, answer>>

(* operator= and the copy constructor copy the settings only. *)
Assign(o, other) ==
    /\ o # other
    /\ settings' = [settings EXCEPT ![o] = settings[other]]
    /\ Reset(o)
    /\ UNCHANGED answer

(* The options are stored before the arguments are parsed: they stay when *)
(* parsing throws.                                                        *)
get_rcl_node_options(o) ==
    LET built == node_options_[o] = None
        refused == settings[o].arguments \in {"unknown", "broken"}
    IN  /\ node_options_' = IF built THEN [node_options_ EXCEPT ![o] = Built(settings[o])]
                            ELSE node_options_
        /\ answer' = [object |-> o, threw |-> built /\ refused]
        /\ UNCHANGED settings

Next ==
    \E o \in Objects :
        \/ \E v \in Arguments : arguments(o, v)
        \/ \E v \in 0 .. 1 : use_global_arguments(o, v)
        \/ \E v \in 0 .. 1 : enable_rosout(o, v)
        \/ \E v \in 0 .. 1 : rosout_qos(o, v)
        \/ \E v \in 0 .. 1 : allocator(o, v)
        \/ \E v \in 0 .. 1 : SetRest(o, v)
        \/ \E other \in Objects : Assign(o, other)
        \/ get_rcl_node_options(o)

Spec == Init /\ [][Next]_vars

-----------------------------------------------------------------------------
(* The options that get_rcl_node_options would return are those of the settings *)
(* as they are now, whatever was set, assigned and asked for before.            *)
CacheIsCurrent ==
    \A o \in Objects : node_options_[o] # None => node_options_[o] = Built(settings[o])

=============================================================================
