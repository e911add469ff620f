-------------------------------- MODULE QoS ---------------------------------
(***************************************************************************)
(* rclcpp::QoS and the parameters that override it: declare_qos_parameters *)
(* for a publisher or a subscription, and the profile that the publisher   *)
(* of /parameter_events gets. A profile is a record of the nine policies;  *)
(* an rmw_time_t is [sec, nsec]. A parameter's name is the sequence of its *)
(* parts, the set of parameters a function from names to values.           *)
(***************************************************************************)
EXTENDS TimeArithmetic, Sequences, SequencesExt, Functions

DurationPolicies == {"deadline", "lifespan", "liveliness_lease_duration"}
NamedPolicies == {"durability", "history", "liveliness", "reliability"}

(* What rmw_qos_*_policy_to_str and *_from_str know; another value has no name. *)
PolicyNames ==
    [durability |-> {"volatile", "transient_local", "system_default"},
     history |-> {"keep_last", "keep_all", "system_default"},
     liveliness |-> {"automatic", "manual_by_topic", "system_default"},
     reliability |-> {"reliable", "best_effort", "system_default"}]

(* PublisherQosParametersTraits, SubscriptionQosParametersTraits *)
allowed_policies(entity) ==
    LET all == <<"avoid_ros_namespace_conventions", "deadline", "durability", "history", "depth",
                 "lifespan", "liveliness", "liveliness_lease_duration", "reliability">>
    IN  IF entity = "publisher" THEN all ELSE SelectSeq(all, LAMBDA p : p # "lifespan")

-----------------------------------------------------------------------------
(* QoSInitialization and QoS *)

KeepAll == [history |-> "keep_all", depth |-> 0]
KeepLast(depth) == [history |-> "keep_last", depth |-> depth]
from_rmw(profile) == IF profile.history = "keep_all" THEN KeepAll ELSE KeepLast(profile.depth)

NewQoS(initialization, profile) ==
    [profile EXCEPT !.history = initialization.history, !.depth = initialization.depth]

(* The setters: each changes its own policy, keep_last and keep_all two. *)
SetPolicy(qos, policy, value) == [qos EXCEPT ![policy] = value]
keep_last(qos, depth) == NewQoS(KeepLast(depth), qos)
keep_all(qos) == NewQoS(KeepAll, qos)

(* The getters: a duration is read back as a Duration, saturated. *)
GetPolicy(qos, policy) ==
    IF policy \in DurationPolicies THEN from_rmw_time(qos[policy]) ELSE qos[policy]

-----------------------------------------------------------------------------
(* A policy as a parameter's value, and back *)

(* A depth is a size_t: a negative parameter is a very large one. *)
Signed(x) == IF x > Max64 THEN x - 2 * (Max64 + 1) ELSE x

(* The seconds go through an int32_t. *)
rmw_duration_to_int64_t(t) == DurationOf(ToInt32(t.sec), t.nsec)

get_default_qos_param_value(policy, qos) ==
    CASE policy \in DurationPolicies -> [type |-> "integer", v |-> rmw_duration_to_int64_t(qos[policy])]
      [] policy \in NamedPolicies ->
            IF qos[policy] \in PolicyNames[policy] THEN [type |-> "string", v |-> qos[policy]] ELSE Throws
      [] policy = "depth" -> [type |-> "integer", v |-> Signed(qos.depth)]
      [] policy = "avoid_ros_namespace_conventions" -> [type |-> "bool", v |-> qos[policy]]

PolicyType(policy) ==
    IF policy \in NamedPolicies THEN "string"
    ELSE IF policy = "avoid_ros_namespace_conventions" THEN "bool" ELSE "integer"

Failed(x) == x = Throws

(* A value of another type, an unknown name and a negative duration throw. *)
apply_qos_override(policy, value, qos) ==
    IF value.type # PolicyType(policy) THEN Throws
    ELSE IF policy \in DurationPolicies
         THEN LET t == to_rmw_time(value.v)
              IN  IF t.throws THEN Throws ELSE SetPolicy(qos, policy, [sec |-> t.sec, nsec |-> t.nsec])
    ELSE IF policy \in NamedPolicies /\ value.v \notin PolicyNames[policy] THEN Throws
    ELSE SetPolicy(qos, policy, IF policy = "depth" THEN Unsigned(value.v) ELSE value.v)

-----------------------------------------------------------------------------
(* declare_qos_parameters *)

(* declare_parameter takes an override of the name before the default, and   *)
(* refuses one of another type; a parameter that exists is read instead.     *)
declare_parameter_or_get_Default(declared, overrides, name, default) ==
    IF name \in DOMAIN declared THEN default
    ELSE IF name \in DOMAIN overrides THEN overrides[name] ELSE default
declare_parameter_or_get(declared, overrides, name, default) ==
    IF name \in DOMAIN declared THEN declared[name]
    ELSE IF name \in DOMAIN overrides
         THEN IF overrides[name].type = default.type THEN overrides[name] ELSE Throws
    ELSE default

ParameterName(topic, entity, id, policy) ==
    <<"qos_overrides", topic, entity>> \o (IF id = "" THEN <<>> ELSE <<id>>) \o <<policy>>

(* One policy of the loop; qos = Throws once one has thrown. What was declared *)
(* before stays declared.                                                      *)
DeclarePolicy(at, overrides, name, policy) ==
    LET default == get_default_qos_param_value(policy, at.qos)
        value == declare_parameter_or_get(at.declared, overrides, name, default)
    IN  IF Failed(at.qos) THEN at
        ELSE IF Failed(default) \/ Failed(value) THEN [at EXCEPT !.qos = Throws]
        ELSE [declared |-> at.declared @@ (name :> value),
              qos |-> apply_qos_override(policy, value, at.qos)]

declare_qos_parameters(options, declared, overrides, topic, default_qos, entity) ==
    LET policies == SelectSeq(allowed_policies(entity), LAMBDA p : p \in options.policy_kinds)
        loop == FoldLeft(LAMBDA at, p :
                            DeclarePolicy(at, overrides, ParameterName(topic, entity, options.id, p), p),
                         [declared |-> declared, qos |-> default_qos], policies)
    IN  IF ~Failed(loop.qos) /\ loop.qos \in options.refused THEN [loop EXCEPT !.qos = Throws] ELSE loop

(* Without a parameters interface nothing can be declared. *)
declare_qos_parameters_none(options, default_qos) ==
    IF options.policy_kinds # {} THEN Throws ELSE default_qos

(* QosOverridingOptions: refused are the profiles the validation callback rejects. *)
QosOverridingOptions(policy_kinds, refused, id) ==
    [policy_kinds |-> policy_kinds, refused |-> refused, id |-> id]
with_default_policies(refused, id) ==
    QosOverridingOptions({"history", "depth", "reliability"}, refused, id)

-----------------------------------------------------------------------------
(* The publisher of /parameter_events is made before the parameters are: its *)
(* profile comes from the overrides, under a name of its own.                *)
ParameterEventsPolicies == <<"depth", "durability", "history", "reliability">>

get_parameter_events_qos(overrides, qos) ==
    FoldLeft(LAMBDA final, p :
                LET name == <<"qos_overrides", "/parameter_events", p>>
                    value == IF name \in DOMAIN overrides THEN overrides[name]
                             ELSE get_default_qos_param_value(p, qos)
                IN  IF Failed(final) \/ Failed(value) THEN Throws ELSE apply_qos_override(p, value, final),
             qos, ParameterEventsPolicies)

(* Node::Node: the profile in effect, and the parameters that are declared for it. *)
NewNode(overrides, qos) ==
    [effective |-> get_parameter_events_qos(overrides, qos),
     shown |-> declare_qos_parameters(QosOverridingOptions(Range(ParameterEventsPolicies), {}, ""),
                   <<>>, overrides, "/parameter_events", qos, "publisher")]
=============================================================================
