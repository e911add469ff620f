----------------------------- MODULE NodeNames ------------------------------
(***************************************************************************)
(* The names of nodes, sub-nodes and topics: rclcpp::Node's                *)
(* sub-namespaces, expand_topic_or_service_name and the checks of          *)
(* NodeBase. A name is a sequence of words and of the tokens "/" and "~".  *)
(* A call that throws has the name of its exception as the result's error. *)
(***************************************************************************)
EXTENDS Integers, Sequences, SequencesExt

CONSTANT MaxName      \* the longest full name that rmw accepts

Ok(name) == [error |-> "none", name |-> name]
Error(e) == [error |-> e, name |-> <<>>]
Fails(r) == r.error # "none"

Root == <<"/">>
IsAbsolute(name) == name # <<>> /\ name[1] = "/"
IsPrivate(name) == name # <<>> /\ name[1] = "~"

-----------------------------------------------------------------------------
(* External: the validations and the expansion of rcl and rmw. *)

NoDoubleSlash(name) ==
    \A i \in 1 .. Len(name) - 1 :
        /\ name[i] = "/" => name[i + 1] # "/"
        /\ name[i] \notin {"/", "~"} => name[i + 1] = "/"
        /\ name[i] = "~" => name[i + 1] = "/"
NoTilde(name) == \A i \in DOMAIN name : name[i] # "~"

ValidTopicName(name) ==
    /\ name # <<>> /\ name[Len(name)] # "/" /\ NoDoubleSlash(name)
    /\ NoTilde(Tail(name))
ValidNodeName(name) == Len(name) = 1 /\ name[1] \notin {"/", "~"}
ValidNamespace(ns) ==
    IsAbsolute(ns) /\ NoTilde(ns) /\ NoDoubleSlash(ns) /\ (ns = Root \/ ns[Len(ns)] # "/")
ValidFullName(name) == IsAbsolute(name) /\ NoTilde(name) /\ Len(name) <= MaxName

Under(ns, name) == IF ns = Root THEN ns \o name ELSE ns \o <<"/">> \o name

rcl_expand_topic_name(name, node, ns) ==
    IF ~ValidTopicName(name) THEN Error("RCL_RET_TOPIC_NAME_INVALID")
    ELSE IF ~ValidNodeName(node) THEN Error("RCL_RET_NODE_INVALID_NAME")
    ELSE IF ~ValidNamespace(ns) THEN Error("RCL_RET_NODE_INVALID_NAMESPACE")
    ELSE Ok(IF IsAbsolute(name) THEN name
            ELSE IF IsPrivate(name) THEN Under(ns, node) \o Tail(name)
            ELSE Under(ns, name))

(* rcl_node_init makes a namespace absolute. *)
Normalized(ns) == IF ns = <<>> THEN Root ELSE IF IsAbsolute(ns) THEN ns ELSE Root \o ns
rcl_node_init(node, ns) ==
    IF ~ValidNodeName(node) THEN Error("RCL_RET_NODE_INVALID_NAME")
    ELSE IF ~ValidNamespace(Normalized(ns)) THEN Error("RCL_RET_NODE_INVALID_NAMESPACE")
    ELSE Ok(Normalized(ns))

(* Remapping: rules is a function from full names to full names. *)
Remapped(rules, name) == IF name \in DOMAIN rules THEN rules[name] ELSE name

-----------------------------------------------------------------------------
(* expand_topic_or_service_name, NodeBase *)

(* The code of rcl's error is turned into an exception after the name that was *)
(* refused is validated once more.                                             *)
InvalidName(is_service) == IF is_service THEN "InvalidServiceNameError" ELSE "InvalidTopicNameError"

expand_topic_or_service_name(name, node, ns, is_service) ==
    LET r == rcl_expand_topic_name(name, node, ns)
    IN  CASE r.error = "RCL_RET_TOPIC_NAME_INVALID" ->
                Error(IF ValidTopicName(name) THEN "runtime_error" ELSE InvalidName(is_service))
          [] r.error = "RCL_RET_NODE_INVALID_NAME" ->
                Error(IF ValidNodeName(node) THEN "runtime_error" ELSE "InvalidNodeNameError")
          [] r.error = "RCL_RET_NODE_INVALID_NAMESPACE" ->
                Error(IF ValidNamespace(ns) THEN "runtime_error" ELSE "InvalidNamespaceError")
          [] r.error = "none" ->
                IF ValidFullName(r.name) THEN r ELSE Error(InvalidName(is_service))

(* NodeBase::NodeBase validates the namespace as it was given, which rcl had *)
(* made absolute before it refused it.                                       *)
NewNodeBase(node, ns) ==
    LET r == rcl_node_init(node, ns)
    IN  CASE r.error = "RCL_RET_NODE_INVALID_NAME" ->
                Error(IF ValidNodeName(node) THEN "runtime_error" ELSE "InvalidNodeNameError")
          [] r.error = "RCL_RET_NODE_INVALID_NAMESPACE" ->
                Error(IF ValidNamespace(ns) THEN "runtime_error" ELSE "InvalidNamespaceError")
          [] r.error = "none" -> r

resolve_topic_or_service_name(rules, name, node, ns, only_expand) ==
    LET r == rcl_expand_topic_name(name, node, ns)
    IN  IF Fails(r) THEN r ELSE Ok(IF only_expand THEN r.name ELSE Remapped(rules, r.name))

-----------------------------------------------------------------------------
(* Node: sub-nodes *)

extend_sub_namespace_KeepsSlash(existing, extension) ==
    IF extension = <<>> \/ IsAbsolute(extension) THEN Error("NameValidationError")
    ELSE Ok(IF existing = <<>> THEN extension ELSE existing \o <<"/">> \o extension)
extend_sub_namespace(existing, extension) ==
    IF extension = <<>> \/ IsAbsolute(extension) THEN Error("NameValidationError")
    ELSE LET new == IF existing = <<>> THEN extension ELSE existing \o <<"/">> \o extension
         IN  Ok(IF new[Len(new)] = "/" THEN Front(new) ELSE new)

create_effective_namespace(ns, sub) ==
    IF sub = <<>> THEN ns ELSE IF ns[Len(ns)] = "/" THEN ns \o sub ELSE ns \o <<"/">> \o sub

(* A node is its namespace and its sub-namespace. *)
effective_namespace(node) == create_effective_namespace(node.ns, node.sub)

create_sub_node(node, extension) ==
    LET sub == extend_sub_namespace(node.sub, extension)
        effective == create_effective_namespace(node.ns, sub.name)
    IN  IF Fails(sub) THEN sub
        ELSE IF ~ValidNamespace(effective) THEN Error("InvalidNamespaceError")
        ELSE sub

(* What create_publisher, create_subscription, create_client, create_service  *)
(* and get_parameter make of a name on a sub-node.                             *)
extend_name_with_sub_namespace(name, sub) ==
    IF sub # <<>> /\ ~IsAbsolute(name) /\ ~IsPrivate(name) THEN sub \o <<"/">> \o name ELSE name

CreatedOn(node, name) == extend_name_with_sub_namespace(name, node.sub)
get_parameter(node, name) == extend_name_with_sub_namespace(name, node.sub)
(* get_parameter_or extends the name and get_parameter extends it again. *)
get_parameter_or(node, name) == get_parameter(node, extend_name_with_sub_namespace(name, node.sub))
=============================================================================
