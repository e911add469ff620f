---------------------------- MODULE ParameterValues ----------------------------
(***************************************************************************)
(* Parameter values, descriptors, names and overrides: the pure parts of   *)
(* rclcpp's parameters.  A name is the sequence of its parts between dots, *)
(* a node name the sequence of its parts between slashes.  Doubles are     *)
(* taken from a grid coarser than the tolerance of __are_doubles_equal, so *)
(* that they compare exactly.                                              *)
(***************************************************************************)
EXTENDS Integers, Sequences, SequencesExt, TLC

ParameterTypes == {"not_set", "bool", "integer", "double", "string", "byte_array", "bool_array",
                   "integer_array", "double_array", "string_array"}

NotSet == [type |-> "not_set", v |-> 0]
Integer(v) == [type |-> "integer", v |-> v]
Double(v) == [type |-> "double", v |-> v]
Parameter(name, value) == [name |-> name, value |-> value]

(* The constructors of ParameterValue, by the C++ type of their argument. *)
ConstructedType ==
    [bool |-> "bool", int |-> "integer", int64_t |-> "integer", float |-> "double",
     double |-> "double", string |-> "string", c_str |-> "string", bytes |-> "byte_array",
     bools |-> "bool_array", ints |-> "integer_array", int64s |-> "integer_array",
     floats |-> "double_array", doubles |-> "double_array", strings |-> "string_array"]

CppTypes == DOMAIN ConstructedType

(* ParameterValue::get<T>: the parameter type it asks for. *)
RequestedType ==
    [bool |-> "bool", int |-> "integer", int64_t |-> "integer", float |-> "double",
     double |-> "double", string |-> "string", c_str |-> "string", bytes |-> "byte_array",
     bools |-> "bool_array", ints |-> "integer_array", int64s |-> "integer_array",
     floats |-> "double_array", doubles |-> "double_array", strings |-> "string_array"]

(* get<ParameterType> throws a ParameterTypeException unless the types agree. *)
get(value, type) == IF value.type # type THEN "throws" ELSE value.v

(* What a variant of the parameter file, given as the set of its non-null members,
   becomes: the first of them in this order. *)
VariantOrder == <<"bool", "integer", "double", "string", "byte_array", "bool_array",
                  "integer_array", "double_array", "string_array">>

parameter_value_from(members) ==
    LET present == SelectSeq(VariantOrder, LAMBDA t : t \in members)
    IN IF present = <<>> THEN "throws" ELSE Head(present)

-----------------------------------------------------------------------------
(* Descriptors: range is a sequence of at most one [from, to, step]. *)
Descriptor(type, dynamic, read_only, range) ==
    [type |-> type, dynamic_typing |-> dynamic, read_only |-> read_only, range |-> range]

Dynamic == Descriptor("not_set", TRUE, FALSE, <<>>)

IntegerInRange(r, v) ==
    \/ v = r.from \/ v = r.to
    \/ r.from < v /\ v < r.to /\ (r.step = 0 \/ (v - r.from) % r.step = 0)

(* The nearest multiple of the step, halves away from zero as std::round has them. *)
Rounded(x, step) == IF 2 * (x % step) >= step THEN x \div step + 1 ELSE x \div step

DoubleInRange(r, v) ==
    \/ v = r.from \/ v = r.to
    \/ /\ r.from < v /\ v < r.to
       /\ r.step = 0 \/ v = r.from + Rounded(v - r.from, r.step) * r.step

(* __check_parameter_value_in_range. *)
InRange(descriptor, value) ==
    descriptor.range = <<>> \/
        CASE value.type = "integer" -> IntegerInRange(descriptor.range[1], value.v)
          [] value.type = "double" -> DoubleInRange(descriptor.range[1], value.v)
          [] OTHER -> TRUE

-----------------------------------------------------------------------------
(* get_parameters_by_prefix and list_parameters. *)
StartsWith(name, prefix) ==
    Len(name) > Len(prefix) /\ SubSeq(name, 1, Len(prefix)) = prefix

ByPrefix(names, prefix) == {SubSeq(n, Len(prefix) + 1, Len(n)) : n \in {m \in names : StartsWith(m, prefix)}}

RecursiveDepth == 0

(* The separators of a name, or of what follows the prefix with its leading dot. *)
list_parameters(names, prefixes, depth) ==
    {n \in names :
        \/ prefixes = {} /\ (depth = RecursiveDepth \/ Len(n) - 1 < depth)
        \/ \E p \in prefixes : \/ n = p
                               \/ StartsWith(n, p) /\ (depth = RecursiveDepth \/ Len(n) - Len(p) < depth)}

ListedPrefixes(listed) == {Front(n) : n \in {m \in listed : Len(m) > 1}}

(* SyncParametersClient::has_parameter asks for a list of depth 1. *)
ClientHasParameter(names, n) == list_parameters(names, {n}, 1) # {}

-----------------------------------------------------------------------------
(* parameter_map_from: node names in the file may hold * and **. *)
RECURSIVE NodeMatches(_, _)
NodeMatches(pattern, fqn) ==
    IF pattern = <<>> THEN fqn = <<>>
    ELSE CASE Head(pattern) = "**" -> \E k \in 0..Len(fqn) :
                                        NodeMatches(Tail(pattern), SubSeq(fqn, k + 1, Len(fqn)))
           [] OTHER -> /\ fqn # <<>> /\ Head(pattern) \in {"*", Head(fqn)}
                       /\ NodeMatches(Tail(pattern), Tail(fqn))

(* A file is a sequence of [node, params]; its parameters for a node, in order. *)
parameter_map_from(file, fqn) ==
    FlattenSeq([i \in DOMAIN file |-> IF NodeMatches(file[i].node, fqn) THEN file[i].params ELSE <<>>])

(* Later parameters replace earlier ones. *)
Overlay(base, params) == FoldLeft(LAMBDA m, p : (p.name :> p.value) @@ m, base, params)

(* Global arguments, then the node's own, then the overrides given in the code. *)
resolve_parameter_overrides(fqn, global, local, given) ==
    Overlay(Overlay(Overlay(<<>>, parameter_map_from(global, fqn)), parameter_map_from(local, fqn)), given)
===============================================================================
