---------------------------- MODULE GraphQueries ----------------------------
(***************************************************************************)
(* NodeGraph's queries. rcl fills C structures that the query copies and   *)
(* must finalize; each call of rcl may fail. A query's outcome records     *)
(* whether it throws, what it returns and how often each structure was     *)
(* finalized. rcl's answer is a sequence of names, each with its types, or *)
(* parallel arrays with holes.                                             *)
(***************************************************************************)
EXTENDS NodeNames, FiniteSets, TLC

Outcome(throws, value, finis) == [throws |-> throws, value |-> value, finis |-> finis]

(* for each i, for each j: result[names[i]].emplace_back(types[i][j]) *)
NamesAndTypes(answer) ==
    [n \in {answer[i].name : i \in {k \in DOMAIN answer : answer[k].types # <<>>}} |->
        FlattenSeq([i \in DOMAIN answer |-> IF answer[i].name = n THEN answer[i].types ELSE <<>>])]

(* get_topic_names_and_types, get_service_names_and_types and                  *)
(* get_service_names_and_types_by_node finalize by hand, on both paths, and    *)
(* throw when that fails.                                                      *)
Eager(answer, get, fini) ==
    IF ~get THEN Outcome(TRUE, <<>>, <<1>>) ELSE Outcome(~fini, NamesAndTypes(answer), <<1>>)
get_topic_names_and_types(answer, get, fini) == Eager(answer, get, fini)
get_service_names_and_types(answer, get, fini) == Eager(answer, get, fini)
get_service_names_and_types_by_node(answer, get, fini) == Eager(answer, get, fini)

(* The others finalize when they leave the scope: a failure is only logged. *)
Scoped(answer, get, fini) == Outcome(~get, IF get THEN NamesAndTypes(answer) ELSE <<>>, <<1>>)
get_client_names_and_types_by_node(answer, get, fini) == Scoped(answer, get, fini)
get_publisher_names_and_types_by_node(answer, get, fini) == Scoped(answer, get, fini)
get_subscriber_names_and_types_by_node(answer, get, fini) == Scoped(answer, get, fini)

(* get_node_names_and_namespaces and get_node_names_with_enclaves: every array *)
(* is finalized even when an earlier one could not be. Null marks a hole.      *)
Null == <<>>
Rows(arrays) ==
    SelectSeq([i \in DOMAIN arrays[1] |-> [k \in DOMAIN arrays |-> arrays[k][i]]],
              LAMBDA row : \A k \in DOMAIN row : row[k] # Null)
ArrayQuery(arrays, get, fini) ==
    Outcome(~get \/ (\E k \in DOMAIN arrays : ~fini[k]),
            IF get THEN Rows(arrays) ELSE <<>>, [k \in DOMAIN arrays |-> 1])
get_node_names_and_namespaces(names, namespaces, get, fini) ==
    ArrayQuery(<<names, namespaces>>, get, fini)
get_node_names_with_enclaves(names, namespaces, enclaves, get, fini) ==
    ArrayQuery(<<names, namespaces, enclaves>>, get, fini)

FullName(name, ns) ==
    LET full == IF ns[Len(ns)] = "/" THEN ns \o name ELSE ns \o <<"/">> \o name
    IN  IF IsAbsolute(full) THEN full ELSE Root \o full
get_node_names(names, namespaces, get, fini) ==
    LET o == get_node_names_and_namespaces(names, namespaces, get, fini)
    IN  [o EXCEPT !.value = [i \in DOMAIN o.value |-> FullName(o.value[i][1], o.value[i][2])]]

-----------------------------------------------------------------------------
(* Endpoints of a topic. graph is a function from full names to the number of *)
(* endpoints there; node is [name, ns].                                       *)

CountAt(graph, name) == IF name \in DOMAIN graph THEN graph[name] ELSE 0

(* count_publishers and count_subscribers do not remap the name. *)
count_publishers(graph, node, topic, ok) ==
    LET r == expand_topic_or_service_name(topic, node.name, node.ns, FALSE)
    IN  IF Fails(r) \/ ~ok THEN Outcome(TRUE, 0, <<>>) ELSE Outcome(FALSE, CountAt(graph, r.name), <<>>)
count_subscribers(graph, node, topic, ok) ==
    LET r == expand_topic_or_service_name(topic, node.name, node.ns, FALSE)
    IN  IF Fails(r) \/ ~ok THEN Outcome(TRUE, 0, <<>>) ELSE Outcome(FALSE, CountAt(graph, r.name), <<>>)

(* get_info_by_topic does, unless the name is the middleware's own. *)
get_info_by_topic(graph, node, rules, topic, no_mangle, get, fini) ==
    LET r == IF no_mangle THEN Ok(topic) ELSE expand_topic_or_service_name(topic, node.name, node.ns, FALSE)
        name == IF no_mangle THEN r.name ELSE Remapped(rules, r.name)
    IN  IF Fails(r) THEN Outcome(TRUE, 0, <<0>>)
        ELSE Outcome(~get \/ ~fini, CountAt(graph, name), <<1>>)
get_publishers_info_by_topic(graph, node, rules, topic, no_mangle, get, fini) ==
    get_info_by_topic(graph, node, rules, topic, no_mangle, get, fini)
get_subscriptions_info_by_topic(graph, node, rules, topic, no_mangle, get, fini) ==
    get_info_by_topic(graph, node, rules, topic, no_mangle, get, fini)
=============================================================================
