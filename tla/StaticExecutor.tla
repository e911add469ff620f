---------------------------- MODULE StaticExecutor ----------------------------
(* StaticSingleThreadedExecutor and its StaticExecutorEntitiesCollector. The
   handles the wait set is filled from and the list of executables are built once
   and again only when the guard condition of a known node is triggered; after
   rcl_wait the executor goes by position: slot i of the wait set stands for
   executable i.

   A callback group holds one subscription; the other kinds are treated alike, each
   with its own slots. The program changes the association between two steps of the
   executor (the collector has no lock for its maps). *)
EXTENDS Naturals, Sequences, SequencesExt, FiniteSets

CONSTANTS
    Nodes, Groups,
    NodeOf,            \* the node of a callback group
    Automatic,         \* groups with automatically_add_to_executor_with_node
    Late,              \* groups created after their node was added
    AddsByHand,        \* groups that add_callback_group is called for
    AddsWhileSpinning, \* nodes and groups are added to an executor that spins
    MaxCalls,          \* bound on the calls of add_node and add_callback_group
    MaxSpins           \* bound on the calls of spin and its variants

Assumption ==
    /\ NodeOf \in [Groups -> Nodes]
    /\ Automatic \subseteq Groups /\ Late \subseteq Groups /\ AddsByHand \subseteq Groups
    /\ AddsWhileSpinning \in BOOLEAN /\ {MaxCalls, MaxSpins} \subseteq Nat

VARIABLES
    groups,          \* created callback groups
    entities,        \* groups whose subscription is created
    node_flag,       \* nodes with associated_with_executor_
    group_flag,      \* groups with associated_with_executor_
    weak_nodes,
    by_hand,         \* weak_groups_associated_with_executor_to_nodes_
    by_node,         \* weak_groups_to_nodes_associated_with_executor_
    new_nodes,
    conditions,      \* nodes of weak_nodes_to_guard_conditions_
    order,           \* of the groups in the maps (by the address of a control block)
    handles,         \* subscription_handles_ of the memory strategy
    exec_list,       \* subscriptions of exec_list_
    initialized,
    notified,        \* nodes whose notify guard condition is triggered
    interrupted,     \* interrupt_guard_condition_ is triggered
    data,            \* groups whose subscription has a message
    mode,            \* the spin that runs
    pc,              \* where it is
    wait_set,        \* [slots, nodes]: what rcl_wait waits on
    reported,        \* [slots, nodes]: what it left non-null
    slot,            \* the position being looked at
    worked,          \* any_ready_executable
    calls, spins

maps == <<node_flag, group_flag, weak_nodes, by_hand, by_node, new_nodes, conditions>>
lists == <<order, handles, exec_list, initialized>>
world == <<groups, entities, data, notified, interrupted>>
spin == <<mode, pc, wait_set, reported, slot, worked, calls, spins>>
vars == <<maps, lists, world, spin>>

Empty == [slots |-> <<>>, nodes |-> {}]

Init ==
    /\ groups = Groups \ Late /\ entities = {} /\ data = {} /\ notified = {} /\ interrupted = FALSE
    /\ node_flag = {} /\ group_flag = {} /\ weak_nodes = {} /\ by_hand = {} /\ by_node = {}
    /\ new_nodes = {} /\ conditions = {}
    /\ order \in {s \in [1..Cardinality(Groups) -> Groups] : ToSet(s) = Groups}
    /\ handles = <<>> /\ exec_list = <<>> /\ initialized = FALSE
    /\ mode = "none" /\ pc = "idle" /\ wait_set = Empty /\ reported = Empty
    /\ slot = 1 /\ worked = FALSE /\ calls = 0 /\ spins = 0

-----------------------------------------------------------------------------
(* Association. *)
has_node(n, map) == \E g \in map : NodeOf[g] = n

(* add_callback_group for the groups G of node n, into one of the maps: the node is
   new when neither map had a group of it. *)
NewNode(n, G) == G # {} /\ ~has_node(n, by_hand) /\ ~has_node(n, by_node)

MayAdd == calls < MaxCalls /\ calls' = calls + 1 /\ (AddsWhileSpinning \/ pc = "idle")

add_node(n) ==
    LET G == {g \in groups \cap Automatic : NodeOf[g] = n /\ g \notin group_flag} IN
    /\ MayAdd
    /\ n \notin node_flag
    /\ node_flag' = node_flag \cup {n}
    /\ group_flag' = group_flag \cup G
    /\ by_node' = by_node \cup G
    /\ new_nodes' = IF NewNode(n, G) THEN new_nodes \cup {n} ELSE new_nodes
    /\ weak_nodes' = weak_nodes \cup {n}
    /\ interrupted' = (interrupted \/ NewNode(n, G))
    /\ UNCHANGED <<by_hand, conditions, lists, groups, entities, data, notified, mode, pc,
                   wait_set, reported, slot, worked, spins>>

add_callback_group(g) ==
    /\ MayAdd
    /\ g \in (groups \cap AddsByHand) \ group_flag
    /\ group_flag' = group_flag \cup {g}
    /\ by_hand' = by_hand \cup {g}
    /\ new_nodes' = IF NewNode(NodeOf[g], {g}) THEN new_nodes \cup {NodeOf[g]} ELSE new_nodes
    /\ interrupted' = (interrupted \/ NewNode(NodeOf[g], {g}))
    /\ UNCHANGED <<node_flag, weak_nodes, by_node, conditions, lists, groups, entities, data,
                   notified, mode, pc, wait_set, reported, slot, worked, spins>>

(* remove_callback_group_from_map leaves the group's flag as it is. *)
remove_callback_group(g) ==
    LET gone == ~has_node(NodeOf[g], by_hand \ {g}) /\ ~has_node(NodeOf[g], by_node) IN
    /\ g \in by_hand
    /\ by_hand' = by_hand \ {g}
    /\ conditions' = IF gone THEN conditions \ {NodeOf[g]} ELSE conditions
    /\ interrupted' = (interrupted \/ gone)
    /\ UNCHANGED <<node_flag, group_flag, weak_nodes, by_node, new_nodes, lists, groups, entities,
                   data, notified, spin>>

remove_node(n) ==
    LET G == {g \in by_node : NodeOf[g] = n} IN
    /\ n \in weak_nodes
    /\ weak_nodes' = weak_nodes \ {n}
    /\ by_node' = by_node \ G
    /\ conditions' = IF G # {} /\ ~has_node(n, by_hand) THEN conditions \ {n} ELSE conditions
    /\ node_flag' = node_flag \ {n}
    /\ interrupted' = TRUE
    /\ UNCHANGED <<group_flag, by_hand, new_nodes, lists, groups, entities, data, notified, spin>>

create_callback_group(g) ==
    /\ g \in Late \ groups
    /\ groups' = groups \cup {g}
    /\ UNCHANGED <<maps, lists, entities, data, notified, interrupted, spin>>

add_subscription(g) ==
    /\ g \in groups \ entities
    /\ entities' = entities \cup {g}
    /\ notified' = notified \cup {NodeOf[g]}
    /\ UNCHANGED <<maps, lists, groups, data, interrupted, spin>>

Message(g) ==
    /\ g \in entities \ data
    /\ data' = data \cup {g}
    /\ UNCHANGED <<maps, lists, groups, entities, notified, interrupted, spin>>

-----------------------------------------------------------------------------
(* The collector. A map is walked in the order of its keys. *)
Walk(map) == SelectSeq(order, LAMBDA g : g \in map \cap entities)

fill_memory_strategy == Walk(by_node) \o Walk(by_hand)

(* add_callback_groups_from_nodes_associated_to_executor *)
Created == {g \in groups \cap Automatic : NodeOf[g] \in weak_nodes /\ g \notin group_flag}

fill_executable_list == Walk(by_hand) \o Walk(by_node \cup Created)

(* execute: the handles are collected before the groups created since are added. *)
execute ==
    /\ handles' = fill_memory_strategy
    /\ by_node' = by_node \cup Created
    /\ group_flag' = group_flag \cup Created
    /\ exec_list' = fill_executable_list
    /\ conditions' = conditions \cup new_nodes
                     \cup {n \in weak_nodes : NewNode(n, {g \in Created : NodeOf[g] = n})}
    /\ new_nodes' = {}

(* refresh_wait_set up to rcl_wait: the handles, and the guard conditions that the
   collector, itself a waitable, adds. *)
refresh_wait_set ==
    /\ pc = "top" /\ mode # "cancelled"
    /\ wait_set' = [slots |-> handles, nodes |-> conditions]
    /\ pc' = "waiting"
    /\ UNCHANGED <<maps, lists, world, mode, reported, slot, worked, calls, spins>>

Ready == \/ interrupted \/ notified \cap wait_set.nodes # {}
         \/ ToSet(wait_set.slots) \cap data # {}

(* rcl_wait returns; only spin() waits without a timeout. *)
rcl_wait ==
    /\ pc = "waiting"
    /\ Ready \/ mode # "spin"
    /\ reported' = [slots |-> [i \in DOMAIN wait_set.slots |-> wait_set.slots[i] \in data],
                    nodes |-> notified \cap wait_set.nodes]
    /\ notified' = notified \ wait_set.nodes
    /\ interrupted' = FALSE
    /\ slot' = 1 /\ worked' = FALSE
    /\ pc' = "slots"
    /\ UNCHANGED <<maps, lists, groups, entities, data, mode, wait_set, calls, spins>>

-----------------------------------------------------------------------------
(* execute_ready_executables. execute_subscription takes nothing when the
   subscription it is given has no message. *)
Executes == slot <= Len(exec_list) /\ reported.slots[slot]

ExecuteSlot ==
    /\ pc = "slots" /\ slot <= Len(reported.slots)
    /\ data' = IF Executes THEN data \ {exec_list[slot]} ELSE data
    /\ worked' = (worked \/ Executes)
    /\ slot' = slot + 1
    /\ pc' = IF Executes /\ mode = "once" THEN "done" ELSE "slots"
    /\ UNCHANGED <<maps, lists, groups, entities, notified, interrupted, mode, wait_set, reported,
                   calls, spins>>

(* The collector is the last waitable of the list. *)
ExecuteCollector ==
    /\ pc = "slots" /\ slot > Len(reported.slots)
    /\ IF reported.nodes \cap conditions # {}
       THEN execute /\ worked' = TRUE
       ELSE UNCHANGED <<handles, exec_list, by_node, group_flag, conditions, new_nodes, worked>>
    /\ pc' = "done"
    /\ UNCHANGED <<node_flag, weak_nodes, by_hand, order, initialized, world, mode, wait_set,
                   reported, slot, calls, spins>>

(* spin collects anew, the others only the first time. *)
StartSpin(m) ==
    /\ pc = "idle" /\ spins < MaxSpins
    /\ spins' = spins + 1
    /\ mode' = m /\ pc' = "top"
    /\ initialized' = TRUE
    /\ IF m = "spin" \/ ~initialized
       THEN execute
       ELSE UNCHANGED <<handles, exec_list, by_node, group_flag, conditions, new_nodes>>
    /\ UNCHANGED <<node_flag, weak_nodes, by_hand, order, world, wait_set, reported, slot, worked,
                   calls>>

(* spin loops, spin_all while there is work, spin_some and spin_once do not. *)
EndIteration ==
    \/ /\ pc = "done"
       /\ pc' = IF mode = "spin" \/ (mode = "all" /\ worked) THEN "top" ELSE "ending"
       /\ UNCHANGED <<maps, lists, world, mode, wait_set, reported, slot, worked, calls, spins>>
    \/ /\ pc = "ending" \/ (pc \in {"top", "done"} /\ mode = "cancelled")
       /\ pc' = "idle" /\ mode' = "none"
       /\ UNCHANGED <<maps, lists, world, wait_set, reported, slot, worked, calls, spins>>

cancel ==
    /\ mode \notin {"none", "cancelled"}
    /\ mode' = "cancelled"
    /\ interrupted' = TRUE
    /\ UNCHANGED <<maps, lists, groups, entities, data, notified, pc, wait_set, reported, slot,
                   worked, calls, spins>>

-----------------------------------------------------------------------------
Running == refresh_wait_set \/ rcl_wait \/ ExecuteSlot \/ ExecuteCollector \/ EndIteration

Next ==
    \/ Running \/ cancel
    \/ \E m \in {"spin", "some", "all", "once"} : StartSpin(m)
    \/ \E n \in Nodes : add_node(n) \/ remove_node(n)
    \/ \E g \in Groups :
         \/ add_callback_group(g) \/ remove_callback_group(g)
         \/ create_callback_group(g) \/ add_subscription(g) \/ Message(g)

Spec == Init /\ [][Next]_vars

(* The spinning thread keeps running. *)
FairSpec == Spec /\ WF_vars(Running)

-----------------------------------------------------------------------------
StaticTypeOK ==
    /\ entities \subseteq groups /\ data \subseteq entities
    /\ weak_nodes \subseteq node_flag /\ by_hand \cup by_node \subseteq group_flag
    /\ by_hand \cap by_node = {}
    /\ handles \in Seq(Groups) /\ exec_list \in Seq(Groups)
    /\ slot \in 1..(Cardinality(Groups) + 1)
    /\ mode \in {"none", "spin", "some", "all", "once", "cancelled"}
    /\ mode = "none" <=> pc = "idle"

(* The executable that is run for slot i is the one whose handle is in slot i: the
   executor looks executables up by position in lists that were filled by two
   different walks (static_executor_entities_collector.cpp:122-142, 168-170). *)
RunsTheReadyOne ==
    pc = "slots" => \A i \in DOMAIN reported.slots :
      reported.slots[i] => i <= Len(exec_list) /\ exec_list[i] = wait_set.slots[i]

(* The node of every group that is served has its guard condition in the wait set,
   as soon as the lists are collected: otherwise entities that are created later
   would never be noticed (static_executor_entities_collector.cpp:109-116, 377-381). *)
ServedNodesWatched ==
    pc = "top" /\ new_nodes = {} => \A g \in by_hand \cup by_node : NodeOf[g] \in conditions

HasMessage(g) == mode = "spin" /\ g \in data \cap by_node

=============================================================================
