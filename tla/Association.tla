------------------------------ MODULE Association ------------------------------
(* Which executor serves which callback group: the association flags of nodes and
   callback groups, the maps of every Executor, the guard conditions its memory
   strategy waits on, and wait_for_work, which collects the entities of the
   associated groups, cleans up what has been destroyed and blocks.

   Each executor x has a caller, who changes the association, and a spinner; both
   take the executor's mutex_. The flags are shared by all executors and are
   tested and set without a common lock. A critical section that touches no flag
   of another executor's groups is one step. *)
EXTENDS Naturals, FiniteSets

CONSTANTS
    Executors, Nodes, Groups,
    Spinners,        \* executors that are spun
    NodeOf,          \* the node that created a callback group
    Automatic,       \* groups with automatically_add_to_executor_with_node
    Late,            \* groups that are created after their node
    EntityKinds,     \* kinds of entities the program creates
    AddsByHand,      \* groups that add_callback_group is called for
    MayDestroy,      \* nodes, and with them their groups, may be destroyed
    DropsGroups,     \* a group may be destroyed before its node
    MaxCalls         \* bound on the calls of add_node and add_callback_group

Nothing == "none"
Kinds == {"subscription", "timer", "service", "client", "waitable", "publisher"}

Assumption ==
    /\ NodeOf \in [Groups -> Nodes] /\ Spinners \subseteq Executors
    /\ Automatic \subseteq Groups /\ Late \subseteq Groups /\ AddsByHand \subseteq Groups
    /\ EntityKinds \subseteq Kinds /\ Nothing \notin Nodes \cup Groups
    /\ {MayDestroy, DropsGroups} \subseteq BOOLEAN /\ MaxCalls \in Nat

VARIABLES
    nodes, groups,       \* the ones that exist
    unborn,              \* groups not created yet
    entities,            \* per group, the kinds of its entities
    node_flag,           \* nodes with associated_with_executor_
    group_flag,          \* groups with associated_with_executor_
    weak_nodes,          \* per executor
    by_hand,             \* weak_groups_associated_with_executor_to_nodes_
    by_node,             \* weak_groups_to_nodes_associated_with_executor_
    all,                 \* weak_groups_to_nodes_
    conditions,          \* weak_groups_to_guard_conditions_, the memory strategy's too
    notifiable,          \* groups whose notify_guard_condition_ exists
    triggered,           \* groups whose notify guard condition is triggered
    interrupted,         \* executors whose interrupt_guard_condition_ is triggered
    calls,               \* of add_node and add_callback_group so far
    pending,             \* per executor, the node its caller flagged and adds
    job,                 \* per executor, the loop over callback groups under mutex_
    spinner,             \* per executor, where its spin is
    waiting,             \* per executor, the entities in the wait set
    waited               \* per executor, the guard conditions in the wait set

flags == <<node_flag, group_flag>>
maps == <<weak_nodes, by_hand, by_node, all, conditions>>
signals == <<triggered, interrupted>>
world == <<nodes, groups, unborn, entities>>
spin == <<spinner, waiting, waited>>
vars == <<world, flags, maps, notifiable, signals, calls, pending, job, spin>>

NoJob == [by |-> Nothing, todo |-> {}, group |-> Nothing]
GroupsOf(n) == {g \in groups : NodeOf[g] = n}

Init ==
    /\ nodes = Nodes /\ groups = Groups \ Late /\ unborn = Late
    /\ entities = [g \in Groups |-> {}]
    /\ node_flag = {} /\ group_flag = {}
    /\ weak_nodes = [x \in Executors |-> {}]
    /\ by_hand = [x \in Executors |-> {}] /\ by_node = [x \in Executors |-> {}]
    /\ all = [x \in Executors |-> {}] /\ conditions = [x \in Executors |-> {}]
    /\ notifiable = {} /\ triggered = {} /\ interrupted = {} /\ calls = 0
    /\ pending = [x \in Executors |-> Nothing]
    /\ job = [x \in Executors |-> NoJob]
    /\ spinner = [x \in Executors |-> "stopped"]
    /\ waiting = [x \in Executors |-> {}] /\ waited = [x \in Executors |-> {}]

Unlocked(x) == job[x].by = Nothing

-----------------------------------------------------------------------------
(* Adding. The node's flag is exchanged before mutex_ is taken; add_node throws
   at once when it was set. *)
add_node(x, n) ==
    /\ n \in nodes /\ pending[x] = Nothing
    /\ calls < MaxCalls /\ calls' = calls + 1
    /\ n \notin node_flag
    /\ node_flag' = node_flag \cup {n}
    /\ pending' = [pending EXCEPT ![x] = n]
    /\ UNCHANGED <<world, group_flag, maps, notifiable, signals, job, spin>>

AddNodeLocked(x) ==
    /\ pending[x] \in nodes /\ Unlocked(x)
    /\ job' = [job EXCEPT ![x] = [by |-> "caller", todo |-> GroupsOf(pending[x]), group |-> Nothing]]
    /\ UNCHANGED <<calls, world, flags, maps, notifiable, signals, pending, spin>>

(* The two loops over for_each_callback_group read the group's flag here and
   exchange it in add_callback_group_to_map. *)
for_each_callback_group(x, g) ==
    /\ job[x].group = Nothing /\ g \in job[x].todo
    /\ job' = [job EXCEPT ![x].todo = @ \ {g},
                          ![x].group = IF g \in Automatic \ group_flag THEN g ELSE Nothing]
    /\ UNCHANGED <<calls, world, flags, maps, notifiable, signals, pending, spin>>

Associate_NoExchange(x, g) ==
    /\ group_flag' = group_flag \cup {g}
    /\ all' = [all EXCEPT ![x] = @ \cup {g}]
    /\ notifiable' = notifiable \cup {g}
    /\ conditions' = [conditions EXCEPT ![x] = @ \cup {g}]
    /\ interrupted' = interrupted \cup {x}

(* add_callback_group_to_map, but for the map it is given. *)
Associate(x, g) ==
    /\ g \notin group_flag
    /\ group_flag' = group_flag \cup {g}
    /\ all' = [all EXCEPT ![x] = @ \cup {g}]
    /\ notifiable' = notifiable \cup {g}
    /\ conditions' = [conditions EXCEPT ![x] = @ \cup {g}]
    /\ interrupted' = interrupted \cup {x}

add_callback_group_to_map(x) ==
    LET g == job[x].group IN
    /\ g # Nothing
    /\ Associate(x, g)
    /\ by_node' = [by_node EXCEPT ![x] = @ \cup {g}]
    /\ job' = [job EXCEPT ![x].group = Nothing]
    /\ UNCHANGED <<calls, world, node_flag, weak_nodes, by_hand, triggered, pending, spin>>

(* The flag was set in between: the exception leaves add_node, or the spin, in the
   middle. *)
AlreadyAdded(x) ==
    /\ job[x].group \in group_flag
    /\ job' = [job EXCEPT ![x] = NoJob]
    /\ IF job[x].by = "caller"
       THEN pending' = [pending EXCEPT ![x] = Nothing] /\ UNCHANGED spinner
       ELSE spinner' = [spinner EXCEPT ![x] = "stopped"] /\ UNCHANGED pending
    /\ UNCHANGED <<calls, world, flags, maps, notifiable, signals, waiting, waited>>

AddNodeEnd(x) ==
    /\ job[x].by = "caller" /\ job[x].group = Nothing /\ job[x].todo = {}
    /\ weak_nodes' = [weak_nodes EXCEPT ![x] = @ \cup {pending[x]}]
    /\ pending' = [pending EXCEPT ![x] = Nothing]
    /\ job' = [job EXCEPT ![x] = NoJob]
    /\ UNCHANGED <<calls, world, flags, by_hand, by_node, all, conditions, notifiable, signals, spin>>

add_callback_group(x, g) ==
    /\ g \in groups \cap AddsByHand /\ NodeOf[g] \in nodes
    /\ calls < MaxCalls /\ calls' = calls + 1
    /\ Unlocked(x) /\ pending[x] = Nothing
    /\ Associate(x, g)
    /\ by_hand' = [by_hand EXCEPT ![x] = @ \cup {g}]
    /\ UNCHANGED <<world, node_flag, weak_nodes, by_node, triggered, pending, job, spin>>

-----------------------------------------------------------------------------
(* Removing. Only the removal that leaves the executor without a group of the node
   drops a guard condition, and it drops the removed group's own. *)
RemovedConditions(x, g, node_left) ==
    IF node_left THEN conditions[x] ELSE conditions[x] \ {g}

Dissociate(x, G) ==
    /\ all' = [all EXCEPT ![x] = @ \ G]
    /\ group_flag' = group_flag \ G

remove_callback_group(x, g) ==
    LET left == \E h \in (by_hand[x] \cup by_node[x]) \ {g} : NodeOf[h] = NodeOf[g] IN
    /\ g \in by_hand[x] \cap groups /\ NodeOf[g] \in nodes
    /\ Unlocked(x) /\ pending[x] = Nothing
    /\ Dissociate(x, {g})
    /\ by_hand' = [by_hand EXCEPT ![x] = @ \ {g}]
    /\ conditions' = [conditions EXCEPT ![x] = RemovedConditions(x, g, left)]
    /\ interrupted' = IF left THEN interrupted ELSE interrupted \cup {x}
    /\ UNCHANGED <<calls, world, node_flag, weak_nodes, by_node, notifiable, triggered, pending, job, spin>>

(* The groups of the node leave in the order of the map; last is the last one. *)
remove_node(x, n) ==
    LET G == {g \in by_node[x] : NodeOf[g] = n}
        left == \E h \in by_hand[x] : NodeOf[h] = n
    IN
    /\ n \in weak_nodes[x] \cap nodes
    /\ Unlocked(x) /\ pending[x] = Nothing
    /\ G \subseteq groups
    /\ weak_nodes' = [weak_nodes EXCEPT ![x] = @ \ {n}]
    /\ by_node' = [by_node EXCEPT ![x] = @ \ G]
    /\ Dissociate(x, G)
    /\ node_flag' = node_flag \ {n}
    /\ \/ G = {} /\ UNCHANGED <<conditions, interrupted>>
       \/ \E last \in G :
            /\ conditions' = [conditions EXCEPT ![x] = RemovedConditions(x, last, left)]
            /\ interrupted' = IF left THEN interrupted ELSE interrupted \cup {x}
    /\ UNCHANGED <<calls, world, by_hand, notifiable, triggered, pending, job, spin>>

(* A group destroyed before its node and not cleaned up yet is a null pointer in
   the map: its removal throws, after an arbitrary part of the others left. *)
RemoveNodeThrows(x, n) ==
    LET G == {g \in by_node[x] : NodeOf[g] = n} IN
    /\ n \in weak_nodes[x] \cap nodes
    /\ Unlocked(x) /\ pending[x] = Nothing
    /\ ~ G \subseteq groups
    /\ weak_nodes' = [weak_nodes EXCEPT ![x] = @ \ {n}]
    /\ \E gone \in SUBSET (G \cap groups) :
         /\ by_node' = [by_node EXCEPT ![x] = @ \ gone]
         /\ Dissociate(x, gone)
    /\ UNCHANGED <<calls, world, node_flag, by_hand, conditions, notifiable, signals, pending, job, spin>>

(* ~Executor, after its spin has returned. *)
DestroyExecutor(x) ==
    /\ spinner[x] = "stopped" /\ Unlocked(x) /\ pending[x] = Nothing
    /\ group_flag' = group_flag \ (all[x] \cap groups)
    /\ node_flag' = node_flag \ (weak_nodes[x] \cap nodes)
    /\ weak_nodes' = [weak_nodes EXCEPT ![x] = {}]
    /\ by_hand' = [by_hand EXCEPT ![x] = {}] /\ by_node' = [by_node EXCEPT ![x] = {}]
    /\ all' = [all EXCEPT ![x] = {}] /\ conditions' = [conditions EXCEPT ![x] = {}]
    /\ spinner' = [spinner EXCEPT ![x] = "destroyed"]
    /\ UNCHANGED <<calls, world, notifiable, signals, pending, job, waiting, waited>>

-----------------------------------------------------------------------------
(* The program's groups and entities. create_callback_group notifies nobody. *)
create_callback_group(g) ==
    /\ g \in unborn /\ NodeOf[g] \in nodes
    /\ \A x \in Executors : ~ \E h \in job[x].todo : NodeOf[h] = NodeOf[g]
    /\ unborn' = unborn \ {g}
    /\ groups' = groups \cup {g}
    /\ UNCHANGED <<calls, nodes, entities, flags, maps, notifiable, signals, pending, job, spin>>

trigger_notify_guard_condition_Never(G) == UNCHANGED triggered
trigger_notify_guard_condition(G) == triggered' = triggered \cup (G \cap notifiable)

AddEntity(g, kind) ==
    /\ kind \in EntityKinds \ entities[g]
    /\ g \in groups /\ NodeOf[g] \in nodes
    /\ entities' = [entities EXCEPT ![g] = @ \cup {kind}]
    /\ trigger_notify_guard_condition({g})
    /\ UNCHANGED <<calls, nodes, groups, unborn, flags, maps, notifiable, interrupted, pending, job, spin>>

(* A publisher brings its event handlers, a subscription itself, its event handlers
   and its intra-process waitable; the kind stands for all of them. *)
add_publisher(g) == AddEntity(g, "publisher")
add_subscription(g) == AddEntity(g, "subscription")
add_timer(g) == AddEntity(g, "timer")
add_service(g) == AddEntity(g, "service")
add_client(g) == AddEntity(g, "client")
add_waitable(g) == AddEntity(g, "waitable")

remove_waitable(g) ==
    /\ g \in groups /\ NodeOf[g] \in nodes /\ "waitable" \in entities[g]
    /\ MayDestroy
    /\ entities' = [entities EXCEPT ![g] = @ \ {"waitable"}]
    /\ UNCHANGED <<calls, nodes, groups, unborn, flags, maps, notifiable, signals, pending, job, spin>>

(* ~CallbackGroup triggers its guard condition and frees it: whether an executor
   that waits on it is woken is left open. *)
DestroyGroups(G) ==
    /\ groups' = groups \ G
    /\ notifiable' = notifiable \ G
    /\ \/ trigger_notify_guard_condition(G)
       \/ UNCHANGED triggered
    /\ UNCHANGED <<calls, unborn, entities, flags, maps, interrupted, job, spin>>

DestroyNode(n) ==
    /\ MayDestroy /\ n \in nodes
    /\ \A x \in Executors : pending[x] # n
                            /\ \A g \in job[x].todo \cup {job[x].group} : g \notin GroupsOf(n)
    /\ nodes' = nodes \ {n}
    /\ DestroyGroups(GroupsOf(n))
    /\ UNCHANGED pending

DestroyGroup(g) ==
    /\ DropsGroups /\ g \in groups
    /\ \A x \in Executors : g \notin job[x].todo \cup {job[x].group}
    /\ DestroyGroups({g})
    /\ UNCHANGED <<calls, nodes, pending>>

-----------------------------------------------------------------------------
(* Spinning. *)
Start(x) ==
    /\ x \in Spinners /\ spinner[x] = "stopped"
    /\ spinner' = [spinner EXCEPT ![x] = "top"]
    /\ UNCHANGED <<calls, world, flags, maps, notifiable, signals, pending, job, waiting, waited>>

(* wait_for_work begins with the groups that the nodes created since. *)
add_callback_groups_from_nodes_associated_to_executor(x) ==
    /\ spinner[x] = "top" /\ Unlocked(x)
    /\ spinner' = [spinner EXCEPT ![x] = "collect"]
    /\ job' = [job EXCEPT ![x] =
                 [by |-> "spinner", group |-> Nothing,
                  todo |-> UNION {GroupsOf(n) : n \in weak_nodes[x] \cap nodes}]]
    /\ UNCHANGED <<calls, world, flags, maps, notifiable, signals, pending, waiting, waited>>

Expired(x) == {g \in all[x] : g \notin groups \/ NodeOf[g] \notin nodes}

CleanUp(x) ==
    /\ all' = [all EXCEPT ![x] = @ \ Expired(x)]
    /\ by_hand' = [by_hand EXCEPT ![x] = @ \ Expired(x)]
    /\ by_node' = [by_node EXCEPT ![x] = @ \ Expired(x)]
    /\ conditions' = [conditions EXCEPT ![x] = @ \ Expired(x)]

wait_for_work(x) ==
    /\ spinner[x] = "collect" /\ job[x].group = Nothing /\ job[x].todo = {}
    /\ CleanUp(x)
    /\ waiting' = [waiting EXCEPT ![x] =
                     UNION {{<<g, k>> : k \in entities[g]} : g \in all[x] \ Expired(x)}]
    /\ waited' = [waited EXCEPT ![x] = conditions'[x]]
    /\ job' = [job EXCEPT ![x] = NoJob]
    /\ spinner' = [spinner EXCEPT ![x] = "waiting"]
    /\ UNCHANGED <<calls, world, flags, weak_nodes, notifiable, signals, pending>>

(* rcl_wait returns for a guard condition, and resets the ones that were triggered. *)
Woken(x) ==
    /\ spinner[x] = "waiting"
    /\ x \in interrupted \/ triggered \cap waited[x] # {}
    /\ interrupted' = interrupted \ {x}
    /\ triggered' = triggered \ waited[x]
    /\ \E to \in {"top", "stopped"} : spinner' = [spinner EXCEPT ![x] = to]
    /\ UNCHANGED <<calls, world, flags, maps, notifiable, pending, job, waiting, waited>>

(* rcl_wait returns for an entity; execute_any_executable ends with a trigger. *)
Executed(x) ==
    /\ spinner[x] = "waiting" /\ waiting[x] # {}
    /\ interrupted' = interrupted \cup {x}
    /\ spinner' = [spinner EXCEPT ![x] = "top"]
    /\ UNCHANGED <<calls, world, flags, maps, notifiable, triggered, pending, job, waiting, waited>>

-----------------------------------------------------------------------------
Loop(x) ==
    \/ \E g \in Groups : for_each_callback_group(x, g)
    \/ add_callback_group_to_map(x) \/ AlreadyAdded(x)
    \/ AddNodeLocked(x) \/ AddNodeEnd(x)

Spinning(x) ==
    \/ add_callback_groups_from_nodes_associated_to_executor(x)
    \/ wait_for_work(x) \/ Woken(x)

Creates(g) ==
    \/ create_callback_group(g) \/ DestroyGroup(g)
    \/ add_publisher(g) \/ add_subscription(g) \/ add_timer(g) \/ add_service(g) \/ add_client(g)
    \/ add_waitable(g) \/ remove_waitable(g)

Next ==
    \/ \E x \in Executors :
         \/ \E n \in Nodes : add_node(x, n) \/ remove_node(x, n) \/ RemoveNodeThrows(x, n)
         \/ \E g \in Groups : add_callback_group(x, g) \/ remove_callback_group(x, g)
         \/ Loop(x) \/ Spinning(x) \/ Executed(x) \/ Start(x) \/ DestroyExecutor(x)
    \/ \E g \in Groups : Creates(g)
    \/ \E n \in Nodes : DestroyNode(n)

Spec == Init /\ [][Next]_vars

(* A caller finishes its call and a spinner keeps running. *)
Fairness == \A x \in Executors : WF_vars(Loop(x)) /\ WF_vars(Spinning(x))
FairSpec == Spec /\ Fairness

-----------------------------------------------------------------------------
AssociationTypeOK ==
    /\ nodes \subseteq Nodes /\ groups \cup unborn \subseteq Groups
    /\ entities \in [Groups -> SUBSET EntityKinds]
    /\ weak_nodes \in [Executors -> SUBSET Nodes]
    /\ \A f \in {by_hand, by_node, all, conditions, waited} : f \in [Executors -> SUBSET Groups]
    /\ notifiable \subseteq groups
    /\ \A x \in Executors :
         /\ job[x].group # Nothing => job[x].group \in Groups
         /\ job[x].by = "caller" => pending[x] \in nodes
         /\ job[x].by = "spinner" <=> spinner[x] = "collect"
         /\ waiting[x] \subseteq Groups \X EntityKinds

(* However callers race, a callback group is in the maps of at most one executor,
   and in one of its two maps: its callbacks are never run by two executors. The
   exchange of associated_with_executor_ in add_callback_group_to_map is all that
   protects it (executor.cpp:209). *)
InOneExecutor ==
    \A g \in groups, x, y \in Executors :
        /\ g \notin by_hand[x] \cap by_node[x]
        /\ g \in (by_hand[x] \cup by_node[x]) \cap (by_hand[y] \cup by_node[y]) => x = y

(* The map that is collected from is the union of the two maps, and the flag of a
   live group is set exactly while an executor has it: what was removed, or was
   destroyed and cleaned up, can be added again and is not collected any more
   (executor.cpp:222, 301-303, 735-755). *)
MapsAgree ==
    /\ \A x \in Executors : all[x] = by_hand[x] \cup by_node[x]
    /\ \A g \in groups : NodeOf[g] \in nodes =>
         (g \in group_flag <=> \E x \in Executors : g \in all[x])

(* A node whose flag is set belongs to an executor, or is being added: otherwise it
   could neither be added nor removed ever again (executor.cpp:262-283, 350-388). *)
FlaggedNodeIsHeld ==
    \A n \in node_flag \cap nodes :
      \E x \in Executors : n \in weak_nodes[x] \/ pending[x] = n

(* The guard conditions that wait_for_work puts into the wait set are raw pointers
   into callback groups: every one still exists when it is used
   (executor.cpp:748-753, 774). *)
ConditionsAlive ==
    \A x \in Executors :
        spinner[x] = "collect" /\ spinner'[x] = "waiting" => waited'[x] \subseteq groups

Added(x, g, k) == k \in entities[g] /\ NodeOf[g] \in weak_nodes[x] /\ spinner[x] = "waiting"
Collected(x, g, k) ==
    \/ <<g, k>> \in waiting[x] \/ k \notin entities[g] \/ g \notin groups
    \/ NodeOf[g] \notin nodes \cap weak_nodes[x]
    \/ (\E y \in Executors \ {x} : g \in all[y])
    \/ spinner[x] = "stopped"

(* "Whether the node was added to the executor before creating the callback group,
   or after, is irrelevant; the callback group will be automatically added to the
   executor in either case" (callback_group.hpp:87-89): the same for a group that
   is created when its node is already served. *)
CreatedGroupCollected ==
    \A x \in Executors, g \in Automatic, k \in EntityKinds : Added(x, g, k) ~> Collected(x, g, k)
=============================================================================
