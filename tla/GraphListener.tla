------------------------------ MODULE GraphListener ------------------------------
(***************************************************************************)
(* GraphListener, one per context, whose thread waits on the graph guard    *)
(* conditions of the nodes that have graph users; NodeGraph with its graph  *)
(* events; and one user thread per node that waits for a service, and then  *)
(* destroys the node.  The context may be shut down at any time.            *)
(***************************************************************************)
EXTENDS Naturals, FiniteSets

CONSTANTS Nodes,
          Sliced,       \* whether wait_for_graph_change is given a time limit
          MayShutdown,  \* whether the context is shut down
          MayDestroy,   \* whether nodes are destroyed
          MaxWaits,     \* bound on the waits of a node
          MaxChanges    \* bound on the changes of the graph

L == "listener"
S == "shutdown"
Nobody == "nobody"
Threads == Nodes \cup {L, S}

Assumption ==
    /\ {Sliced, MayShutdown, MayDestroy} \subseteq BOOLEAN
    /\ {L, S, Nobody} \cap Nodes = {} /\ MaxWaits \in Nat /\ MaxChanges \in Nat

VARIABLES
    lpc,            \* where the listener thread is; "off" before it starts
    upc,            \* where the user thread of a node is
    spc,            \* where the thread that shuts the context down is
    barrier,        \* holder of node_graph_interfaces_barrier_mutex_
    nodes_mutex,    \* holder of node_graph_interfaces_mutex_
    shutdown_mutex, \* holder of shutdown_mutex_
    callbacks_mutex,\* holder of the context's on_shutdown_callbacks_mutex_
    graph_mutex,    \* graph_mutex_ of a node: its user thread, or nobody
    nodes,          \* node_graph_interfaces_
    interrupt,      \* whether interrupt_guard_condition_ is triggered
    graph_gc,       \* whether a node's graph guard condition is triggered
    waited,         \* nodes whose graph guard condition is in the wait set
    ready,          \* nodes of the wait set found triggered, still to be notified
    visited,        \* nodes of this round already looked at after the wait
    is_started, is_shutdown,
    should_add,     \* should_add_to_graph_listener_
    event,          \* the loaned event: none, clear or set
    expired,        \* entries of graph_events_ whose event is gone
    users,          \* graph_users_count_
    registered,     \* whether the context has the listener's on_shutdown callback
    ok,             \* whether the context is valid
    available,      \* whether the service waited for is available
    waits, changes

vars == <<lpc, upc, spc, barrier, nodes_mutex, shutdown_mutex, callbacks_mutex, graph_mutex, nodes,
          interrupt, graph_gc, waited, ready, visited, is_started, is_shutdown, should_add, event,
          expired, users, registered, ok, available, waits, changes>>
listVars == <<barrier, nodes_mutex, nodes, interrupt>>
loopVars == <<lpc, waited, ready, visited>>
stateVars == <<is_started, is_shutdown, registered>>
eventVars == <<event, expired, users, graph_mutex>>
worldVars == <<ok, available, waits, changes>>

Init ==
    /\ lpc = "off" /\ upc = [n \in Nodes |-> "idle"] /\ spc = "idle"
    /\ barrier = Nobody /\ nodes_mutex = Nobody /\ shutdown_mutex = Nobody /\ callbacks_mutex = Nobody
    /\ graph_mutex = [n \in Nodes |-> Nobody]
    /\ nodes = {} /\ interrupt = FALSE /\ graph_gc = [n \in Nodes |-> FALSE]
    /\ waited = {} /\ ready = {} /\ visited = {}
    /\ is_started = FALSE /\ is_shutdown = FALSE
    /\ should_add = [n \in Nodes |-> TRUE]
    /\ event = [n \in Nodes |-> "none"]
    /\ expired = [n \in Nodes |-> 0] /\ users = [n \in Nodes |-> 0]
    /\ registered = FALSE /\ ok = TRUE /\ available = FALSE
    /\ waits = [n \in Nodes |-> 0] /\ changes = 0

UserAt(n, from, to) == upc[n] = from /\ upc' = [upc EXCEPT ![n] = to]
ListenerAt(from, to) == lpc = from /\ lpc' = to

(* The user's shared pointer to its event goes; graph_events_ keeps a weak one. *)
DropsEvent(n) ==
    /\ event' = [event EXCEPT ![n] = "none"]
    /\ expired' = [expired EXCEPT ![n] = @ + 1]
    /\ UNCHANGED <<users, graph_mutex>>

-----------------------------------------------------------------------------
(* run_loop: the test of is_shutdown_ and the two mutexes. *)
RunLoopTop ==
    /\ ListenerAt("top", IF is_shutdown THEN "done" ELSE "barrier")
    /\ UNCHANGED <<upc, spc, shutdown_mutex, callbacks_mutex, listVars, graph_gc, waited, ready, visited,
                   stateVars, should_add, eventVars, worldVars>>

RunLoopBarrier ==
    /\ ListenerAt("barrier", "lock") /\ barrier = Nobody
    /\ barrier' = L
    /\ UNCHANGED <<upc, spc, nodes_mutex, shutdown_mutex, callbacks_mutex, nodes, interrupt, graph_gc, waited,
                   ready, visited, stateVars, should_add, eventVars, worldVars>>

RunLoopLock ==
    /\ ListenerAt("lock", "build") /\ nodes_mutex = Nobody
    /\ nodes_mutex' = L /\ barrier' = Nobody
    /\ UNCHANGED <<upc, spc, shutdown_mutex, callbacks_mutex, nodes, interrupt, graph_gc, waited, ready,
                   visited, stateVars, should_add, eventVars, worldVars>>

(* The wait set is resized, cleared and filled with the guard conditions of the nodes
   that have graph users. *)
RunLoopBuild ==
    /\ ListenerAt("build", "wait")
    /\ waited' = {n \in nodes : users[n] > 0}
    /\ UNCHANGED <<upc, spc, shutdown_mutex, callbacks_mutex, listVars, graph_gc, ready, visited, stateVars,
                   should_add, eventVars, worldVars>>

(* rcl_wait without a time limit, holding the nodes mutex: it returns when a guard
   condition of the wait set is triggered, and takes the triggers. *)
RunLoopWait ==
    /\ ListenerAt("wait", "notify")
    /\ interrupt \/ \E n \in waited : graph_gc[n]
    /\ ready' = {n \in waited : graph_gc[n]} /\ visited' = {}
    /\ interrupt' = FALSE
    /\ graph_gc' = [n \in Nodes |-> graph_gc[n] /\ n \notin waited]
    /\ UNCHANGED <<upc, spc, barrier, nodes_mutex, shutdown_mutex, callbacks_mutex, nodes, waited, stateVars,
                   should_add, eventVars, worldVars>>

(* NodeGraph::notify_graph_change: the events are set, the expired ones forgotten and
   the waiting threads woken. *)
notify_graph_change(n) ==
    /\ graph_mutex[n] = Nobody
    /\ event' = [event EXCEPT ![n] = IF @ = "clear" THEN "set" ELSE @]
    /\ expired' = [expired EXCEPT ![n] = 0]
    /\ users' = [users EXCEPT ![n] = IF expired[n] = 0 THEN @
                                      ELSE IF event[n] = "none" THEN 0 ELSE 1]
    /\ upc' = [upc EXCEPT ![n] = IF @ = "blocked" THEN "wait" ELSE @]

(* NodeGraph::notify_shutdown, which does not take graph_mutex_. *)
notify_shutdown(n) ==
    /\ upc' = [upc EXCEPT ![n] = IF @ = "blocked" THEN "wait" ELSE @]
    /\ UNCHANGED <<event, expired, users>>

RunLoopNotify(n) ==
    /\ lpc = "notify" /\ n \in nodes \ visited
    /\ IF n \in ready THEN notify_graph_change(n)
       ELSE IF is_shutdown THEN notify_shutdown(n)
       ELSE UNCHANGED <<event, expired, users, upc>>
    /\ visited' = visited \cup {n}
    /\ UNCHANGED <<lpc, spc, shutdown_mutex, callbacks_mutex, listVars, graph_gc, waited, ready, stateVars,
                   should_add, graph_mutex, worldVars>>

RunLoopEnd ==
    /\ ListenerAt("notify", "top") /\ nodes \subseteq visited
    /\ nodes_mutex' = Nobody
    /\ UNCHANGED <<upc, spc, barrier, shutdown_mutex, callbacks_mutex, nodes, interrupt, graph_gc, waited,
                   ready, visited, stateVars, should_add, eventVars, worldVars>>

Listener == \/ RunLoopTop \/ RunLoopBarrier \/ RunLoopLock \/ RunLoopBuild \/ RunLoopWait
            \/ \E n \in Nodes : RunLoopNotify(n)
            \/ RunLoopEnd

-----------------------------------------------------------------------------
(* wait_for_service: the service is not there yet, so an event is asked for. *)
wait_for_service(n) ==
    /\ UserAt(n, "idle", "get") /\ ~(ok /\ available) /\ waits[n] < MaxWaits
    /\ waits' = [waits EXCEPT ![n] = @ + 1]
    /\ UNCHANGED <<spc, shutdown_mutex, callbacks_mutex, listVars, graph_gc, loopVars, stateVars, should_add,
                   eventVars, ok, available, changes>>

get_graph_event(n) ==
    /\ UserAt(n, "get", IF should_add[n] THEN "add" ELSE "loop")
    /\ graph_mutex[n] = Nobody
    /\ event' = [event EXCEPT ![n] = "clear"]
    /\ users' = [users EXCEPT ![n] = @ + 1]
    /\ should_add' = [should_add EXCEPT ![n] = FALSE]
    /\ UNCHANGED <<spc, shutdown_mutex, callbacks_mutex, listVars, graph_gc, loopVars, stateVars, expired,
                   graph_mutex, worldVars>>

(* wait_for_service returns, or ends with an exception of a call it makes. *)
Leaves(n) == upc' = [upc EXCEPT ![n] = "idle"] /\ DropsEvent(n)

add_node(n) ==
    /\ upc[n] = "add" /\ shutdown_mutex = Nobody
    /\ IF is_shutdown
       THEN Leaves(n) /\ UNCHANGED shutdown_mutex
       ELSE /\ shutdown_mutex' = n /\ upc' = [upc EXCEPT ![n] = "add_barrier"]
            /\ UNCHANGED eventVars
    /\ UNCHANGED <<spc, callbacks_mutex, listVars, graph_gc, loopVars, stateVars, should_add, worldVars>>

(* acquire_nodes_lock_: the barrier, the interrupt, then the nodes mutex. *)
AcquireBarrier(n) ==
    /\ UserAt(n, "add_barrier", "add_lock") \/ UserAt(n, "remove_barrier", "remove_lock")
    /\ barrier = Nobody
    /\ barrier' = n /\ interrupt' = TRUE
    /\ UNCHANGED <<spc, nodes_mutex, shutdown_mutex, callbacks_mutex, nodes, graph_gc, loopVars, stateVars,
                   should_add, eventVars, worldVars>>

AddLocked(n) ==
    /\ UserAt(n, "add_lock", "start") /\ nodes_mutex = Nobody
    /\ nodes' = nodes \cup {n}
    /\ barrier' = Nobody /\ shutdown_mutex' = Nobody
    /\ UNCHANGED <<spc, nodes_mutex, callbacks_mutex, interrupt, graph_gc, loopVars, stateVars, should_add,
                   eventVars, worldVars>>

start_if_not_started(n) ==
    /\ upc[n] = "start" /\ shutdown_mutex = Nobody
    /\ \/ /\ is_shutdown
          /\ Leaves(n) /\ UNCHANGED shutdown_mutex
       \/ /\ ~is_shutdown /\ is_started
          /\ upc' = [upc EXCEPT ![n] = "loop"] /\ UNCHANGED <<shutdown_mutex, eventVars>>
       \/ /\ ~is_shutdown /\ ~is_started
          /\ upc' = [upc EXCEPT ![n] = "register"] /\ shutdown_mutex' = n
          /\ UNCHANGED eventVars
    /\ UNCHANGED <<spc, callbacks_mutex, listVars, graph_gc, loopVars, stateVars, should_add, worldVars>>

(* on_shutdown of the context, called with shutdown_mutex_ held. *)
RegisterCallback(n) ==
    /\ UserAt(n, "register", "init") /\ callbacks_mutex = Nobody
    /\ registered' = TRUE
    /\ UNCHANGED <<spc, shutdown_mutex, callbacks_mutex, listVars, graph_gc, loopVars, is_started,
                   is_shutdown, should_add, eventVars, worldVars>>

(* init_wait_set fails when the context is not valid; otherwise the thread starts. *)
InitWaitSet(n) ==
    /\ upc[n] = "init"
    /\ shutdown_mutex' = Nobody
    /\ IF ok
       THEN /\ upc' = [upc EXCEPT ![n] = "loop"] /\ lpc' = "top" /\ is_started' = TRUE
            /\ UNCHANGED eventVars
       ELSE Leaves(n) /\ UNCHANGED <<lpc, is_started>>
    /\ UNCHANGED <<spc, callbacks_mutex, listVars, graph_gc, waited, ready, visited, is_shutdown, registered,
                   should_add, worldVars>>

(* The loop of wait_for_service: rclcpp::ok, then wait_for_graph_change. *)
WaitLoop(n) ==
    /\ upc[n] = "loop"
    /\ IF ok THEN upc' = [upc EXCEPT ![n] = "wait"] /\ UNCHANGED eventVars
       ELSE Leaves(n)
    /\ UNCHANGED <<spc, shutdown_mutex, callbacks_mutex, listVars, graph_gc, loopVars, stateVars, should_add,
                   worldVars>>

(* The predicate of wait_for_graph_change, tested under graph_mutex_ before the wait and
   after each wake-up. *)
wait_for_graph_change(n) ==
    /\ upc[n] = "wait" /\ graph_mutex[n] = Nobody
    /\ IF event[n] = "set" \/ ~ok
       THEN upc' = [upc EXCEPT ![n] = "after"] /\ UNCHANGED graph_mutex
       ELSE upc' = [upc EXCEPT ![n] = "sleep"] /\ graph_mutex' = [graph_mutex EXCEPT ![n] = n]
    /\ UNCHANGED <<spc, shutdown_mutex, callbacks_mutex, listVars, graph_gc, loopVars, stateVars, should_add,
                   event, expired, users, worldVars>>

GraphCvWait(n) ==
    /\ UserAt(n, "sleep", "blocked")
    /\ graph_mutex' = [graph_mutex EXCEPT ![n] = Nobody]
    /\ UNCHANGED <<spc, shutdown_mutex, callbacks_mutex, listVars, graph_gc, loopVars, stateVars, should_add,
                   event, expired, users, worldVars>>

(* The 100 ms to which wait_for_service limits each wait pass. *)
Slice(n) ==
    /\ Sliced /\ UserAt(n, "blocked", "after")
    /\ UNCHANGED <<spc, shutdown_mutex, callbacks_mutex, listVars, graph_gc, loopVars, stateVars, should_add,
                   eventVars, worldVars>>

(* check_and_clear, then service_is_ready. *)
CheckAndClear(n) ==
    /\ UserAt(n, "after", "test")
    /\ event' = [event EXCEPT ![n] = "clear"]
    /\ UNCHANGED <<spc, shutdown_mutex, callbacks_mutex, listVars, graph_gc, loopVars, stateVars, should_add,
                   expired, users, graph_mutex, worldVars>>

TestService(n) ==
    /\ upc[n] = "test"
    /\ IF ok /\ available THEN Leaves(n)
       ELSE upc' = [upc EXCEPT ![n] = "loop"] /\ UNCHANGED eventVars
    /\ UNCHANGED <<spc, shutdown_mutex, callbacks_mutex, listVars, graph_gc, loopVars, stateVars, should_add,
                   worldVars>>

-----------------------------------------------------------------------------
(* ~NodeGraph: a node that was never added has nothing to remove. *)
DestroyNodeGraph(n) ==
    /\ MayDestroy
    /\ UserAt(n, "idle", IF should_add[n] THEN "dead" ELSE "remove")
    /\ should_add' = [should_add EXCEPT ![n] = FALSE]
    /\ UNCHANGED <<spc, shutdown_mutex, callbacks_mutex, listVars, graph_gc, loopVars, stateVars, eventVars,
                   worldVars>>

(* remove_node_ throws when the node is not in the list, out of a destructor. *)
Removed(n) == IF n \in nodes THEN "dead" ELSE "terminated"

(* remove_node: without the lock once the listener is shut down. *)
remove_node(n) ==
    /\ upc[n] = "remove" /\ shutdown_mutex = Nobody
    /\ IF is_shutdown
       THEN /\ upc' = [upc EXCEPT ![n] = Removed(n)]
            /\ nodes' = nodes \ {n} /\ UNCHANGED shutdown_mutex
       ELSE /\ upc' = [upc EXCEPT ![n] = "remove_barrier"]
            /\ shutdown_mutex' = n /\ UNCHANGED nodes
    /\ UNCHANGED <<spc, callbacks_mutex, barrier, nodes_mutex, interrupt, graph_gc, loopVars, stateVars,
                   should_add, eventVars, worldVars>>

RemoveLocked(n) ==
    /\ upc[n] = "remove_lock" /\ nodes_mutex = Nobody
    /\ upc' = [upc EXCEPT ![n] = Removed(n)]
    /\ nodes' = nodes \ {n}
    /\ barrier' = Nobody /\ shutdown_mutex' = Nobody
    /\ UNCHANGED <<spc, nodes_mutex, callbacks_mutex, interrupt, graph_gc, loopVars, stateVars, should_add,
                   eventVars, worldVars>>

UserStep(n) ==
    \/ get_graph_event(n) \/ add_node(n) \/ AcquireBarrier(n) \/ AddLocked(n)
    \/ start_if_not_started(n) \/ RegisterCallback(n) \/ InitWaitSet(n)
    \/ WaitLoop(n) \/ wait_for_graph_change(n) \/ GraphCvWait(n) \/ Slice(n) \/ CheckAndClear(n)
    \/ TestService(n) \/ remove_node(n) \/ RemoveLocked(n)

-----------------------------------------------------------------------------
ShutterAt(from, to) == spc = from /\ spc' = to

(* Context::shutdown as the listener sees it: the context becomes invalid, and the
   on_shutdown callbacks run under their mutex. *)
RclShutdown ==
    /\ MayShutdown /\ ShutterAt("idle", "invalid")
    /\ ok' = FALSE
    /\ UNCHANGED <<upc, shutdown_mutex, callbacks_mutex, listVars, graph_gc, loopVars, stateVars, should_add,
                   eventVars, available, waits, changes>>

RunShutdownCallbacks ==
    /\ ShutterAt("invalid", IF registered THEN "listener" ELSE "leave") /\ callbacks_mutex = Nobody
    /\ callbacks_mutex' = S
    /\ UNCHANGED <<upc, shutdown_mutex, listVars, graph_gc, loopVars, stateVars, should_add, eventVars,
                   worldVars>>

(* __shutdown of the listener: the flag, then the interrupt of a started thread. *)
ShutdownBegin ==
    /\ spc = "listener" /\ shutdown_mutex = Nobody
    /\ shutdown_mutex' = S
    /\ is_shutdown' = TRUE
    /\ LET join == ~is_shutdown /\ is_started
       IN /\ spc' = IF join THEN "join" ELSE "unlock"
          /\ interrupt' = (interrupt \/ join)
    /\ UNCHANGED <<upc, callbacks_mutex, barrier, nodes_mutex, nodes, graph_gc, loopVars, is_started,
                   registered, should_add, eventVars, worldVars>>

ShutdownJoin ==
    /\ ShutterAt("join", "unlock") /\ lpc = "done"
    /\ UNCHANGED <<upc, shutdown_mutex, callbacks_mutex, listVars, graph_gc, loopVars, stateVars, should_add,
                   eventVars, worldVars>>

ShutdownEnd ==
    /\ \/ ShutterAt("unlock", "done") /\ shutdown_mutex' = Nobody
       \/ ShutterAt("leave", "done") /\ UNCHANGED shutdown_mutex
    /\ callbacks_mutex' = Nobody
    /\ UNCHANGED <<upc, listVars, graph_gc, loopVars, stateVars, should_add, eventVars, worldVars>>

Shutter == RunShutdownCallbacks \/ ShutdownBegin \/ ShutdownJoin \/ ShutdownEnd

(* The middleware reports that the service came or went to every node. *)
GraphChange ==
    /\ changes < MaxChanges
    /\ changes' = changes + 1 /\ available' = ~available
    /\ graph_gc' = [n \in Nodes |-> upc[n] \notin {"dead", "terminated"}]
    /\ UNCHANGED <<upc, spc, shutdown_mutex, callbacks_mutex, listVars, loopVars, stateVars, should_add,
                   eventVars, ok, waits>>

Next ==
    \/ Listener \/ Shutter \/ RclShutdown \/ GraphChange
    \/ \E n \in Nodes : wait_for_service(n) \/ UserStep(n) \/ DestroyNodeGraph(n)

Spec == Init /\ [][Next]_vars

Fairness ==
    /\ WF_vars(Listener) /\ WF_vars(Shutter)
    /\ \A n \in Nodes : WF_vars(UserStep(n))

FairSpec == Spec /\ Fairness

-----------------------------------------------------------------------------
(* The shapes of the state: where threads are, who holds what, and that a user holds
   its event exactly while it is in wait_for_service. *)
GraphTypeOK ==
    /\ lpc \in {"off", "top", "barrier", "lock", "build", "wait", "notify", "done"}
    /\ {barrier, nodes_mutex, shutdown_mutex, callbacks_mutex} \subseteq Threads \cup {Nobody}
    /\ \A n \in Nodes : graph_mutex[n] \in {n, Nobody}
    /\ nodes \subseteq Nodes /\ waited \subseteq Nodes /\ ready \subseteq Nodes
    /\ \A n \in Nodes :
          /\ expired[n] \in 0..MaxWaits /\ users[n] \in Nat
          /\ event[n] \in IF upc[n] \in {"idle", "get", "remove", "remove_barrier", "remove_lock", "dead",
                                         "terminated"}
                         THEN {"none"} ELSE {"clear", "set"}
    /\ {is_started, is_shutdown, registered, ok, available, interrupt} \subseteq BOOLEAN

(* The listener thread never keeps, waits on or notifies a node that has been destroyed:
   remove_node gets the nodes mutex from the blocked thread before the node goes. *)
NodesAlive ==
    \A n \in nodes \cup (IF lpc \in {"wait", "notify"} THEN waited ELSE {}) :
        upc[n] \notin {"dead", "terminated"}

(* graph_users_count_ counts the entries of graph_events_, the expired ones included:
   a node with a loaned event is never one the listener leaves out of its wait set. *)
UsersCountEvents ==
    \A n \in Nodes : users[n] = expired[n] + (IF event[n] = "none" THEN 0 ELSE 1)

NotWaiting(n) == upc[n] \in {"idle", "dead", "terminated"}
NoService == ok /\ ~available

ShutdownBegun == spc # "idle"
ShutdownDone == spc = "done"

=============================================================================
