-------------------------- MODULE AssociationProofs --------------------------
(***************************************************************************)
(* Proofs about Association, for any number of executors, nodes and        *)
(* callback groups, whoever adds, removes, creates and destroys them while *)
(* the executors spin.                                                     *)
(***************************************************************************)
EXTENDS Association, TLAPS

-----------------------------------------------------------------------------
(* The types, and who is inside the critical section of mutex_: a caller whose node was
   flagged, or the spinner that collects. *)
Jobs == [by : {Nothing, "caller", "spinner"}, todo : SUBSET Groups, group : Groups \cup {Nothing}]
Phases == {"stopped", "top", "collect", "waiting", "destroyed"}

Shape ==
    /\ nodes \subseteq Nodes /\ groups \subseteq Groups /\ unborn \subseteq Groups
    /\ entities \in [Groups -> SUBSET EntityKinds]
    /\ weak_nodes \in [Executors -> SUBSET Nodes]
    /\ by_hand \in [Executors -> SUBSET Groups] /\ by_node \in [Executors -> SUBSET Groups]
    /\ all \in [Executors -> SUBSET Groups] /\ conditions \in [Executors -> SUBSET Groups]
    /\ waited \in [Executors -> SUBSET Groups]
    /\ waiting \in [Executors -> SUBSET (Groups \X EntityKinds)]
    /\ pending \in [Executors -> Nodes \cup {Nothing}]
    /\ job \in [Executors -> Jobs]
    /\ spinner \in [Executors -> Phases]

(* What a loop over callback groups has still to visit exists: for_each_callback_group locks
   what it visits, and the caller holds the node. *)
Looping ==
    /\ notifiable \subseteq groups
    /\ \A x \in Executors :
          /\ job[x].todo \subseteq groups
          /\ job[x].group # Nothing => job[x].group \in groups
          /\ job[x].by = "caller" => pending[x] \in nodes
          /\ job[x].by = "spinner" <=> spinner[x] = "collect"

(* A group that is not created yet has left no trace, and a live group has a live node. *)
Births ==
    /\ groups \cap unborn = {}
    /\ \A g \in unborn : g \notin group_flag /\ \A x \in Executors : g \notin all[x]
    /\ \A g \in groups : NodeOf[g] \in nodes

(* Group g is in the maps of one executor, and in one of its two maps, or its flag is clear. *)
ServedOnce(g) ==
    /\ \A x \in Executors : ~(g \in by_hand[x] /\ g \in by_node[x])
    /\ \A x, y \in Executors : g \in all[x] /\ g \in all[y] => x = y
    /\ g \in group_flag <=> \E x \in Executors : g \in all[x]

Served ==
    /\ \A x \in Executors : all[x] = by_hand[x] \cup by_node[x]
    /\ \A g \in groups : ServedOnce(g)

AssocInv == Shape /\ Looping /\ Births /\ Served

-----------------------------------------------------------------------------
LEMMA InitAssoc == ASSUME Assumption, Init PROVE AssocInv
<1>1. Shape
  BY DEF Init, Shape, Assumption, NoJob, Jobs, Phases
<1>2. Looping
  BY DEF Init, Looping, NoJob, Nothing
<1>3. Births
  BY DEF Init, Births, Assumption
<1>4. Served
  BY DEF Init, Served, ServedOnce
<1> QED BY <1>1, <1>2, <1>3, <1>4 DEF AssocInv

(* An action is one of these; the entities' actions differ in the kind only. *)
LEMMA Actions ==
    ASSUME Next
    PROVE  \/ \E x \in Executors, n \in Nodes : add_node(x, n) \/ remove_node(x, n) \/ RemoveNodeThrows(x, n)
           \/ \E x \in Executors, g \in Groups :
                 add_callback_group(x, g) \/ remove_callback_group(x, g) \/ for_each_callback_group(x, g)
           \/ \E x \in Executors :
                 \/ add_callback_group_to_map(x) \/ AlreadyAdded(x) \/ AddNodeLocked(x) \/ AddNodeEnd(x)
                 \/ add_callback_groups_from_nodes_associated_to_executor(x)
                 \/ wait_for_work(x) \/ Woken(x) \/ Executed(x) \/ Start(x) \/ DestroyExecutor(x)
           \/ \E g \in Groups : create_callback_group(g) \/ DestroyGroup(g) \/ remove_waitable(g)
           \/ \E g \in Groups, kind \in Kinds : AddEntity(g, kind)
           \/ \E n \in Nodes : DestroyNode(n)
<1>1. ASSUME NEW g \in Groups, Creates(g)
      PROVE  \/ create_callback_group(g) \/ DestroyGroup(g) \/ remove_waitable(g)
             \/ \E kind \in Kinds : AddEntity(g, kind)
  BY <1>1 DEF Creates, Kinds, add_publisher, add_subscription, add_timer, add_service, add_client,
             add_waitable
<1> QED BY <1>1 DEF Next, Loop, Spinning

-----------------------------------------------------------------------------
(* The types. *)
LEMMA ShapeStep == ASSUME Assumption, AssocInv, Next PROVE Shape'
<1> USE DEF AssocInv, Shape
<1>1. ASSUME NEW x \in Executors, NEW n \in Nodes, add_node(x, n) PROVE Shape'
  BY <1>1 DEF add_node, world, maps, spin
<1>2. ASSUME NEW x \in Executors, NEW n \in Nodes, remove_node(x, n) PROVE Shape'
  BY <1>2 DEF remove_node, world, spin, Dissociate, RemovedConditions
<1>3. ASSUME NEW x \in Executors, NEW n \in Nodes, RemoveNodeThrows(x, n) PROVE Shape'
  BY <1>3 DEF RemoveNodeThrows, world, spin, Dissociate
<1>4. ASSUME NEW x \in Executors, NEW g \in Groups, add_callback_group(x, g) PROVE Shape'
  BY <1>4 DEF add_callback_group, world, spin, Associate
<1>5. ASSUME NEW x \in Executors, NEW g \in Groups, remove_callback_group(x, g) PROVE Shape'
  BY <1>5 DEF remove_callback_group, world, spin, Dissociate, RemovedConditions
<1>6. ASSUME NEW x \in Executors, NEW g \in Groups, for_each_callback_group(x, g) PROVE Shape'
  <2>1. PICK todo \in SUBSET Groups, group \in Groups \cup {Nothing} :
           job' = [job EXCEPT ![x].todo = todo, ![x].group = group]
    BY <1>6 DEF for_each_callback_group, Jobs
  <2>2. job' \in [Executors -> Jobs]
    BY <2>1 DEF Jobs
  <2> QED BY <1>6, <2>2 DEF for_each_callback_group, world, maps, spin
<1>7. ASSUME NEW x \in Executors, add_callback_group_to_map(x) PROVE Shape'
  <2>1. job[x].group \in Groups
    BY <1>7 DEF add_callback_group_to_map, Jobs
  <2>2. job' \in [Executors -> Jobs]
    BY <1>7 DEF add_callback_group_to_map, Jobs
  <2> QED BY <1>7, <2>1, <2>2 DEF add_callback_group_to_map, Associate, world, spin
<1>8. ASSUME NEW x \in Executors, AlreadyAdded(x) PROVE Shape'
  <2>1. job' \in [Executors -> Jobs]
    BY <1>8 DEF AlreadyAdded, Jobs, NoJob
  <2>2. pending' \in [Executors -> Nodes \cup {Nothing}] /\ spinner' \in [Executors -> Phases]
    BY <1>8 DEF AlreadyAdded, Phases
  <2> QED BY <1>8, <2>1, <2>2 DEF AlreadyAdded, world, maps
<1>9. ASSUME NEW x \in Executors, AddNodeLocked(x) PROVE Shape'
  <2>1. job' \in [Executors -> Jobs]
    BY <1>9 DEF AddNodeLocked, Jobs, GroupsOf
  <2> QED BY <1>9, <2>1 DEF AddNodeLocked, world, maps, spin
<1>10. ASSUME NEW x \in Executors, AddNodeEnd(x) PROVE Shape'
  <2>1. job' \in [Executors -> Jobs]
    BY <1>10 DEF AddNodeEnd, Jobs, NoJob
  <2>2. pending[x] \in Nodes
    BY <1>10 DEF AddNodeEnd, Looping
  <2> QED BY <1>10, <2>1, <2>2 DEF AddNodeEnd, world, spin
<1>11. ASSUME NEW x \in Executors, add_callback_groups_from_nodes_associated_to_executor(x) PROVE Shape'
  <2>1. UNION {GroupsOf(n) : n \in weak_nodes[x] \cap nodes} \subseteq Groups
    BY DEF GroupsOf
  <2>2. job' \in [Executors -> Jobs]
    BY <1>11, <2>1 DEF add_callback_groups_from_nodes_associated_to_executor, Jobs
  <2> QED BY <1>11, <2>2 DEF add_callback_groups_from_nodes_associated_to_executor, world, maps, Phases
<1>12. ASSUME NEW x \in Executors, wait_for_work(x) PROVE Shape'
  <2>1. job' \in [Executors -> Jobs]
    BY <1>12 DEF wait_for_work, Jobs, NoJob
  <2>2. UNION {{<<g, k>> : k \in entities[g]} : g \in all[x] \ Expired(x)} \subseteq Groups \X EntityKinds
    OBVIOUS
  <2>3. waiting' \in [Executors -> SUBSET (Groups \X EntityKinds)]
    BY <1>12, <2>2 DEF wait_for_work
  <2>4. /\ all' \in [Executors -> SUBSET Groups] /\ by_hand' \in [Executors -> SUBSET Groups]
        /\ by_node' \in [Executors -> SUBSET Groups] /\ conditions' \in [Executors -> SUBSET Groups]
    BY <1>12 DEF wait_for_work, CleanUp
  <2> QED BY <1>12, <2>1, <2>3, <2>4 DEF wait_for_work, world, Phases
<1>13. ASSUME NEW x \in Executors, Woken(x) PROVE Shape'
  BY <1>13 DEF Woken, world, maps, Phases
<1>14. ASSUME NEW x \in Executors, Executed(x) \/ Start(x) PROVE Shape'
  BY <1>14 DEF Executed, Start, world, maps, Phases
<1>15. ASSUME NEW x \in Executors, DestroyExecutor(x) PROVE Shape'
  BY <1>15 DEF DestroyExecutor, world, Phases
<1>16. ASSUME NEW g \in Groups, create_callback_group(g) PROVE Shape'
  BY <1>16 DEF create_callback_group, maps, spin
<1>17. ASSUME NEW g \in Groups, NEW kind \in Kinds, AddEntity(g, kind) PROVE Shape'
  BY <1>17 DEF AddEntity, maps, spin
<1>18. ASSUME NEW g \in Groups, remove_waitable(g) PROVE Shape'
  BY <1>18 DEF remove_waitable, maps, spin
<1>19. ASSUME NEW g \in Groups, DestroyGroup(g) PROVE Shape'
  BY <1>19 DEF DestroyGroup, DestroyGroups, maps, spin
<1>20. ASSUME NEW n \in Nodes, DestroyNode(n) PROVE Shape'
  BY <1>20 DEF DestroyNode, DestroyGroups, maps, spin
<1> QED
  BY Actions, <1>1, <1>2, <1>3, <1>4, <1>5, <1>6, <1>7, <1>8, <1>9, <1>10, <1>11, <1>12, <1>13, <1>14,
     <1>15, <1>16, <1>17, <1>18, <1>19, <1>20

(* The loops over callback groups. *)
LEMMA LoopingStep == ASSUME Assumption, AssocInv, Next PROVE Looping'
<1> USE DEF AssocInv, Looping
<1>1. ASSUME NEW x \in Executors, NEW n \in Nodes, add_node(x, n) PROVE Looping'
  BY <1>1 DEF add_node, Shape, world, spin
<1>2. ASSUME NEW x \in Executors, NEW n \in Nodes, remove_node(x, n) \/ RemoveNodeThrows(x, n)
      PROVE  Looping'
  BY <1>2 DEF remove_node, RemoveNodeThrows, world, spin
<1>3. ASSUME NEW x \in Executors, NEW g \in Groups, add_callback_group(x, g) PROVE Looping'
  BY <1>3 DEF add_callback_group, world, spin, Associate
<1>4. ASSUME NEW x \in Executors, NEW g \in Groups, remove_callback_group(x, g) PROVE Looping'
  BY <1>4 DEF remove_callback_group, world, spin
<1>5. ASSUME NEW x \in Executors, NEW g \in Groups, for_each_callback_group(x, g) PROVE Looping'
  BY <1>5 DEF for_each_callback_group, world, spin, Shape, Jobs
<1>6. ASSUME NEW x \in Executors, add_callback_group_to_map(x) PROVE Looping'
  BY <1>6 DEF add_callback_group_to_map, Associate, world, spin, Shape, Jobs
<1>7. ASSUME NEW x \in Executors, AlreadyAdded(x) PROVE Looping'
  BY <1>7 DEF AlreadyAdded, world, NoJob, Nothing, Shape, Jobs, Phases
<1>8. ASSUME NEW x \in Executors, AddNodeLocked(x) PROVE Looping'
  BY <1>8 DEF AddNodeLocked, Unlocked, GroupsOf, Nothing, world, spin, Shape, Jobs
<1>9. ASSUME NEW x \in Executors, AddNodeEnd(x) PROVE Looping'
  BY <1>9 DEF AddNodeEnd, NoJob, Nothing, world, spin, Shape, Jobs
<1>10. ASSUME NEW x \in Executors, add_callback_groups_from_nodes_associated_to_executor(x) PROVE Looping'
  <2>1. UNION {GroupsOf(n) : n \in weak_nodes[x] \cap nodes} \subseteq groups
    BY DEF GroupsOf
  <2> QED
    BY <1>10, <2>1 DEF add_callback_groups_from_nodes_associated_to_executor, world, Unlocked, Nothing,
                       Shape, Jobs, Phases
<1>11. ASSUME NEW x \in Executors, wait_for_work(x) PROVE Looping'
  BY <1>11 DEF wait_for_work, NoJob, Nothing, world, Shape, Jobs, Phases
<1>12. ASSUME NEW x \in Executors, Woken(x) \/ Executed(x) \/ Start(x) \/ DestroyExecutor(x) PROVE Looping'
  BY <1>12 DEF Woken, Executed, Start, DestroyExecutor, world, Shape, Phases
<1>13. ASSUME NEW g \in Groups, create_callback_group(g) PROVE Looping'
  BY <1>13 DEF create_callback_group, spin
<1>14. ASSUME NEW g \in Groups, NEW kind \in Kinds, AddEntity(g, kind) \/ remove_waitable(g) PROVE Looping'
  BY <1>14 DEF AddEntity, remove_waitable, spin
<1>15. ASSUME NEW g \in Groups, DestroyGroup(g) PROVE Looping'
  BY <1>15 DEF DestroyGroup, DestroyGroups, spin
<1>16. ASSUME NEW n \in Nodes, DestroyNode(n) PROVE Looping'
  BY <1>16 DEF DestroyNode, DestroyGroups, spin
<1> QED
  BY Actions, <1>1, <1>2, <1>3, <1>4, <1>5, <1>6, <1>7, <1>8, <1>9, <1>10, <1>11, <1>12, <1>13, <1>14,
     <1>15, <1>16 DEF Kinds

-----------------------------------------------------------------------------
(* Births: flags and maps only take up groups that exist. *)
LEMMA BirthsStep == ASSUME Assumption, AssocInv, Next PROVE Births'
<1> USE DEF AssocInv, Births
<1>1. ASSUME NEW x \in Executors, NEW n \in Nodes, add_node(x, n) PROVE Births'
  BY <1>1 DEF add_node, world, maps
<1>2. ASSUME NEW x \in Executors, NEW n \in Nodes, remove_node(x, n) PROVE Births'
  BY <1>2 DEF remove_node, Dissociate, world, Shape
<1>3. ASSUME NEW x \in Executors, NEW n \in Nodes, RemoveNodeThrows(x, n) PROVE Births'
  BY <1>3 DEF RemoveNodeThrows, Dissociate, world, Shape
<1>4. ASSUME NEW x \in Executors, NEW g \in Groups, add_callback_group(x, g) PROVE Births'
  BY <1>4 DEF add_callback_group, world, Associate, Shape
<1>5. ASSUME NEW x \in Executors, NEW g \in Groups, remove_callback_group(x, g) PROVE Births'
  BY <1>5 DEF remove_callback_group, Dissociate, world, Shape
<1>6. ASSUME NEW x \in Executors, add_callback_group_to_map(x) PROVE Births'
  BY <1>6 DEF add_callback_group_to_map, Associate, world, Looping, Shape
<1>7. ASSUME NEW x \in Executors,
             \/ AlreadyAdded(x) \/ AddNodeLocked(x) \/ \E g \in Groups : for_each_callback_group(x, g)
             \/ add_callback_groups_from_nodes_associated_to_executor(x)
             \/ Woken(x) \/ Executed(x) \/ Start(x)
      PROVE  Births'
  <2>1. UNCHANGED <<world, flags, maps>>
    BY <1>7 DEF AlreadyAdded, AddNodeLocked, for_each_callback_group, Woken, Executed, Start,
               add_callback_groups_from_nodes_associated_to_executor
  <2> QED BY <2>1 DEF world, flags, maps
<1>8. ASSUME NEW x \in Executors, AddNodeEnd(x) PROVE Births'
  BY <1>8 DEF AddNodeEnd, world, flags
<1>9. ASSUME NEW x \in Executors, wait_for_work(x) PROVE Births'
  BY <1>9 DEF wait_for_work, CleanUp, world, flags, Shape
<1>10. ASSUME NEW x \in Executors, DestroyExecutor(x) PROVE Births'
  BY <1>10 DEF DestroyExecutor, world, Shape
<1>11. ASSUME NEW g \in Groups, create_callback_group(g) PROVE Births'
  BY <1>11 DEF create_callback_group, flags, maps
<1>12. ASSUME NEW g \in Groups, NEW kind \in Kinds, AddEntity(g, kind) \/ remove_waitable(g) PROVE Births'
  BY <1>12 DEF AddEntity, remove_waitable, flags, maps
<1>13. ASSUME NEW g \in Groups, DestroyGroup(g) PROVE Births'
  BY <1>13 DEF DestroyGroup, DestroyGroups, flags, maps
<1>14. ASSUME NEW n \in Nodes, DestroyNode(n) PROVE Births'
  BY <1>14 DEF DestroyNode, DestroyGroups, GroupsOf, flags, maps
<1> QED
  BY Actions, <1>1, <1>2, <1>3, <1>4, <1>5, <1>6, <1>7, <1>8, <1>9, <1>10, <1>11, <1>12, <1>13, <1>14
     DEF Kinds

-----------------------------------------------------------------------------
(* The maps and the flags. Whoever wins the exchange of the flag of g puts it into its own
   maps, so that it cannot be in another executor's (executor.cpp:208-222). *)
LEMMA AssociateServes ==
    ASSUME AssocInv, NEW x \in Executors, NEW g \in groups, Associate(x, g), UNCHANGED groups,
           \/ by_hand' = [by_hand EXCEPT ![x] = @ \cup {g}] /\ UNCHANGED by_node
           \/ by_node' = [by_node EXCEPT ![x] = @ \cup {g}] /\ UNCHANGED by_hand
    PROVE  Served'
<1> USE DEF AssocInv, Shape, Served
<1>1. \A y \in Executors : g \notin all[y] /\ g \notin by_hand[y] /\ g \notin by_node[y]
  BY DEF ServedOnce, Associate
<1>2. \A y \in Executors : all'[y] = IF y = x THEN all[y] \cup {g} ELSE all[y]
  BY DEF Associate
<1>3. \A y \in Executors : all'[y] = by_hand'[y] \cup by_node'[y]
  BY <1>2
<1>4. ASSUME NEW h \in groups PROVE ServedOnce(h)'
  <2>1. CASE h = g
    BY <2>1, <1>1, <1>2, <1>3 DEF ServedOnce, Associate
  <2>2. CASE h # g
    <3>1. \A y \in Executors :
             /\ h \in all'[y] <=> h \in all[y]
             /\ h \in by_hand'[y] <=> h \in by_hand[y]
             /\ h \in by_node'[y] <=> h \in by_node[y]
      BY <2>2 DEF Associate
    <3>2. h \in group_flag' <=> h \in group_flag
      BY <2>2 DEF Associate
    <3> QED BY <3>1, <3>2 DEF ServedOnce
  <2> QED BY <2>1, <2>2
<1> QED BY <1>3, <1>4

(* What leaves the maps of an executor, alive, loses its flag; what was not alive does not
   matter. *)
LEMMA DissociateServes ==
    ASSUME AssocInv, NEW x \in Executors, NEW G, UNCHANGED groups,
           \A g \in G \cap groups : g \in all[x],
           all' = [all EXCEPT ![x] = @ \ G],
           \A g \in groups : g \in group_flag' <=> g \in group_flag /\ g \notin G,
           \A y \in Executors : all'[y] = by_hand'[y] \cup by_node'[y],
           \A y \in Executors : by_hand'[y] \subseteq by_hand[y] /\ by_node'[y] \subseteq by_node[y]
    PROVE  Served'
<1> USE DEF AssocInv, Shape, Served
<1>1. \A y \in Executors : all'[y] = IF y = x THEN all[y] \ G ELSE all[y]
  OBVIOUS
<1>2. ASSUME NEW h \in groups PROVE ServedOnce(h)'
  <2>1. h \in group_flag' <=> \E y \in Executors : h \in all'[y]
    <3>1. CASE h \in G
      <4>1. h \in all[x] /\ \A y \in Executors : h \in all[y] => y = x
        BY <3>1 DEF ServedOnce
      <4> QED BY <3>1, <4>1, <1>1
    <3>2. CASE h \notin G
      BY <3>2, <1>1 DEF ServedOnce
    <3> QED BY <3>1, <3>2
  <2>2. \A y \in Executors : ~(h \in by_hand'[y] /\ h \in by_node'[y])
    BY DEF ServedOnce
  <2>3. \A y, z \in Executors : h \in all'[y] /\ h \in all'[z] => y = z
    BY <1>1 DEF ServedOnce
  <2> QED BY <2>1, <2>2, <2>3 DEF ServedOnce
<1> QED BY <1>2

LEMMA ServedStep == ASSUME Assumption, AssocInv, Next PROVE Served'
<1>1. ASSUME groups' \subseteq groups, UNCHANGED <<group_flag, by_hand, by_node, all>> PROVE Served'
  BY <1>1 DEF AssocInv, Served, ServedOnce
<1>2. ASSUME NEW x \in Executors, NEW n \in Nodes, add_node(x, n) PROVE Served'
  BY <1>1, <1>2 DEF add_node, world, maps
<1>3. ASSUME NEW x \in Executors, NEW n \in Nodes, remove_node(x, n) PROVE Served'
  <2> DEFINE G == {g \in by_node[x] : NodeOf[g] = n}
  <2>1. /\ G \subseteq groups /\ UNCHANGED <<groups, by_hand>>
        /\ all' = [all EXCEPT ![x] = @ \ G] /\ group_flag' = group_flag \ G
        /\ by_node' = [by_node EXCEPT ![x] = @ \ G]
    BY <1>3 DEF remove_node, Dissociate, world
  <2>2. \A g \in G \cap groups : g \in all[x] /\ g \notin by_hand[x]
    BY <2>1 DEF AssocInv, Served, ServedOnce
  <2>3. \A y \in Executors : all'[y] = by_hand'[y] \cup by_node'[y]
    BY <2>1, <2>2 DEF AssocInv, Served, Shape
  <2>4. \A y \in Executors : by_hand'[y] \subseteq by_hand[y] /\ by_node'[y] \subseteq by_node[y]
    BY <2>1 DEF AssocInv, Shape
  <2> HIDE DEF G
  <2> QED BY <2>1, <2>2, <2>3, <2>4, DissociateServes
<1>4. ASSUME NEW x \in Executors, NEW n \in Nodes, RemoveNodeThrows(x, n) PROVE Served'
  <2>1. PICK gone \in SUBSET (by_node[x] \cap groups) :
           /\ all' = [all EXCEPT ![x] = @ \ gone] /\ group_flag' = group_flag \ gone
           /\ by_node' = [by_node EXCEPT ![x] = @ \ gone]
    BY <1>4 DEF RemoveNodeThrows, Dissociate
  <2>2. UNCHANGED <<groups, by_hand>>
    BY <1>4 DEF RemoveNodeThrows, world
  <2>3. \A g \in gone : g \in all[x] /\ g \notin by_hand[x]
    BY <2>1 DEF AssocInv, Served, ServedOnce
  <2>4. \A y \in Executors : all'[y] = by_hand'[y] \cup by_node'[y]
    BY <2>1, <2>2, <2>3 DEF AssocInv, Served, Shape
  <2>5. \A y \in Executors : by_hand'[y] \subseteq by_hand[y] /\ by_node'[y] \subseteq by_node[y]
    BY <2>1, <2>2 DEF AssocInv, Shape
  <2> QED BY <2>1, <2>2, <2>3, <2>4, <2>5, DissociateServes
<1>5. ASSUME NEW x \in Executors, NEW g \in Groups, add_callback_group(x, g) PROVE Served'
  BY <1>5, AssociateServes DEF add_callback_group, world
<1>6. ASSUME NEW x \in Executors, NEW g \in Groups, remove_callback_group(x, g) PROVE Served'
  <2>1. /\ g \in by_hand[x] /\ g \in groups /\ UNCHANGED <<groups, by_node>>
        /\ all' = [all EXCEPT ![x] = @ \ {g}] /\ group_flag' = group_flag \ {g}
        /\ by_hand' = [by_hand EXCEPT ![x] = @ \ {g}]
    BY <1>6 DEF remove_callback_group, Dissociate, world
  <2>2. g \in all[x] /\ g \notin by_node[x]
    BY <2>1 DEF AssocInv, Served, ServedOnce
  <2>3. \A y \in Executors : all'[y] = by_hand'[y] \cup by_node'[y]
    BY <2>1, <2>2 DEF AssocInv, Served, Shape
  <2>4. \A y \in Executors : by_hand'[y] \subseteq by_hand[y] /\ by_node'[y] \subseteq by_node[y]
    BY <2>1 DEF AssocInv, Shape
  <2> QED BY <2>1, <2>2, <2>3, <2>4, DissociateServes
<1>7. ASSUME NEW x \in Executors, add_callback_group_to_map(x) PROVE Served'
  <2>1. job[x].group \in groups
    BY <1>7 DEF add_callback_group_to_map, AssocInv, Looping
  <2> QED BY <1>7, <2>1, AssociateServes DEF add_callback_group_to_map, world
<1>8. ASSUME NEW x \in Executors,
             \/ AlreadyAdded(x) \/ AddNodeLocked(x) \/ \E g \in Groups : for_each_callback_group(x, g)
             \/ add_callback_groups_from_nodes_associated_to_executor(x)
             \/ Woken(x) \/ Executed(x) \/ Start(x)
      PROVE  Served'
  <2>1. UNCHANGED <<world, flags, maps>>
    BY <1>8 DEF AlreadyAdded, AddNodeLocked, for_each_callback_group, Woken, Executed, Start,
               add_callback_groups_from_nodes_associated_to_executor
  <2> QED BY <2>1, <1>1 DEF world, flags, maps
<1>9. ASSUME NEW x \in Executors, AddNodeEnd(x) PROVE Served'
  BY <1>9, <1>1 DEF AddNodeEnd, world, flags
<1>10. ASSUME NEW x \in Executors, wait_for_work(x) PROVE Served'
  <2>1. \A g \in Expired(x) : g \notin groups
    BY DEF Expired, AssocInv, Births
  <2>2. /\ UNCHANGED <<groups, group_flag>>
        /\ all' = [all EXCEPT ![x] = @ \ Expired(x)]
        /\ by_hand' = [by_hand EXCEPT ![x] = @ \ Expired(x)]
        /\ by_node' = [by_node EXCEPT ![x] = @ \ Expired(x)]
    BY <1>10 DEF wait_for_work, CleanUp, world, flags
  <2>3. \A y \in Executors : all'[y] = by_hand'[y] \cup by_node'[y]
    BY <2>2 DEF AssocInv, Served, Shape
  <2>4. \A y \in Executors : by_hand'[y] \subseteq by_hand[y] /\ by_node'[y] \subseteq by_node[y]
    BY <2>2 DEF AssocInv, Shape
  <2> QED BY <2>1, <2>2, <2>3, <2>4, DissociateServes
<1>11. ASSUME NEW x \in Executors, DestroyExecutor(x) PROVE Served'
  <2>1. /\ UNCHANGED groups /\ group_flag' = group_flag \ (all[x] \cap groups)
        /\ all' = [all EXCEPT ![x] = {}]
        /\ by_hand' = [by_hand EXCEPT ![x] = {}] /\ by_node' = [by_node EXCEPT ![x] = {}]
    BY <1>11 DEF DestroyExecutor, world
  <2>2. all' = [all EXCEPT ![x] = @ \ all[x]]
    BY <2>1 DEF AssocInv, Shape
  <2>3. \A y \in Executors : all'[y] = by_hand'[y] \cup by_node'[y]
    BY <2>1 DEF AssocInv, Served, Shape
  <2>4. \A y \in Executors : by_hand'[y] \subseteq by_hand[y] /\ by_node'[y] \subseteq by_node[y]
    BY <2>1 DEF AssocInv, Shape
  <2> QED BY <2>1, <2>2, <2>3, <2>4, DissociateServes
<1>12. ASSUME NEW g \in Groups, create_callback_group(g) PROVE Served'
  <2>1. g \in unborn /\ groups' = groups \cup {g} /\ UNCHANGED <<group_flag, by_hand, by_node, all>>
    BY <1>12 DEF create_callback_group, flags, maps
  <2>2. ServedOnce(g)
    BY <2>1 DEF AssocInv, Births, Served, ServedOnce
  <2> QED BY <2>1, <2>2 DEF AssocInv, Served, ServedOnce
<1>13. ASSUME NEW g \in Groups, NEW kind \in Kinds, AddEntity(g, kind) \/ remove_waitable(g) PROVE Served'
  BY <1>13, <1>1 DEF AddEntity, remove_waitable, flags, maps
<1>14. ASSUME NEW g \in Groups, DestroyGroup(g) PROVE Served'
  BY <1>14, <1>1 DEF DestroyGroup, DestroyGroups, flags, maps
<1>15. ASSUME NEW n \in Nodes, DestroyNode(n) PROVE Served'
  BY <1>15, <1>1 DEF DestroyNode, DestroyGroups, flags, maps
<1> QED
  BY Actions, <1>2, <1>3, <1>4, <1>5, <1>6, <1>7, <1>8, <1>9, <1>10, <1>11, <1>12, <1>13, <1>14, <1>15
     DEF Kinds

-----------------------------------------------------------------------------
LEMMA AssocStep == ASSUME Assumption, AssocInv, [Next]_vars PROVE AssocInv'
<1>1. CASE Next
  BY <1>1, ShapeStep, LoopingStep, BirthsStep, ServedStep DEF AssocInv
<1>2. CASE UNCHANGED vars
  BY <1>2 DEF AssocInv, Shape, Looping, Births, Served, ServedOnce, vars, world, flags, maps, signals, spin
<1> QED BY <1>1, <1>2

(* The invariant always holds. *)
LEMMA AssocAlways == ASSUME Assumption PROVE Spec => []AssocInv
<1>1. Init => AssocInv
  BY InitAssoc
<1>2. AssocInv /\ [Next]_vars => AssocInv'
  BY AssocStep
<1> QED BY <1>1, <1>2, PTL DEF Spec

(* The state is well typed: mutex_ is held by a caller only for a node that exists and by the
   spinner exactly while it collects (executor.cpp:262-283, 735-755). *)
THEOREM AssociationTypes == ASSUME Assumption PROVE Spec => []AssociationTypeOK
<1>1. ASSUME AssocInv PROVE AssociationTypeOK
  <2>1. \A f \in {by_hand, by_node, all, conditions, waited} : f \in [Executors -> SUBSET Groups]
    BY <1>1 DEF AssocInv, Shape
  <2>2. \A x \in Executors : job[x].group # Nothing => job[x].group \in Groups
    BY <1>1 DEF AssocInv, Shape, Looping
  <2>3. \A x \in Executors : waiting[x] \subseteq Groups \X EntityKinds
    BY <1>1 DEF AssocInv, Shape
  <2> QED BY <1>1, <2>1, <2>2, <2>3 DEF AssocInv, Shape, Looping, AssociationTypeOK
<1> QED BY <1>1, AssocAlways, PTL

(* However callers and spinners race, a live group is in one map of one executor, the map that
   is collected from is the union of the two, and the flag of a live group is set exactly while
   an executor has it. *)
THEOREM GroupsServedOnce == ASSUME Assumption PROVE Spec => [](InOneExecutor /\ MapsAgree)
<1>1. ASSUME AssocInv PROVE InOneExecutor /\ MapsAgree
  BY <1>1 DEF AssocInv, Served, ServedOnce, InOneExecutor, MapsAgree
<1> QED BY <1>1, AssocAlways, PTL

-----------------------------------------------------------------------------
(* Guard conditions. Only the removal of the last group of a node takes its guard condition out
   of the executor (remove_callback_group_from_map), so a node may have but one. *)
OneGroupPerNode == \A g, h \in Groups : NodeOf[g] = NodeOf[h] => g = h

(* An executor waits on the guard conditions of groups that it has. *)
Watching == \A x \in Executors : conditions[x] \subseteq all[x]

LEMMA WatchingStep ==
    ASSUME Assumption, OneGroupPerNode, AssocInv, Watching, Next PROVE Watching'
<1> USE DEF Watching
<1>1. ASSUME UNCHANGED <<conditions, all>> PROVE Watching'
  BY <1>1
<1>2. ASSUME NEW x \in Executors, NEW g, Associate(x, g) PROVE Watching'
  BY <1>2 DEF Associate, AssocInv, Shape
<1>3. ASSUME NEW x \in Executors, NEW n \in Nodes, remove_node(x, n) PROVE Watching'
  <2> DEFINE G == {g \in by_node[x] : NodeOf[g] = n}
             left == \E h \in by_hand[x] : NodeOf[h] = n
  <2>1. G \subseteq groups /\ all' = [all EXCEPT ![x] = @ \ G]
    BY <1>3 DEF remove_node, Dissociate
  <2>2. CASE G = {} /\ UNCHANGED conditions
    BY <2>1, <2>2 DEF AssocInv, Shape
  <2>3. ASSUME NEW last \in G, conditions' = [conditions EXCEPT ![x] = RemovedConditions(x, last, left)]
        PROVE  Watching'
    <3>1. G = {last}
      BY <2>3 DEF OneGroupPerNode, AssocInv, Shape
    <3>2. ~left
      <4>1. \A h \in by_hand[x] : NodeOf[h] = n => h = last
        BY <2>3 DEF OneGroupPerNode, AssocInv, Shape
      <4>2. last \notin by_hand[x]
        BY <2>1, <2>3 DEF AssocInv, Served, ServedOnce
      <4> QED BY <4>1, <4>2
    <3>3. conditions' = [conditions EXCEPT ![x] = @ \ {last}]
      BY <2>3, <3>2 DEF RemovedConditions
    <3> HIDE DEF G
    <3> QED BY <2>1, <3>1, <3>3 DEF AssocInv, Shape
  <2> QED BY <1>3, <2>2, <2>3 DEF remove_node
<1>4. ASSUME NEW x \in Executors, NEW n \in Nodes, RemoveNodeThrows(x, n) PROVE Watching'
  <2> DEFINE G == {g \in by_node[x] : NodeOf[g] = n}
  <2>1. PICK dead \in G : dead \notin groups
    BY <1>4 DEF RemoveNodeThrows
  <2>2. G = {dead}
    BY <2>1 DEF OneGroupPerNode, AssocInv, Shape
  <2>3. all' = [all EXCEPT ![x] = @ \ {}]
    BY <1>4, <2>1, <2>2 DEF RemoveNodeThrows, Dissociate
  <2>4. UNCHANGED conditions
    BY <1>4 DEF RemoveNodeThrows
  <2> QED BY <2>3, <2>4 DEF AssocInv, Shape
<1>5. ASSUME NEW x \in Executors, NEW g \in Groups, remove_callback_group(x, g) PROVE Watching'
  <2> DEFINE left == \E h \in (by_hand[x] \cup by_node[x]) \ {g} : NodeOf[h] = NodeOf[g]
  <2>1. ~left
    BY DEF OneGroupPerNode, AssocInv, Shape
  <2>2. conditions' = [conditions EXCEPT ![x] = RemovedConditions(x, g, left)]
    BY <1>5 DEF remove_callback_group
  <2>3. conditions' = [conditions EXCEPT ![x] = @ \ {g}]
    BY <2>1, <2>2 DEF RemovedConditions
  <2>4. all' = [all EXCEPT ![x] = @ \ {g}]
    BY <1>5 DEF remove_callback_group, Dissociate
  <2> QED BY <2>3, <2>4 DEF AssocInv, Shape
<1>6. ASSUME NEW x \in Executors, wait_for_work(x) PROVE Watching'
  BY <1>6 DEF wait_for_work, CleanUp, AssocInv, Shape
<1>7. ASSUME NEW x \in Executors, DestroyExecutor(x) PROVE Watching'
  BY <1>7 DEF DestroyExecutor, AssocInv, Shape
<1>8. ASSUME NEW x \in Executors, NEW g \in Groups, add_callback_group(x, g) PROVE Watching'
  BY <1>8, <1>2 DEF add_callback_group
<1>9. ASSUME NEW x \in Executors, add_callback_group_to_map(x) PROVE Watching'
  BY <1>9, <1>2 DEF add_callback_group_to_map
<1>10. ASSUME NEW x \in Executors,
              \/ \E n \in Nodes : add_node(x, n)
              \/ AlreadyAdded(x) \/ AddNodeLocked(x) \/ AddNodeEnd(x)
              \/ \E g \in Groups : for_each_callback_group(x, g)
              \/ add_callback_groups_from_nodes_associated_to_executor(x)
              \/ Woken(x) \/ Executed(x) \/ Start(x)
       PROVE  Watching'
  BY <1>10, <1>1 DEF add_node, AlreadyAdded, AddNodeLocked, AddNodeEnd, for_each_callback_group, Woken,
       Executed, Start, add_callback_groups_from_nodes_associated_to_executor, maps
<1>11. ASSUME NEW g \in Groups, NEW kind \in Kinds,
              AddEntity(g, kind) \/ remove_waitable(g) \/ create_callback_group(g) \/ DestroyGroup(g)
       PROVE  Watching'
  BY <1>11, <1>1 DEF AddEntity, remove_waitable, create_callback_group, DestroyGroup, DestroyGroups, maps
<1>12. ASSUME NEW n \in Nodes, DestroyNode(n) PROVE Watching'
  BY <1>12, <1>1 DEF DestroyNode, DestroyGroups, maps
<1> QED
  BY Actions, <1>3, <1>4, <1>5, <1>6, <1>7, <1>8, <1>9, <1>10, <1>11, <1>12 DEF Kinds

(* Only wait_for_work puts an executor to sleep, and what it then waits on is alive. *)
LEMMA AliveStep ==
    ASSUME Assumption, AssocInv, Watching, [Next]_vars PROVE ConditionsAlive
<1> SUFFICES ASSUME NEW x \in Executors, spinner[x] = "collect", spinner'[x] = "waiting"
             PROVE  waited'[x] \subseteq groups
  BY DEF ConditionsAlive
<1>1. CASE wait_for_work(x)
  <2>1. conditions'[x] = conditions[x] \ Expired(x)
    BY <1>1 DEF wait_for_work, CleanUp, AssocInv, Shape
  <2>2. waited'[x] = conditions'[x]
    BY <1>1 DEF wait_for_work, AssocInv, Shape
  <2>3. \A g \in all[x] \ Expired(x) : g \in groups
    BY DEF Expired
  <2> QED BY <2>1, <2>2, <2>3 DEF Watching
<1>2. ASSUME NEW y \in Executors, wait_for_work(y), y # x PROVE FALSE
  BY <1>2 DEF wait_for_work, AssocInv, Shape
<1>3. ASSUME NEW y \in Executors, Woken(y) PROVE FALSE
  BY <1>3 DEF Woken, AssocInv, Shape
<1>4. ASSUME NEW y \in Executors, Executed(y) \/ Start(y) \/ DestroyExecutor(y) PROVE FALSE
  BY <1>4 DEF Executed, Start, DestroyExecutor, AssocInv, Shape
<1>5. ASSUME NEW y \in Executors, AlreadyAdded(y) PROVE FALSE
  BY <1>5 DEF AlreadyAdded, AssocInv, Shape
<1>6. ASSUME NEW y \in Executors, add_callback_groups_from_nodes_associated_to_executor(y) PROVE FALSE
  BY <1>6 DEF add_callback_groups_from_nodes_associated_to_executor, AssocInv, Shape
<1>7. ASSUME UNCHANGED spinner PROVE FALSE
  BY <1>7
<1>8. ASSUME NEW y \in Executors,
             \/ \E n \in Nodes : add_node(y, n) \/ remove_node(y, n) \/ RemoveNodeThrows(y, n)
             \/ \E g \in Groups : add_callback_group(y, g) \/ remove_callback_group(y, g)
             \/ \E g \in Groups : for_each_callback_group(y, g)
             \/ add_callback_group_to_map(y) \/ AddNodeLocked(y) \/ AddNodeEnd(y)
      PROVE  FALSE
  BY <1>8, <1>7 DEF add_node, remove_node, RemoveNodeThrows, add_callback_group, remove_callback_group,
       for_each_callback_group, add_callback_group_to_map, AddNodeLocked, AddNodeEnd, spin
<1>9. ASSUME NEW g \in Groups, NEW kind \in Kinds,
             AddEntity(g, kind) \/ remove_waitable(g) \/ create_callback_group(g) \/ DestroyGroup(g)
      PROVE  FALSE
  BY <1>9, <1>7 DEF AddEntity, remove_waitable, create_callback_group, DestroyGroup, DestroyGroups, spin
<1>10. ASSUME NEW n \in Nodes, DestroyNode(n) PROVE FALSE
  BY <1>10, <1>7 DEF DestroyNode, DestroyGroups, spin
<1>11. CASE UNCHANGED vars
  BY <1>11, <1>7 DEF vars, spin
<1> QED
  BY Actions, <1>1, <1>2, <1>3, <1>4, <1>5, <1>6, <1>8, <1>9, <1>10, <1>11 DEF Kinds

(* The guard conditions in a wait set, raw pointers into callback groups, all exist when
   wait_for_work uses them, if no node has a second group (executor.cpp:748-753, 774). *)
THEOREM GuardConditionsAlive ==
    ASSUME Assumption, OneGroupPerNode PROVE Spec => [][ConditionsAlive]_vars
<1>1. Init => Watching
  BY DEF Init, Watching
<1>2. AssocInv /\ Watching /\ [Next]_vars => Watching'
  BY WatchingStep DEF vars, maps, Watching
<1>3. AssocInv /\ Watching /\ [Next]_vars => [ConditionsAlive]_vars
  BY AliveStep
<1> QED BY <1>1, <1>2, <1>3, AssocAlways, PTL DEF Spec

-----------------------------------------------------------------------------
(* Nodes. add_node and remove_node throw halfway, leaving the node's flag behind, when a group
   was added by hand between the test and the exchange of its flag, or was destroyed before its
   node. Neither can happen here. *)
NothingInBetween == Automatic \cap AddsByHand = {} /\ ~DropsGroups

(* Executor x has node n, or its caller is adding it. *)
Holds(x, n) == n \in weak_nodes[x] \/ pending[x] = n

(* A live node is held by the executor whose caller set its flag. *)
Holding ==
    /\ \A x \in Executors, n \in nodes : Holds(x, n) => n \in node_flag
    /\ \A x, y \in Executors, n \in nodes : Holds(x, n) /\ Holds(y, n) => x = y
    /\ \A x \in Executors, n \in nodes : ~(n \in weak_nodes[x] /\ pending[x] = n)

(* The loops are over groups of nodes that the executor holds, so that a group that is about to
   be associated cannot be associated by anyone else. *)
LoopsOver ==
    /\ group_flag \subseteq Groups
    /\ \A g \in Groups : NodeOf[g] \in nodes => g \in groups \cup unborn
    /\ \A x \in Executors :
          /\ Unlocked(x) => job[x].todo = {} /\ job[x].group = Nothing
          /\ \A g \in job[x].todo : Holds(x, NodeOf[g])
          /\ job[x].group # Nothing =>
                /\ Holds(x, NodeOf[job[x].group])
                /\ job[x].group \in Automatic \ group_flag

HoldInv == Holding /\ LoopsOver /\ FlaggedNodeIsHeld

LEMMA InitHold == ASSUME Assumption, Init PROVE HoldInv
<1>1. Holding
  BY DEF Init, Holding, Holds, Assumption
<1>2. LoopsOver
  BY DEF Init, LoopsOver, Assumption, NoJob, Nothing
<1>3. FlaggedNodeIsHeld
  BY DEF Init, FlaggedNodeIsHeld
<1> QED BY <1>1, <1>2, <1>3 DEF HoldInv

(* Neither exception is thrown. *)
LEMMA NoneThrown ==
    ASSUME Assumption, NothingInBetween, AssocInv, HoldInv, NEW x \in Executors
    PROVE  ~AlreadyAdded(x) /\ \A n \in Nodes : ~RemoveNodeThrows(x, n)
<1>1. ~AlreadyAdded(x)
  BY DEF AlreadyAdded, HoldInv, LoopsOver, Assumption
<1>2. ASSUME NEW n \in Nodes, n \in nodes, NEW g \in by_node[x], NodeOf[g] = n PROVE g \in groups
  <2>1. g \in Groups /\ g \in all[x]
    BY DEF AssocInv, Shape, Served
  <2> QED BY <1>2, <2>1 DEF HoldInv, LoopsOver, AssocInv, Births
<1>3. ASSUME NEW n \in Nodes, RemoveNodeThrows(x, n) PROVE FALSE
  BY <1>2, <1>3 DEF RemoveNodeThrows
<1> QED BY <1>1, <1>3

(* A live group's node is a live node, and no node is called as no node. *)
LEMMA LiveNodes ==
    ASSUME Assumption, AssocInv
    PROVE  /\ \A g \in groups : NodeOf[g] \in nodes
           /\ \A n \in nodes : n \in Nodes /\ n # Nothing
BY DEF Assumption, AssocInv, Shape, Births

LEMMA HoldingStep ==
    ASSUME Assumption, NothingInBetween, AssocInv, HoldInv, Next PROVE Holding' /\ FlaggedNodeIsHeld'
<1> USE DEF HoldInv, Holding, Holds, FlaggedNodeIsHeld
<1>1. ASSUME nodes' \subseteq nodes, UNCHANGED <<node_flag, weak_nodes, pending>>
      PROVE  Holding' /\ FlaggedNodeIsHeld'
  BY <1>1
<1>2. ASSUME NEW x \in Executors, NEW n \in Nodes, add_node(x, n) PROVE Holding' /\ FlaggedNodeIsHeld'
  <2>1. /\ n \notin node_flag /\ node_flag' = node_flag \cup {n} /\ n \in nodes
        /\ pending[x] = Nothing /\ UNCHANGED <<nodes, weak_nodes>>
        /\ \A y \in Executors : pending'[y] = IF y = x THEN n ELSE pending[y]
    BY <1>2 DEF add_node, world, maps, AssocInv, Shape
  <2>2. \A y \in Executors : n \notin weak_nodes[y] /\ pending[y] # n
    BY <2>1
  <2>3. \A m \in nodes : m # Nothing
    BY LiveNodes
  <2>4. Holding'
    BY <2>1, <2>2, <2>3
  <2>5. FlaggedNodeIsHeld'
    BY <2>1, <2>2, <2>3
  <2> QED BY <2>4, <2>5
<1>3. ASSUME NEW x \in Executors, NEW n \in Nodes, remove_node(x, n) PROVE Holding' /\ FlaggedNodeIsHeld'
  <2>1. /\ n \in weak_nodes[x] /\ n \in nodes /\ node_flag' = node_flag \ {n}
        /\ UNCHANGED <<nodes, pending>>
        /\ \A y \in Executors : weak_nodes'[y] = IF y = x THEN weak_nodes[y] \ {n} ELSE weak_nodes[y]
    BY <1>3 DEF remove_node, world, AssocInv, Shape
  <2>2. \A y \in Executors : n \notin weak_nodes'[y] /\ pending'[y] # n
    BY <2>1
  <2>3. \A y \in Executors, m \in nodes : m # n => (m \in weak_nodes'[y] <=> m \in weak_nodes[y])
    BY <2>1
  <2>4. Holding'
    BY <2>1, <2>2, <2>3
  <2>5. FlaggedNodeIsHeld'
    BY <2>1, <2>3
  <2> QED BY <2>4, <2>5
<1>4. ASSUME NEW x \in Executors, AddNodeEnd(x) PROVE Holding' /\ FlaggedNodeIsHeld'
  <2>1. PICK n \in nodes : n = pending[x]
    BY <1>4 DEF AddNodeEnd, AssocInv, Looping
  <2>2. /\ UNCHANGED <<nodes, node_flag>>
        /\ \A y \in Executors : weak_nodes'[y] = IF y = x THEN weak_nodes[y] \cup {n} ELSE weak_nodes[y]
        /\ \A y \in Executors : pending'[y] = IF y = x THEN Nothing ELSE pending[y]
    BY <1>4, <2>1 DEF AddNodeEnd, world, flags, AssocInv, Shape
  <2>3. \A m \in nodes : m # Nothing
    BY LiveNodes
  <2>4. ASSUME NEW y \in Executors, NEW m \in nodes PROVE Holds(y, m)' <=> Holds(y, m)
    <3>1. CASE y = x
      <4>1. weak_nodes'[y] = weak_nodes[y] \cup {n} /\ pending'[y] = Nothing
        BY <3>1, <2>2
      <4> QED BY <3>1, <4>1, <2>1, <2>3
    <3>2. CASE y # x
      BY <3>2, <2>2
    <3> QED BY <3>1, <3>2
  <2>5. \A y \in Executors, m \in nodes : ~(m \in weak_nodes'[y] /\ pending'[y] = m)
    BY <2>1, <2>2, <2>3
  <2> QED BY <2>2, <2>4, <2>5
<1>5. ASSUME NEW x \in Executors, DestroyExecutor(x) PROVE Holding' /\ FlaggedNodeIsHeld'
  <2>1. /\ node_flag' = node_flag \ (weak_nodes[x] \cap nodes) /\ UNCHANGED <<nodes, pending>>
        /\ pending[x] = Nothing
        /\ \A y \in Executors : weak_nodes'[y] = IF y = x THEN {} ELSE weak_nodes[y]
    BY <1>5 DEF DestroyExecutor, world, AssocInv, Shape
  <2>2. \A m \in nodes : m # Nothing
    BY LiveNodes
  <2>3. Holding'
    BY <2>1, <2>2
  <2>4. FlaggedNodeIsHeld'
    BY <2>1, <2>2
  <2> QED BY <2>3, <2>4
<1>6. ASSUME NEW x \in Executors,
             \/ \E g \in Groups : add_callback_group(x, g) \/ remove_callback_group(x, g)
             \/ \E g \in Groups : for_each_callback_group(x, g)
             \/ add_callback_group_to_map(x) \/ AddNodeLocked(x)
             \/ add_callback_groups_from_nodes_associated_to_executor(x)
             \/ wait_for_work(x) \/ Woken(x) \/ Executed(x) \/ Start(x)
      PROVE  Holding' /\ FlaggedNodeIsHeld'
  <2>1. UNCHANGED <<nodes, node_flag, weak_nodes, pending>>
    BY <1>6 DEF add_callback_group, remove_callback_group, for_each_callback_group,
         add_callback_group_to_map, AddNodeLocked, wait_for_work, Woken, Executed, Start,
         add_callback_groups_from_nodes_associated_to_executor, world, flags, maps
  <2> QED BY <2>1, <1>1
<1>7. ASSUME NEW g \in Groups, NEW kind \in Kinds,
             AddEntity(g, kind) \/ remove_waitable(g) \/ create_callback_group(g) \/ DestroyGroup(g)
      PROVE  Holding' /\ FlaggedNodeIsHeld'
  BY <1>7, <1>1 DEF AddEntity, remove_waitable, create_callback_group, DestroyGroup, DestroyGroups, flags, maps
<1>8. ASSUME NEW n \in Nodes, DestroyNode(n) PROVE Holding' /\ FlaggedNodeIsHeld'
  BY <1>8, <1>1 DEF DestroyNode, DestroyGroups, flags, maps
<1> QED
  BY Actions, NoneThrown, <1>2, <1>3, <1>4, <1>5, <1>6, <1>7, <1>8 DEF Kinds

LEMMA LoopsOverStep ==
    ASSUME Assumption, NothingInBetween, AssocInv, HoldInv, Next PROVE LoopsOver'
<1> USE DEF HoldInv, LoopsOver
<1>1. /\ \A g \in groups : NodeOf[g] \in nodes
      /\ \A n \in nodes : n \in Nodes /\ n # Nothing
  BY LiveNodes
(* The loops go on over the same groups, while flags are set for others at most. *)
<1>2. ASSUME \A x \in Executors, n \in nodes : ~Unlocked(x) /\ Holds(x, n) => Holds(x, n)',
             group_flag' \subseteq Groups, UNCHANGED <<nodes, groups, unborn, job>>,
             \A x \in Executors : job[x].group # Nothing => job[x].group \notin group_flag'
      PROVE  LoopsOver'
  <2>1. ASSUME NEW x \in Executors, NEW g \in job[x].todo PROVE Holds(x, NodeOf[g])'
    BY <2>1, <1>1, <1>2 DEF AssocInv, Looping
  <2>2. ASSUME NEW x \in Executors, job[x].group # Nothing PROVE Holds(x, NodeOf[job[x].group])'
    BY <2>2, <1>1, <1>2 DEF AssocInv, Looping
  <2>3. \A x \in Executors : Unlocked(x)' <=> Unlocked(x)
    BY <1>2 DEF Unlocked
  <2>4. \A g \in Groups : NodeOf[g] \in nodes' => g \in groups' \cup unborn'
    BY <1>2
  <2>5. ASSUME NEW x \in Executors
        PROVE  /\ Unlocked(x)' => job'[x].todo = {} /\ job'[x].group = Nothing
               /\ job'[x].group # Nothing => job'[x].group \in Automatic \ group_flag'
    BY <1>2, <2>3
  <2>6. \A x \in Executors : job'[x] = job[x]
    BY <1>2
  <2> QED BY <1>2, <2>1, <2>2, <2>4, <2>5, <2>6
<1>3. ASSUME NEW x \in Executors, NEW n \in Nodes, add_node(x, n) PROVE LoopsOver'
  <2>1. /\ pending[x] = Nothing /\ UNCHANGED <<weak_nodes, group_flag, nodes, groups, unborn, job>>
        /\ \A y \in Executors : pending'[y] = IF y = x THEN n ELSE pending[y]
    BY <1>3 DEF add_node, world, maps, AssocInv, Shape
  <2>2. \A y \in Executors, m \in nodes : Holds(y, m) => Holds(y, m)'
    BY <2>1, <1>1 DEF Holds
  <2> QED BY <2>1, <2>2, <1>2
<1>4. ASSUME NEW x \in Executors, NEW n \in Nodes, remove_node(x, n) PROVE LoopsOver'
  <2>1. /\ Unlocked(x) /\ UNCHANGED <<pending, nodes, groups, unborn, job>> /\ group_flag' \subseteq group_flag
        /\ \A y \in Executors : y # x => weak_nodes'[y] = weak_nodes[y]
    BY <1>4 DEF remove_node, Dissociate, world, AssocInv, Shape
  <2>2. \A y \in Executors, m \in nodes : ~Unlocked(y) /\ Holds(y, m) => Holds(y, m)'
    BY <2>1 DEF Holds
  <2> QED BY <2>1, <2>2, <1>2
<1>5. ASSUME NEW x \in Executors, DestroyExecutor(x) PROVE LoopsOver'
  <2>1. /\ Unlocked(x) /\ UNCHANGED <<pending, nodes, groups, unborn, job>> /\ group_flag' \subseteq group_flag
        /\ \A y \in Executors : y # x => weak_nodes'[y] = weak_nodes[y]
    BY <1>5 DEF DestroyExecutor, world, AssocInv, Shape
  <2>2. \A y \in Executors, m \in nodes : ~Unlocked(y) /\ Holds(y, m) => Holds(y, m)'
    BY <2>1 DEF Holds
  <2> QED BY <2>1, <2>2, <1>2
<1>6. ASSUME NEW x \in Executors, NEW g \in Groups, add_callback_group(x, g) PROVE LoopsOver'
  <2>1. /\ g \in AddsByHand /\ group_flag' = group_flag \cup {g}
        /\ UNCHANGED <<weak_nodes, pending, nodes, groups, unborn, job>>
    BY <1>6 DEF add_callback_group, Associate, world
  <2>2. \A y \in Executors : job[y].group # Nothing => job[y].group \notin group_flag'
    BY <2>1 DEF NothingInBetween
  <2> QED BY <2>1, <2>2, <1>2 DEF Holds
<1>7. ASSUME NEW x \in Executors, NEW g \in Groups, remove_callback_group(x, g) PROVE LoopsOver'
  <2>1. group_flag' \subseteq group_flag /\ UNCHANGED <<weak_nodes, pending, nodes, groups, unborn, job>>
    BY <1>7 DEF remove_callback_group, Dissociate, world
  <2> QED BY <2>1, <1>2 DEF Holds
<1>8. ASSUME NEW x \in Executors, wait_for_work(x) PROVE LoopsOver'
  <2>1. /\ UNCHANGED <<nodes, groups, unborn, weak_nodes, pending, group_flag>>
        /\ \A y \in Executors : job'[y] = IF y = x THEN NoJob ELSE job[y]
    BY <1>8 DEF wait_for_work, world, flags, AssocInv, Shape
  <2> QED BY <2>1 DEF Holds, NoJob, Unlocked
<1>9. ASSUME NEW x \in Executors, AddNodeEnd(x) PROVE LoopsOver'
  <2>1. /\ UNCHANGED <<nodes, groups, unborn, group_flag>>
        /\ \A y \in Executors : job'[y] = IF y = x THEN NoJob ELSE job[y]
        /\ \A y \in Executors : y # x => weak_nodes'[y] = weak_nodes[y] /\ pending'[y] = pending[y]
    BY <1>9 DEF AddNodeEnd, world, flags, AssocInv, Shape
  <2> QED BY <2>1 DEF Holds, NoJob, Unlocked
<1>10. ASSUME NEW x \in Executors, AddNodeLocked(x) PROVE LoopsOver'
  <2>1. /\ UNCHANGED <<nodes, groups, unborn, weak_nodes, pending, group_flag>> /\ pending[x] \in nodes
        /\ \A y \in Executors : y # x => job'[y] = job[y]
        /\ job'[x].by = "caller" /\ job'[x].todo = GroupsOf(pending[x]) /\ job'[x].group = Nothing
    BY <1>10 DEF AddNodeLocked, world, flags, maps, AssocInv, Shape
  <2>2. \A g \in GroupsOf(pending[x]) : Holds(x, NodeOf[g])'
    BY <2>1 DEF GroupsOf, Holds
  <2> QED BY <2>1, <2>2 DEF Holds, Unlocked, Nothing
<1>11. ASSUME NEW x \in Executors, add_callback_groups_from_nodes_associated_to_executor(x) PROVE LoopsOver'
  <2> DEFINE T == UNION {GroupsOf(n) : n \in weak_nodes[x] \cap nodes}
  <2>1. /\ UNCHANGED <<nodes, groups, unborn, weak_nodes, pending, group_flag>>
        /\ \A y \in Executors : y # x => job'[y] = job[y]
        /\ job'[x].by = "spinner" /\ job'[x].todo = T /\ job'[x].group = Nothing
    BY <1>11 DEF add_callback_groups_from_nodes_associated_to_executor, world, flags, maps, AssocInv, Shape
  <2>2. \A g \in T : Holds(x, NodeOf[g])'
    BY <2>1 DEF GroupsOf, Holds
  <2> HIDE DEF T
  <2> QED BY <2>1, <2>2 DEF Holds, Unlocked, Nothing
<1>12. ASSUME NEW x \in Executors, NEW g \in Groups, for_each_callback_group(x, g) PROVE LoopsOver'
  <2>1. /\ UNCHANGED <<nodes, groups, unborn, weak_nodes, pending, group_flag>>
        /\ g \in job[x].todo
        /\ \A y \in Executors : y # x => job'[y] = job[y]
    BY <1>12 DEF for_each_callback_group, world, flags, maps, AssocInv, Shape
  <2>2. /\ job'[x].by = job[x].by /\ job'[x].todo = job[x].todo \ {g}
        /\ job'[x].group = IF g \in Automatic \ group_flag THEN g ELSE Nothing
    BY <1>12 DEF for_each_callback_group, AssocInv, Shape, Jobs
  <2>3. ~Unlocked(x) /\ ~Unlocked(x)'
    BY <2>1, <2>2 DEF Unlocked
  <2> QED BY <2>1, <2>2, <2>3 DEF Holds, Unlocked
<1>13. ASSUME NEW x \in Executors, add_callback_group_to_map(x) PROVE LoopsOver'
  <2>1. PICK g \in groups : g = job[x].group
    BY <1>13 DEF add_callback_group_to_map, AssocInv, Looping
  <2>2. /\ UNCHANGED <<nodes, groups, unborn, weak_nodes, pending>> /\ g # Nothing
        /\ group_flag' = group_flag \cup {g}
        /\ \A y \in Executors : y # x => job'[y] = job[y]
    BY <1>13, <2>1 DEF add_callback_group_to_map, Associate, world, AssocInv, Shape
  <2>3. job'[x].by = job[x].by /\ job'[x].todo = job[x].todo /\ job'[x].group = Nothing
    BY <1>13 DEF add_callback_group_to_map, AssocInv, Shape, Jobs
  <2>4. ASSUME NEW y \in Executors, y # x, job[y].group # Nothing PROVE job[y].group # g
    BY <2>1, <2>2, <2>4, <1>1 DEF Holding
  <2>5. g \in Groups
    BY <2>1 DEF AssocInv, Shape
  <2> QED BY <2>2, <2>3, <2>4, <2>5 DEF Holds, Unlocked
<1>14. ASSUME NEW x \in Executors, Woken(x) \/ Executed(x) \/ Start(x) PROVE LoopsOver'
  <2>1. UNCHANGED <<nodes, groups, unborn, weak_nodes, pending, group_flag, job>>
    BY <1>14 DEF Woken, Executed, Start, world, flags, maps
  <2> QED BY <2>1, <1>2 DEF Holds
<1>15. ASSUME NEW g \in Groups, NEW kind \in Kinds, AddEntity(g, kind) \/ remove_waitable(g) PROVE LoopsOver'
  <2>1. UNCHANGED <<nodes, groups, unborn, weak_nodes, pending, group_flag, job>>
    BY <1>15 DEF AddEntity, remove_waitable, flags, maps
  <2> QED BY <2>1, <1>2 DEF Holds
<1>16. ASSUME NEW g \in Groups, create_callback_group(g) PROVE LoopsOver'
  <2>1. /\ UNCHANGED <<nodes, weak_nodes, pending, group_flag, job>>
        /\ groups' = groups \cup {g} /\ unborn' = unborn \ {g}
    BY <1>16 DEF create_callback_group, flags, maps
  <2> QED BY <2>1 DEF Holds, Unlocked
<1>17. ASSUME NEW g \in Groups, DestroyGroup(g) PROVE LoopsOver'
  BY <1>17 DEF DestroyGroup, NothingInBetween
<1>18. ASSUME NEW n \in Nodes, DestroyNode(n) PROVE LoopsOver'
  <2>1. /\ UNCHANGED <<unborn, weak_nodes, pending, group_flag, job>>
        /\ nodes' = nodes \ {n} /\ groups' = groups \ GroupsOf(n)
    BY <1>18 DEF DestroyNode, DestroyGroups, flags, maps
  <2>2. \A g \in Groups : NodeOf[g] \in nodes' => g \in groups' \cup unborn'
    BY <2>1 DEF GroupsOf
  <2> QED BY <2>1, <2>2 DEF Holds, Unlocked
<1> QED
  BY Actions, NoneThrown, <1>3, <1>4, <1>5, <1>6, <1>7, <1>8, <1>9, <1>10, <1>11, <1>12, <1>13, <1>14,
     <1>15, <1>16, <1>17, <1>18 DEF Kinds

(* A node whose flag is set belongs to an executor or is being added, so that it can always be
   added or removed again, if nothing comes between the steps of add_node and remove_node
   (executor.cpp:262-283, 350-388). *)
THEOREM FlaggedNodesHeld ==
    ASSUME Assumption, NothingInBetween PROVE Spec => []FlaggedNodeIsHeld
<1>1. Init => HoldInv
  BY InitHold
<1>2. AssocInv /\ HoldInv /\ [Next]_vars => HoldInv'
  <2>1. ASSUME AssocInv, HoldInv, Next PROVE HoldInv'
    BY <2>1, HoldingStep, LoopsOverStep DEF HoldInv
  <2>2. ASSUME HoldInv, UNCHANGED vars PROVE HoldInv'
    BY <2>2 DEF HoldInv, Holding, Holds, LoopsOver, Unlocked, FlaggedNodeIsHeld, vars, world, flags, maps
  <2> QED BY <2>1, <2>2
<1>3. HoldInv => FlaggedNodeIsHeld
  BY DEF HoldInv
<1> QED BY <1>1, <1>2, <1>3, AssocAlways, PTL DEF Spec
==============================================================================
