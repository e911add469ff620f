-------------------------- MODULE MCReferenceNodes --------------------------
(***************************************************************************)
(* Small graphs of the reference nodes, cut out of the Autoware system:    *)
(*   fusion        two lidars, one of them through its points transformer, *)
(*                 fused as in PointCloudFusion;                           *)
(*   order         the same without the transformer;                       *)
(*   diamond       a fusion whose inputs go back to the same node, as      *)
(*                 VehicleInterface with MPCController and BehaviorPlanner; *)
(*   cyclic        BehaviorPlanner with two of its inputs;                 *)
(*   intersection  the two connections of EuclideanClusterDetector.        *)
(***************************************************************************)
EXTENDS ReferenceNodes

CONSTANTS front, rear, transform, fusion, cyclic, cross, sink, sink2

MCType == [n \in AllNodes |->
             CASE n \in {front, rear} -> "Sensor"
               [] n = transform -> "Transform"
               [] n = fusion    -> "Fusion"
               [] n = cyclic    -> "Cyclic"
               [] n = cross     -> "Intersection"
               [] OTHER         -> "Command"]

MCSourceKind == [n \in AllNodes |-> CASE n = front -> 1 [] n = rear -> 2 [] OTHER -> 0]

Only(n) == <<n, 0>>
Sensors == front :> <<>> @@ rear :> <<>>

FusionGraph == Sensors @@ transform :> <<Only(front)>> @@
               fusion :> <<Only(transform), Only(rear)>> @@ sink :> <<Only(fusion)>>

OrderGraph == Sensors @@ fusion :> <<Only(front), Only(rear)>> @@ sink :> <<Only(fusion)>>

DiamondGraph == front :> <<>> @@ transform :> <<Only(front)>> @@
                fusion :> <<Only(transform), Only(front)>> @@ sink :> <<Only(fusion)>>

CyclicGraph == Sensors @@ cyclic :> <<Only(front), Only(rear)>> @@ sink :> <<Only(cyclic)>>

IntersectionGraph == Sensors @@ cross :> <<Only(front), Only(rear)>> @@
                     sink :> <<<<cross, 0>>>> @@ sink2 :> <<<<cross, 1>>>>

MCGraphs == {FusionGraph, OrderGraph, DiamondGraph, CyclicGraph, IntersectionGraph}

(* With three samples of the front lidar one can be dropped between two others. *)
MCMaxFires == [n \in AllNodes |-> IF n = front THEN 3 ELSE 2]

DropGraphs == {front :> <<>> @@ transform :> <<Only(front)>>}
=============================================================================
