--------------------------- MODULE MCAssociation ----------------------------
(***************************************************************************)
(* A node whose default callback group exists when it is added to the      *)
(* executor, and a group of its that the program creates later.            *)
(***************************************************************************)
EXTENDS Association

MCNodeOf == [g \in Groups |-> "node"]

=============================================================================
