---------------------------- MODULE MCAddressSpace ----------------------------
(* An instance of AddressSpace. *)
EXTENDS AddressSpace

CONSTANT a

(* The node that comes and goes has the name of one that is there. *)
SharedNames == [n \in NodeIds |-> IF n \in {a, folder_type} THEN "name" ELSE n]

ViewOf(node, direction, types) == [node |-> node, direction |-> direction, types |-> types]

(* What is below the root, and what has the root as a component. *)
RootViews == {ViewOf(root, "Forward", Hierarchical), ViewOf(root, "Inverse", Aggregating)}
=============================================================================
