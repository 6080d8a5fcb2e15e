------------------------------ MODULE References ------------------------------
(***************************************************************************)
(* The references between nodes (server/address_space/references.rs), as    *)
(* operators on one record:                                                 *)
(*                                                                          *)
(*   references_map     the forward references, a set of records            *)
(*   referenced_by_map  for each node the nodes that it is looked up by     *)
(*                                                                          *)
(* An entry of a map that would be empty is absent in the code, which is    *)
(* the empty set here.  The order of the references of a node is left out.  *)
(* Which types are subtypes of which is constant, while the code follows    *)
(* the HasSubtype references of the same map (reference_type_matches()):    *)
(* the reference types themselves are not added or deleted here.            *)
(***************************************************************************)
EXTENDS FiniteSets

CONSTANTS NodeIds,
          Types,         \* the reference types
          Aggregating,   \* Aggregates and its subtypes
          Hierarchical   \* HierarchicalReferences and its subtypes

ASSUME ReferencesAssumption ==
  /\ Aggregating \subseteq Hierarchical
  /\ Hierarchical \subseteq Types

Reference == [source : NodeIds, type : Types, target : NodeIds]

ReferencesType ==
  [references_map : SUBSET Reference, referenced_by_map : [NodeIds -> SUBSET NodeIds]]

TargetsOf(map, node) == {r.target : r \in {q \in map : q.source = node}}

(* has_reference() *)
HasReference(refs, source, target, type) ==
  [source |-> source, type |-> type, target |-> target] \in refs.references_map

(* insert_reference(), for two different nodes. *)
InsertReference(refs, source, target, type) ==
  [references_map |->
     refs.references_map \union {[source |-> source, type |-> type, target |-> target]},
   referenced_by_map |->
     [refs.referenced_by_map EXCEPT ![target] = @ \union {source}]]

(* remove_node_from_referenced_nodes(): both what the nodes to check refer to
   the node with and that they are looked up by it. *)
RemoveNodeFromReferencedNodes(refs, nodes_to_check, node_to_remove) ==
  [references_map |->
     {r \in refs.references_map :
        ~(r.source \in nodes_to_check /\ r.target = node_to_remove)},
   referenced_by_map |->
     [n \in NodeIds |->
        IF n \in nodes_to_check THEN refs.referenced_by_map[n] \ {node_to_remove}
        ELSE refs.referenced_by_map[n]]]

(* Mutant: the lookup is given up with the first of several references. *)
DeleteReferenceOnce(refs, source, target, type) ==
  LET left == refs.references_map \ {[source |-> source, type |-> type, target |-> target]}
  IN  IF left = refs.references_map THEN refs
      ELSE RemoveNodeFromReferencedNodes([refs EXCEPT !.references_map = left], {target}, source)

(* delete_reference(): the nodes that the source no longer refers to "must also
   have their references changed". *)
DeleteReference(refs, source, target, type) ==
  LET left == refs.references_map \ {[source |-> source, type |-> type, target |-> target]}
      difference == TargetsOf(refs.references_map, source) \ TargetsOf(left, source)
  IN  RemoveNodeFromReferencedNodes([refs EXCEPT !.references_map = left], difference, source)

(* The nodes that delete_node_references() checks: what the node refers to, and
   then what it is looked up by. *)
Neighbours(refs, node) ==
  TargetsOf(refs.references_map, node) \union refs.referenced_by_map[node]

(* Mutant: only what the nodes refer to is cleaned up. *)
DeleteForwardReferences(refs, deleted) ==
  [references_map |-> {r \in refs.references_map : r.source \notin deleted},
   referenced_by_map |->
     [n \in NodeIds |-> refs.referenced_by_map[n]
        \ {d \in deleted : n \in TargetsOf(refs.references_map, d)}]]

(* delete_node_references() for each of a set of nodes.  The order does not
   matter: deleting one changes of what the others look up only that one. *)
DeleteNodeReferences(refs, deleted) ==
  [references_map |->
     {r \in refs.references_map :
        /\ r.source \notin deleted
        /\ ~(r.target \in deleted /\ r.source \in Neighbours(refs, r.target))},
   referenced_by_map |->
     [n \in NodeIds |->
        IF n \in deleted THEN {}
        ELSE refs.referenced_by_map[n] \ {d \in deleted : n \in Neighbours(refs, d)}]]

(* find_references(), by the types that the filter, with their subtypes, lets
   through. *)
FindReferences(refs, node, types) ==
  {[type |-> r.type, node |-> r.target] :
     r \in {q \in refs.references_map : q.source = node /\ q.type \in types}}

(* find_inverse_references(): the references of the nodes that it is looked up
   by, and that are to the node. *)
FindInverseReferences(refs, node, types) ==
  {[type |-> r.type, node |-> r.source] :
     r \in {q \in refs.references_map :
              /\ q.source \in refs.referenced_by_map[node]
              /\ q.target = node /\ q.type \in types}}

(* find_references_by_direction() *)
FindReferencesByDirection(refs, node, direction, types) ==
  {[found |-> f, is_forward |-> TRUE] :
     f \in IF direction \in {"Forward", "Both"}
           THEN FindReferences(refs, node, types) ELSE {}}
  \union
  {[found |-> f, is_forward |-> FALSE] :
     f \in IF direction \in {"Inverse", "Both"}
           THEN FindInverseReferences(refs, node, types) ELSE {}}

(* find_aggregates_of() *)
FindAggregatesOf(refs, node) ==
  {f.node : f \in FindReferences(refs, node, Aggregating)}

(* The nodes that the recursion of AddressSpace::delete() comes to: they are in
   every set that has the node and with each node its aggregates. *)
Visited(refs, node) ==
  {n \in NodeIds :
     \A s \in SUBSET NodeIds :
       (node \in s /\ \A m \in s : FindAggregatesOf(refs, m) \subseteq s) => n \in s}

(* Children are visited before anything is deleted, so that a circle of
   aggregates is gone round for ever. *)
GoesRound(refs, node) ==
  \E n \in Visited(refs, node) :
    \E child \in FindAggregatesOf(refs, n) : n \in Visited(refs, child)
=============================================================================
