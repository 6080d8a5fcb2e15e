----------------------------- MODULE AddressSpace -----------------------------
(***************************************************************************)
(* The address space (server/address_space/address_space.rs) under the      *)
(* services that change it (server/services/node_management.rs), the server *)
(* application that adds folders, and one session that browses it in pages  *)
(* (server/services/view.rs, continuation_point.rs, session.rs).            *)
(*                                                                          *)
(* Every service holds the lock of the address space from its first item to *)
(* its last, so that an item is one action.  An item that is refused, or    *)
(* that panics and so ends the connection of its client, leaves everything  *)
(* as it was and is not an action: a reference from a node to itself, and a *)
(* new node with a browse name outside namespace 0.                         *)
(***************************************************************************)
EXTENDS References, Integers, Sequences

CONSTANTS TypeNodes,       \* nodes that need no type definition
          folder_type,     \* FolderType, one of them
          HasTypeDefinition, Organizes,
          browse_name,     \* the browse names by node
          root,            \* RootFolder
          Added,           \* the types of the references that clients add
          Views,           \* what the client browses
          Requested,       \* requested_max_references_per_node
          default_max_references,  \* DEFAULT_MAX_REFERENCES_PER_NODE
          max_browse_continuation_points,
          MaxModified      \* bound on the modifications

Directions == {"Forward", "Inverse", "Both"}

ASSUME AddressSpaceAssumption ==
  /\ IsFiniteSet(NodeIds) /\ IsFiniteSet(Types)
  /\ TypeNodes \subseteq NodeIds /\ folder_type \in TypeNodes
  /\ HasTypeDefinition \in Types \ Hierarchical
  /\ Organizes \in Hierarchical \ Aggregating
  /\ root \in NodeIds \ TypeNodes /\ Added \subseteq Types
  /\ Views \subseteq [node : NodeIds, direction : Directions, types : SUBSET Types]
  /\ Requested \subseteq Nat /\ default_max_references \in Nat \ {0}
  /\ max_browse_continuation_points \in Nat \ {0} /\ MaxModified \in Nat

VARIABLES nodes,          \* node_map
          refs,           \* the references
          last_modified,  \* counts the calls that set the time stamp
          points,         \* browse_continuation_points of the session
          aborted         \* the recursion of delete() has used up the stack

vars == <<nodes, refs, last_modified, points, aborted>>

(* browse_node(): what is found, without the nodes that do not exist. *)
Descriptions(view) ==
  {d \in FindReferencesByDirection(refs, view.node, view.direction, view.types) :
     d.found.node \in nodes}

(* The server has added its folder types below the root. *)
Init ==
  /\ nodes = {root} \union TypeNodes
  /\ refs = [references_map |->
               [source : {root}, type : {Organizes}, target : TypeNodes],
             referenced_by_map |->
               [n \in NodeIds |-> IF n \in TypeNodes THEN {root} ELSE {}]]
  /\ last_modified = 0 /\ points = <<>> /\ aborted = FALSE
-----------------------------------------------------------------------------
(* Mutant: the time stamp is forgotten. *)
ModifiedNot(now) == now

(* update_last_modified(); the clock goes on from one call to the next. *)
Modified(now) == now + 1

(* What a call that inserts does to the rest. *)
Inserted ==
  /\ last_modified < MaxModified
  /\ last_modified' = Modified(last_modified)
  /\ UNCHANGED <<points, aborted>>

(* find_nodes_relative_path() from the parent with one element "/name". *)
IsDuplicate(node, parent) ==
  \E f \in FindReferences(refs, parent, Hierarchical) :
    f.node \in nodes /\ browse_name[f.node] = browse_name[node]

(* is_valid_type_definition(): nodes that are types must not have one, which
   the set says; the others need a type that exists. *)
TypeDefinitions(node) == IF node \in TypeNodes THEN {} ELSE TypeNodes \intersect nodes

(* add_node(), where the new node is given the forward reference to its parent,
   and set_node_type(). *)
AddNode(node, parent, type) ==
  LET added == InsertReference(refs, node, parent, type)
  IN  /\ node \notin nodes /\ parent \in nodes
      /\ ~IsDuplicate(node, parent)
      /\ nodes' = nodes \union {node}
      /\ \/ node \in TypeNodes /\ refs' = added
         \/ \E definition \in TypeDefinitions(node) :
              refs' = InsertReference(added, node, definition, HasTypeDefinition)
      /\ Inserted

(* add_folder_with_id(): the application does not have to give a parent that
   exists. *)
AddFolder(node, parent) ==
  LET typed == InsertReference(refs, node, folder_type, HasTypeDefinition)
  IN  /\ node \notin nodes \union TypeNodes /\ parent # node
      /\ nodes' = nodes \union {node}
      /\ refs' = InsertReference(typed, parent, node, Organizes)
      /\ Inserted

(* add_reference(): that there is none yet is tested before it is turned
   round. *)
AddReference(source, target, type, is_forward) ==
  /\ {source, target} \subseteq nodes /\ source # target
  /\ ~HasReference(refs, source, target, type)
  /\ refs' = IF is_forward THEN InsertReference(refs, source, target, type)
             ELSE InsertReference(refs, target, source, type)
  /\ Inserted
  /\ UNCHANGED nodes

(* delete_node() and AddressSpace::delete(); the time stamp stays. *)
DeleteNode(node, delete_target_references) ==
  /\ UNCHANGED <<last_modified, points>>
  /\ \/ GoesRound(refs, node) /\ aborted' = TRUE /\ UNCHANGED <<nodes, refs>>
     \/ /\ ~GoesRound(refs, node)
        /\ nodes' = nodes \ Visited(refs, node)
        /\ refs' = IF delete_target_references
                   THEN DeleteNodeReferences(refs, Visited(refs, node)) ELSE refs
        /\ UNCHANGED aborted

(* delete_reference() in one direction or, one after the other, in both. *)
DeleteReferenceItem(source, target, type, bidirectional) ==
  LET deleted == DeleteReference(refs, source, target, type)
  IN  /\ {source, target} \subseteq nodes
      /\ refs' = IF bidirectional THEN DeleteReference(deleted, target, source, type) ELSE deleted
      /\ UNCHANGED <<nodes, last_modified, points, aborted>>
-----------------------------------------------------------------------------
(* max_references_per_node in browse() *)
MaxReferences(requested) ==
  IF requested = 0 \/ requested > default_max_references
  THEN default_max_references ELSE requested

(* Mutant: a page that is just full is followed by another one. *)
LeavesRestAlways(rest, max_references) == Cardinality(rest) >= max_references

LeavesRest(rest, max_references) == Cardinality(rest) > max_references

(* Mutant: the new point is put in front. *)
PointsWithFront(held, point) ==
  <<point>> \o SubSeq(held, 1, IF Len(held) >= max_browse_continuation_points
                               THEN max_browse_continuation_points - 1 ELSE Len(held))

(* add_browse_continuation_point(): the oldest makes way. *)
PointsWith(held, point) ==
  Append(IF Len(held) >= max_browse_continuation_points
         THEN SubSeq(held, Len(held) - max_browse_continuation_points + 2, Len(held)) ELSE held,
         point)

(* reference_description_to_browse_result(): a page is taken from what is left,
   and a point holds the remainder of the result. *)
ToBrowseResult(held, view, descriptions, rest, max_references) ==
  \/ /\ LeavesRest(rest, max_references)
     /\ \E page \in {s \in SUBSET rest : Cardinality(s) = max_references} :
          points' = PointsWith(held, [view |-> view, modified |-> last_modified,
                                      descriptions |-> descriptions, rest |-> rest \ page,
                                      max_references |-> max_references])
  \/ ~LeavesRest(rest, max_references) /\ points' = held

(* browse_node() *)
Browse(view, requested) ==
  /\ view.node \in nodes
  /\ ToBrowseResult(points, view, Descriptions(view), Descriptions(view),
                    MaxReferences(requested))
  /\ UNCHANGED <<nodes, refs, last_modified, aborted>>

(* is_valid_browse_continuation_point() *)
IsValid(point) == point.modified >= last_modified

(* remove_expired_browse_continuation_points().  Points are in the order in
   which they were made (PointsInOrder), so that those to be removed come first. *)
RemoveExpired(held) ==
  SubSeq(held, Cardinality({i \in DOMAIN held : ~IsValid(held[i])}) + 1, Len(held))

(* find_browse_continuation_point() removes what it finds. *)
Without(held, i) == SubSeq(held, 1, i - 1) \o SubSeq(held, i + 1, Len(held))

(* browse_next(): points that are out of date are removed whatever the client
   asks for; a valid one is removed and may be followed by another. *)
BrowseNext ==
  LET held == RemoveExpired(points)
  IN  /\ \/ points' = held
         \/ \E i \in DOMAIN held :
              ToBrowseResult(Without(held, i), held[i].view, held[i].descriptions,
                             held[i].rest, held[i].max_references)
      /\ UNCHANGED <<nodes, refs, last_modified, aborted>>

(* browse_next() with release_continuation_points *)
Release(i) ==
  /\ points' = Without(points, i)
  /\ UNCHANGED <<nodes, refs, last_modified, aborted>>

Insert ==
  \/ \E node, parent \in NodeIds, type \in Added : AddNode(node, parent, type)
  \/ \E node, parent \in NodeIds : AddFolder(node, parent)
  \/ \E source, target \in NodeIds, type \in Added, is_forward \in BOOLEAN :
       AddReference(source, target, type, is_forward)

Delete ==
  \/ \E node \in NodeIds, targets \in BOOLEAN : DeleteNode(node, targets)
  \/ \E source, target \in NodeIds, type \in Types, bidirectional \in BOOLEAN :
       DeleteReferenceItem(source, target, type, bidirectional)

View ==
  \/ \E view \in Views, requested \in Requested : Browse(view, requested)
  \/ BrowseNext
  \/ \E i \in DOMAIN points : Release(i)

Next == ~aborted /\ (Insert \/ Delete \/ View)

Spec == Init /\ [][Next]_vars
-----------------------------------------------------------------------------
Description == [found : [type : Types, node : NodeIds], is_forward : BOOLEAN]
Point ==
  [view : Views, modified : 0..MaxModified, descriptions : SUBSET Description,
   rest : SUBSET Description, max_references : Nat \ {0}]

(* The number of points is limited, and no reference is from a node to itself
   (add_browse_continuation_point(), insert_reference()). *)
TypeOK ==
  /\ nodes \subseteq NodeIds
  /\ refs \in ReferencesType
  /\ \A r \in refs.references_map : r.source # r.target
  /\ last_modified \in 0..MaxModified
  /\ points \in Seq(Point) /\ Len(points) <= max_browse_continuation_points
  /\ aborted \in BOOLEAN

(* Browsing a node inversely finds exactly the nodes from which browsing
   forward finds it, whatever has been inserted and deleted, in either
   direction, between them (find_references(), find_inverse_references()). *)
BrowsedBothWays ==
  \A source, target \in NodeIds, type \in Types :
    HasReference(refs, source, target, type)
      <=> [type |-> type, node |-> source] \in FindInverseReferences(refs, target, Types)

(* What a client is told over several pages is complete: a point that is still
   valid has every reference that the node has now, although others insert and
   delete between the pages (is_valid_browse_continuation_point()). *)
PointsMissNothing ==
  \A i \in DOMAIN points :
    IsValid(points[i]) => Descriptions(points[i].view) \subseteq points[i].descriptions

(* A point that is out of date never outlives one that is not: the points are
   in the order of the time stamps they were made with, although browsing on
   replaces one from the middle, and they are never more than the session may
   have (add_browse_continuation_point(), find_browse_continuation_point()). *)
PointsInOrder ==
  /\ Len(points) <= max_browse_continuation_points
  /\ \A i, j \in DOMAIN points : i < j => points[i].modified <= points[j].modified

(* A point always has another page with something on it, and it resumes after
   a whole number of pages (reference_description_to_browse_result()). *)
PointsGoOn ==
  \A i \in DOMAIN points :
    /\ points[i].rest # {}
    /\ points[i].rest \subseteq points[i].descriptions
    /\ \E pages \in 1..Cardinality(points[i].descriptions) :
         Cardinality(points[i].descriptions)
           = Cardinality(points[i].rest) + pages * points[i].max_references

(* Nodes that are deleted together with the references to them are not
   mentioned by any reference any more: the lookups lead to all of them
   (AddressSpace::delete(), delete_node_references()). *)
DeletedIsGone ==
  [][\A node \in NodeIds :
       nodes' # nodes /\ DeleteNode(node, TRUE) =>
         \A r \in refs'.references_map :
           {r.source, r.target} \intersect (nodes \ nodes') = {}]_vars
=============================================================================
