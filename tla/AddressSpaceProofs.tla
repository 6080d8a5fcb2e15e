-------------------------- MODULE AddressSpaceProofs --------------------------
(***************************************************************************)
(* Proofs about AddressSpace: the lookups lead to every reference, so that  *)
(* browsing agrees in both directions and deletion finds all there is; and  *)
(* what a valid continuation point holds is complete.                       *)
(***************************************************************************)
EXTENDS AddressSpace, TLAPS, FiniteSetTheorems, SequenceTheorems

(* Every reference is looked up by its source, which is what both kinds of
   browsing and of deletion rely on. *)
LookedUp(r) == \A q \in r.references_map : q.source \in r.referenced_by_map[q.target]

NoLoops(r) == \A q \in r.references_map : q.source # q.target

Sound(r) == r \in ReferencesType /\ LookedUp(r) /\ NoLoops(r)

(* Inserting a reference between two nodes keeps the maps in step
   (insert_reference()). *)
LEMMA InsertIsSound ==
  ASSUME NEW r, Sound(r), NEW source \in NodeIds, NEW target \in NodeIds,
         NEW type \in Types, source # target
  PROVE  Sound(InsertReference(r, source, target, type))
<1> DEFINE new == InsertReference(r, source, target, type)
           ref == [source |-> source, type |-> type, target |-> target]
<1>1. ref \in Reference
  BY DEF Reference
<1>2. /\ new.references_map = r.references_map \union {ref}
      /\ new.referenced_by_map = [r.referenced_by_map EXCEPT ![target] = @ \union {source}]
      /\ new = [references_map |-> new.references_map,
                referenced_by_map |-> new.referenced_by_map]
  BY DEF InsertReference
<1>3. r.references_map \in SUBSET Reference /\ r.referenced_by_map \in [NodeIds -> SUBSET NodeIds]
  BY DEF Sound, ReferencesType
<1>4. new.referenced_by_map \in [NodeIds -> SUBSET NodeIds]
  BY <1>2, <1>3, ZenonT(30)
<1>5. new \in ReferencesType
  BY <1>1, <1>2, <1>3, <1>4, Zenon DEF ReferencesType
<1>6. ASSUME NEW q \in new.references_map
      PROVE  q.source \in new.referenced_by_map[q.target] /\ q.source # q.target
  <2>1. CASE q = ref
    BY <2>1, <1>2, <1>3, ZenonT(30)
  <2>2. CASE q \in r.references_map
    <3>1. q.target \in NodeIds /\ q.source \in r.referenced_by_map[q.target] /\ q.source # q.target
      BY <2>2, <1>3, Zenon DEF Sound, LookedUp, NoLoops, Reference
    <3>2. r.referenced_by_map[q.target] \subseteq new.referenced_by_map[q.target]
      BY <3>1, <1>2, <1>3, ZenonT(30)
    <3> QED
      BY <3>1, <3>2
  <2> QED
    BY <1>2, <2>1, <2>2, Zenon
<1> QED
  BY <1>5, <1>6 DEF Sound, LookedUp, NoLoops

(* What remove_node_from_referenced_nodes() does to the maps. *)
LEMMA RemoveIsTyped ==
  ASSUME NEW r \in ReferencesType, NEW check, NEW node \in NodeIds
  PROVE  RemoveNodeFromReferencedNodes(r, check, node) \in ReferencesType
BY DEF RemoveNodeFromReferencedNodes, ReferencesType

(* Deleting a reference keeps the maps in step: the lookup goes only when the
   last reference between the two does (delete_reference()). *)
LEMMA DeleteReferenceIsSound ==
  ASSUME NEW r, Sound(r), NEW source \in NodeIds, NEW target \in NodeIds, NEW type \in Types
  PROVE  Sound(DeleteReference(r, source, target, type))
<1> DEFINE left == r.references_map \ {[source |-> source, type |-> type, target |-> target]}
           difference == TargetsOf(r.references_map, source) \ TargetsOf(left, source)
           cut == [r EXCEPT !.references_map = left]
           new == DeleteReference(r, source, target, type)
<1>1. new = RemoveNodeFromReferencedNodes(cut, difference, source)
  BY DEF DeleteReference
<1>2. r.references_map \in SUBSET Reference /\ r.referenced_by_map \in [NodeIds -> SUBSET NodeIds]
      /\ r = [references_map |-> r.references_map, referenced_by_map |-> r.referenced_by_map]
  BY DEF Sound, ReferencesType
<1>3. cut.references_map = left /\ cut.referenced_by_map = r.referenced_by_map
      /\ cut \in ReferencesType
  BY <1>2 DEF ReferencesType
<1>4. new \in ReferencesType
  BY <1>1, <1>3, RemoveIsTyped, Zenon
<1>5. new.references_map = {q \in left : ~(q.source \in difference /\ q.target = source)}
  BY <1>1, <1>3 DEF RemoveNodeFromReferencedNodes
<1>6. \A n \in NodeIds : new.referenced_by_map[n] =
        IF n \in difference THEN r.referenced_by_map[n] \ {source} ELSE r.referenced_by_map[n]
  BY <1>1, <1>3 DEF RemoveNodeFromReferencedNodes
<1>7. ASSUME NEW q \in new.references_map
      PROVE  q.source \in new.referenced_by_map[q.target] /\ q.source # q.target
  <2>1. q \in left /\ q \in r.references_map /\ q.target \in NodeIds
    BY <1>5, <1>2 DEF Reference
  <2>2. q.source \in r.referenced_by_map[q.target] /\ q.source # q.target
    BY <2>1 DEF Sound, LookedUp, NoLoops
  <2>3. q.source = source => q.target \notin difference
    BY <2>1 DEF TargetsOf
  <2> HIDE DEF difference, left, new
  <2> QED
    BY <2>1, <2>2, <2>3, <1>6, Zenon
<1> QED
  BY <1>4, <1>7 DEF Sound, LookedUp, NoLoops

(* Deleting nodes with their references keeps the maps in step and leaves no
   mention of them in the references (delete_node_references()). *)
LEMMA DeleteNodesIsSound ==
  ASSUME NEW r, Sound(r), NEW deleted \in SUBSET NodeIds
  PROVE  /\ Sound(DeleteNodeReferences(r, deleted))
         /\ DeleteNodeReferences(r, deleted).references_map =
              {q \in r.references_map : q.source \notin deleted /\ q.target \notin deleted}
<1> DEFINE new == DeleteNodeReferences(r, deleted)
<1>1. r.references_map \in SUBSET Reference /\ r.referenced_by_map \in [NodeIds -> SUBSET NodeIds]
  BY DEF Sound, ReferencesType
<1>2. new \in ReferencesType
  BY <1>1 DEF DeleteNodeReferences, ReferencesType
<1>3. \A q \in r.references_map : q.source \in Neighbours(r, q.target)
  BY DEF Sound, LookedUp, Neighbours
<1>4. new.references_map =
        {q \in r.references_map : q.source \notin deleted /\ q.target \notin deleted}
  BY <1>3 DEF DeleteNodeReferences
<1>5. \A n \in NodeIds : new.referenced_by_map[n] =
        IF n \in deleted THEN {}
        ELSE r.referenced_by_map[n] \ {d \in deleted : n \in Neighbours(r, d)}
  BY DEF DeleteNodeReferences
<1>6. ASSUME NEW q \in new.references_map
      PROVE  q.source \in new.referenced_by_map[q.target] /\ q.source # q.target
  <2>1. q \in r.references_map /\ q.source \notin deleted /\ q.target \notin deleted
        /\ q.target \in NodeIds
    BY <1>4, <1>1 DEF Reference
  <2>2. q.source \in r.referenced_by_map[q.target] /\ q.source # q.target
    BY <2>1 DEF Sound, LookedUp, NoLoops
  <2> QED
    BY <2>1, <2>2, <1>5, Zenon
<1> QED
  BY <1>2, <1>4, <1>6 DEF Sound, LookedUp, NoLoops

(* Nodes may be deleted one after the other or together: what is left is the
   same, so that the order in which the recursion of AddressSpace::delete() comes
   to them does not matter. *)
THEOREM DeletionsCompose ==
  ASSUME NEW r, Sound(r), NEW first \in SUBSET NodeIds, NEW second \in SUBSET NodeIds
  PROVE  DeleteNodeReferences(DeleteNodeReferences(r, first), second)
           = DeleteNodeReferences(r, first \union second)
<1> DEFINE once == DeleteNodeReferences(r, first)
           twice == DeleteNodeReferences(once, second)
           both == DeleteNodeReferences(r, first \union second)
<1>1. r.references_map \in SUBSET Reference /\ r.referenced_by_map \in [NodeIds -> SUBSET NodeIds]
  BY DEF Sound, ReferencesType
<1>2. Sound(once) /\ Sound(twice) /\ Sound(both)
  BY DeleteNodesIsSound
<1>3. /\ once.references_map =
           {q \in r.references_map : q.source \notin first /\ q.target \notin first}
      /\ twice.references_map =
           {q \in once.references_map : q.source \notin second /\ q.target \notin second}
      /\ both.references_map =
           {q \in r.references_map : q.source \notin first \union second
                                     /\ q.target \notin first \union second}
  <2>1. once.references_map =
           {q \in r.references_map : q.source \notin first /\ q.target \notin first}
    BY DeleteNodesIsSound
  <2>2. twice.references_map =
           {q \in once.references_map : q.source \notin second /\ q.target \notin second}
    BY <1>2, DeleteNodesIsSound
  <2>3. both.references_map =
           {q \in r.references_map : q.source \notin first \union second
                                     /\ q.target \notin first \union second}
    BY DeleteNodesIsSound
  <2> QED
    BY <2>1, <2>2, <2>3, Zenon
<1>4. twice.references_map = both.references_map
  BY <1>3, Zenon
<1>5. \A n \in NodeIds :
        /\ once.referenced_by_map[n] =
             IF n \in first THEN {}
             ELSE r.referenced_by_map[n] \ {d \in first : n \in Neighbours(r, d)}
        /\ twice.referenced_by_map[n] =
             IF n \in second THEN {}
             ELSE once.referenced_by_map[n] \ {d \in second : n \in Neighbours(once, d)}
        /\ both.referenced_by_map[n] =
             IF n \in first \union second THEN {}
             ELSE r.referenced_by_map[n] \ {d \in first \union second : n \in Neighbours(r, d)}
  BY DEF DeleteNodeReferences
<1>6. ASSUME NEW n \in NodeIds, n \notin first, NEW d \in NodeIds, d \notin first
      PROVE  n \in Neighbours(once, d) <=> n \in Neighbours(r, d)
  <2>1. n \in TargetsOf(once.references_map, d) <=> n \in TargetsOf(r.references_map, d)
    BY <1>3, <1>6 DEF TargetsOf
  <2>2. n \in once.referenced_by_map[d] <=> n \in r.referenced_by_map[d]
    BY <1>5, <1>6, Zenon
  <2> QED
    BY <2>1, <2>2 DEF Neighbours
<1>7. ASSUME NEW n \in NodeIds, n \notin first, NEW d \in first
      PROVE  n \notin Neighbours(once, d)
  <2>1. once.referenced_by_map[d] = {}
    BY <1>5, Zenon
  <2>2. TargetsOf(once.references_map, d) = {}
    BY <1>3 DEF TargetsOf
  <2> QED
    BY <2>1, <2>2 DEF Neighbours
<1>8. ASSUME NEW n \in NodeIds
      PROVE  twice.referenced_by_map[n] = both.referenced_by_map[n]
  <2>1. CASE n \in first \union second
    BY <2>1, <1>5, Zenon
  <2>2. CASE n \notin first \union second
    <3> HIDE DEF once, twice, both
    <3>1. twice.referenced_by_map[n] =
            (r.referenced_by_map[n] \ {d \in first : n \in Neighbours(r, d)})
              \ {d \in second : n \in Neighbours(once, d)}
      BY <2>2, <1>5, Zenon
    <3>2. both.referenced_by_map[n] =
            r.referenced_by_map[n] \ {d \in first \union second : n \in Neighbours(r, d)}
      BY <2>2, <1>5, Zenon
    <3>3. \A d \in second \ first : n \in Neighbours(once, d) <=> n \in Neighbours(r, d)
      BY <2>2, <1>6
    <3>4. \A d \in first : n \notin Neighbours(once, d)
      BY <2>2, <1>7
    <3> QED
      BY <3>1, <3>2, <3>3, <3>4
  <2> QED
    BY <2>1, <2>2
<1>9. /\ twice = [references_map |-> twice.references_map,
                  referenced_by_map |-> twice.referenced_by_map]
      /\ both = [references_map |-> both.references_map,
                 referenced_by_map |-> both.referenced_by_map]
      /\ twice.referenced_by_map \in [NodeIds -> SUBSET NodeIds]
      /\ both.referenced_by_map \in [NodeIds -> SUBSET NodeIds]
  BY <1>2, Zenon DEF Sound, ReferencesType
<1> HIDE DEF once, twice, both
<1>10. twice.referenced_by_map = both.referenced_by_map
  BY <1>8, <1>9
<1>11. twice = both
  BY <1>4, <1>9, <1>10
<1> QED
  BY <1>11 DEF twice, both, once
-----------------------------------------------------------------------------
(* The first pages, each full, have taken all but the rest. *)
Taken(pages, descriptions, rest, max_references) ==
  Cardinality(descriptions) = Cardinality(rest) + pages * max_references

(* There is another page, after a whole number of them. *)
GoesOn(p) ==
  /\ p.rest # {} /\ p.rest \subseteq p.descriptions
  /\ \E pages \in 1..Cardinality(p.descriptions) :
       Taken(pages, p.descriptions, p.rest, p.max_references)

(* What the invariant says of a sequence of continuation points. *)
GoodPoint(p) ==
  /\ p \in Point /\ p.modified <= last_modified /\ GoesOn(p)
  /\ IsValid(p) => Descriptions(p.view) \subseteq p.descriptions

GoodPoints(held) ==
  /\ held \in Seq(Point)
  /\ \A i \in 1..Len(held) : GoodPoint(held[i])
  /\ \A i, j \in 1..Len(held) : i < j => held[i].modified <= held[j].modified

Inv ==
  /\ nodes \subseteq NodeIds /\ Sound(refs)
  /\ last_modified \in 0..MaxModified /\ aborted \in BOOLEAN
  /\ GoodPoints(points) /\ Len(points) <= max_browse_continuation_points

(* Part of a sequence of points, in its order. *)
LEMMA SubSeqIsGood ==
  ASSUME NEW held, GoodPoints(held), NEW m \in Nat \ {0}
  PROVE  /\ GoodPoints(SubSeq(held, m, Len(held)))
         /\ Len(SubSeq(held, m, Len(held))) = IF m <= Len(held) THEN Len(held) - m + 1 ELSE 0
<1> DEFINE n == Len(held)
           sub == SubSeq(held, m, n)
<1>1. held \in Seq(Point) /\ n \in Nat /\ \A i \in m..n : held[i] \in Point
  BY DEF GoodPoints, GoodPoint
<1>2. /\ sub \in Seq(Point) /\ Len(sub) = IF m <= n THEN n - m + 1 ELSE 0
      /\ \A i \in 1..n - m + 1 : sub[i] = held[m + i - 1]
  BY <1>1, SubSeqProperties
<1>3. \A i \in 1..Len(sub) : sub[i] = held[m + i - 1] /\ m + i - 1 \in 1..n
  BY <1>1, <1>2
<1> HIDE DEF sub, n
<1>4. \A i \in 1..Len(sub) : GoodPoint(sub[i])
  BY <1>3, Zenon DEF GoodPoints, n
<1>5. ASSUME NEW i \in 1..Len(sub), NEW j \in 1..Len(sub), i < j
      PROVE  sub[i].modified <= sub[j].modified
  <2> DEFINE ii == m + i - 1
             jj == m + j - 1
  <2>1. Len(sub) \in Nat
    BY <1>2
  <2>2. ii \in 1..n /\ jj \in 1..n /\ ii < jj /\ sub[i] = held[ii] /\ sub[j] = held[jj]
    <3>1. ii \in 1..n /\ jj \in 1..n /\ sub[i] = held[ii] /\ sub[j] = held[jj]
      BY <1>3, Zenon
    <3>2. ii < jj
      BY <1>5, <2>1
    <3> QED
      BY <3>1, <3>2, Zenon
  <2> HIDE DEF ii, jj
  <2> QED
    BY <2>2 DEF GoodPoints, n
<1> QED
  BY <1>2, <1>4, <1>5, Zenon DEF GoodPoints, sub, n

(* What remove_expired_browse_continuation_points() leaves is valid: a point that
   is out of date has only such points before it. *)
LEMMA RemoveExpiredIsGood ==
  ASSUME NEW held, GoodPoints(held), last_modified \in Nat
  PROVE  /\ GoodPoints(RemoveExpired(held)) /\ Len(RemoveExpired(held)) <= Len(held)
         /\ \A i \in 1..Len(RemoveExpired(held)) : IsValid(RemoveExpired(held)[i])
<1> DEFINE n == Len(held)
           expired == {i \in DOMAIN held : ~IsValid(held[i])}
           many == Cardinality(expired)
           rest == SubSeq(held, many + 1, n)
<1>1. /\ n \in Nat /\ DOMAIN held = 1..n
      /\ \A i \in 1..n : held[i] \in Point /\ held[i].modified \in Nat
  BY AddressSpaceAssumption DEF GoodPoints, GoodPoint, Point
<1>2. IsFiniteSet(expired)
  <2>1. IsFiniteSet(1..n)
    BY <1>1, FS_Interval
  <2>2. expired \in SUBSET (1..n)
    BY <1>1
  <2> HIDE DEF expired
  <2> QED
    BY <2>1, <2>2, FS_Subset, Zenon
<1>3. many \in Nat
  BY <1>2, FS_CardinalityType
<1>4. ASSUME NEW i \in 1..n, i > many
      PROVE  IsValid(held[i])
  <2>1. SUFFICES ASSUME ~IsValid(held[i]) PROVE FALSE
    OBVIOUS
  <2>2. ASSUME NEW j \in 1..i PROVE j \in expired
    <3>1. j \in 1..n /\ held[j].modified <= held[i].modified
      BY <1>1 DEF GoodPoints
    <3>2. held[i].modified < last_modified
      BY <2>1, <1>1 DEF IsValid
    <3> QED
      BY <1>1, <3>1, <3>2 DEF IsValid
  <2>3. 1..i \in SUBSET expired
    BY <2>2
  <2> HIDE DEF expired
  <2>4. Cardinality(1..i) <= many
    BY <1>2, <2>3, FS_Subset, Zenon
  <2>5. Cardinality(1..i) = i
    BY <1>1, FS_Interval
  <2> QED
    BY <1>1, <1>3, <1>4, <2>4, <2>5
<1>5. RemoveExpired(held) = rest
  BY DEF RemoveExpired
<1> HIDE DEF many
<1>6. GoodPoints(rest) /\ Len(rest) = IF many + 1 <= n THEN n - (many + 1) + 1 ELSE 0
  BY <1>3, SubSeqIsGood
<1>7. \A i \in 1..n - (many + 1) + 1 : rest[i] = held[many + 1 + i - 1]
  BY <1>1, <1>3, SubSeqProperties
<1> HIDE DEF rest, n
<1>8. ASSUME NEW i \in 1..Len(rest) PROVE IsValid(rest[i])
  <2>1. i \in 1..n - (many + 1) + 1 /\ many + 1 + i - 1 \in 1..n /\ many + 1 + i - 1 > many
    BY <1>1, <1>3, <1>6
  <2>2. IsValid(held[many + 1 + i - 1])
    BY <2>1, <1>4, Zenon
  <2> QED
    BY <2>1, <2>2, <1>7, Zenon
<1>9. Len(rest) <= n
  BY <1>1, <1>3, <1>6
<1> QED
  BY <1>5, <1>6, <1>8, <1>9, Zenon DEF n

(* What find_browse_continuation_point() leaves. *)
LEMMA WithoutIsGood ==
  ASSUME NEW held, GoodPoints(held), NEW i \in 1..Len(held)
  PROVE  GoodPoints(Without(held, i)) /\ Len(Without(held, i)) <= Len(held)
<1> DEFINE n == Len(held)
           front == SubSeq(held, 1, i - 1)
           back == SubSeq(held, i + 1, n)
           rest == front \o back
<1>1. held \in Seq(Point) /\ n \in Nat /\ \A k \in 1..n : held[k] \in Point
  BY DEF GoodPoints, GoodPoint
<1>2. /\ front \in Seq(Point) /\ Len(front) = i - 1
      /\ \A k \in 1..i - 1 : front[k] = held[k]
  <2>1. /\ front \in Seq(Point) /\ Len(front) = IF 1 <= i - 1 THEN i - 1 - 1 + 1 ELSE 0
        /\ \A k \in 1..i - 1 - 1 + 1 : front[k] = held[1 + k - 1]
    BY <1>1, SubSeqProperties
  <2> QED
    BY <2>1, <1>1
<1>3. /\ back \in Seq(Point) /\ Len(back) = n - i
      /\ \A k \in 1..n - i : back[k] = held[i + k]
  <2>1. /\ back \in Seq(Point) /\ Len(back) = IF i + 1 <= n THEN n - (i + 1) + 1 ELSE 0
        /\ \A k \in 1..n - (i + 1) + 1 : back[k] = held[i + 1 + k - 1]
    BY <1>1, SubSeqProperties
  <2> QED
    BY <2>1, <1>1
<1> HIDE DEF front, back
<1>4. /\ rest \in Seq(Point) /\ Len(rest) = n - 1
      /\ \A k \in 1..n - 1 : rest[k] = IF k <= i - 1 THEN front[k] ELSE back[k - (i - 1)]
  <2>1. /\ rest \in Seq(Point) /\ Len(rest) = Len(front) + Len(back)
        /\ \A k \in 1..Len(front) + Len(back) :
             rest[k] = IF k <= Len(front) THEN front[k] ELSE back[k - Len(front)]
    BY <1>2, <1>3, ConcatProperties, Zenon
  <2>2. Len(front) = i - 1 /\ Len(back) = n - i /\ Len(front) + Len(back) = n - 1
    BY <1>1, <1>2, <1>3
  <2> HIDE DEF rest, n
  <2> QED
    BY <2>1, <2>2, Zenon
<1>5. \A k \in 1..n - 1 : rest[k] = held[IF k < i THEN k ELSE k + 1]
  BY <1>1, <1>2, <1>3, <1>4
<1>6. rest = Without(held, i)
  BY DEF Without, front, back
<1> HIDE DEF rest, n
<1>7. \A k \in 1..Len(rest) : GoodPoint(rest[k])
  BY <1>1, <1>4, <1>5 DEF GoodPoints, n
<1>8. ASSUME NEW j \in 1..Len(rest), NEW k \in 1..Len(rest), j < k
      PROVE  rest[j].modified <= rest[k].modified
  <2>1. j \in 1..n - 1 /\ k \in 1..n - 1
    BY <1>4, Zenon
  <2> DEFINE jj == IF j < i THEN j ELSE j + 1
             kk == IF k < i THEN k ELSE k + 1
  <2>2. jj \in 1..n /\ kk \in 1..n /\ jj < kk
    BY <1>1, <1>8, <2>1
  <2>3. rest[j] = held[jj] /\ rest[k] = held[kk]
    BY <1>5, <2>1, ZenonT(30)
  <2> HIDE DEF jj, kk
  <2> QED
    BY <2>2, <2>3, Zenon DEF GoodPoints, n
<1>9. GoodPoints(rest) /\ Len(rest) <= n
  BY <1>1, <1>4, <1>7, <1>8 DEF GoodPoints
<1> QED
  BY <1>6, <1>9, Zenon DEF n

(* What add_browse_continuation_point() makes of them. *)
LEMMA PointsWithIsGood ==
  ASSUME NEW held, GoodPoints(held), NEW p, GoodPoint(p), p.modified = last_modified,
         last_modified \in Nat, Len(held) <= max_browse_continuation_points
  PROVE  /\ GoodPoints(PointsWith(held, p))
         /\ Len(PointsWith(held, p)) <= max_browse_continuation_points
<1> DEFINE max == max_browse_continuation_points
           kept == IF Len(held) >= max THEN SubSeq(held, Len(held) - max + 2, Len(held)) ELSE held
           new == Append(kept, p)
<1>1. max \in Nat \ {0} /\ Len(held) \in Nat
  BY AddressSpaceAssumption DEF GoodPoints
<1>2. GoodPoints(kept) /\ Len(kept) + 1 <= max
  <2>1. CASE Len(held) >= max
    <3>1. Len(held) = max /\ Len(held) - max + 2 = 2
      BY <2>1, <1>1
    <3>2. GoodPoints(SubSeq(held, 2, Len(held)))
          /\ Len(SubSeq(held, 2, Len(held))) = IF 2 <= Len(held) THEN Len(held) - 2 + 1 ELSE 0
      BY SubSeqIsGood
    <3> QED
      BY <2>1, <3>1, <3>2, <1>1
  <2>2. CASE ~(Len(held) >= max)
    BY <2>2, <1>1
  <2> QED
    BY <2>1, <2>2, Zenon
<1> HIDE DEF kept
<1>3. kept \in Seq(Point) /\ p \in Point /\ Len(kept) \in Nat
  BY <1>2 DEF GoodPoints, GoodPoint
<1>4. /\ new \in Seq(Point) /\ Len(new) = Len(kept) + 1
      /\ \A i \in 1..Len(kept) : new[i] = kept[i]
      /\ new[Len(kept) + 1] = p
  BY <1>3, AppendProperties
<1> HIDE DEF new
<1>5. \A i \in 1..Len(new) : (i \in 1..Len(kept) /\ new[i] = kept[i])
                             \/ (i = Len(kept) + 1 /\ new[i] = p)
  BY <1>3, <1>4
<1>6. \A i \in 1..Len(new) : GoodPoint(new[i])
  BY <1>2, <1>5, Zenon DEF GoodPoints
<1>7. ASSUME NEW i \in 1..Len(new), NEW j \in 1..Len(new), i < j
      PROVE  new[i].modified <= new[j].modified
  <2>1. i \in 1..Len(kept) /\ new[i] = kept[i]
    BY <1>3, <1>4, <1>5, <1>7
  <2>2. CASE j \in 1..Len(kept)
    BY <1>2, <1>4, <1>7, <2>1, <2>2, ZenonT(30) DEF GoodPoints
  <2>3. CASE new[j] = p
    BY <1>2, <2>1, <2>3, ZenonT(30) DEF GoodPoints, GoodPoint
  <2> QED
    BY <1>5, <2>2, <2>3, ZenonT(30)
<1>8. new = PointsWith(held, p)
  BY DEF new, kept, PointsWith
<1> QED
  BY <1>2, <1>4, <1>6, <1>7, <1>8, ZenonT(30) DEF GoodPoints

(* There are finitely many references, so a result has a number of them. *)
LEMMA ResultsAreFinite ==
  ASSUME NEW S \in SUBSET Description
  PROVE  IsFiniteSet(S) /\ Cardinality(S) \in Nat
<1> DEFINE D == (Types \X NodeIds) \X BOOLEAN
           f == [x \in D |-> [found |-> [type |-> x[1][1], node |-> x[1][2]],
                             is_forward |-> x[2]]]
<1>1. IsFiniteSet(D)
  <2>1. IsFiniteSet(Types \X NodeIds)
    BY AddressSpaceAssumption, FS_Product, Zenon
  <2>2. IsFiniteSet({TRUE}) /\ IsFiniteSet({FALSE})
    BY FS_Singleton, Zenon
  <2>3. IsFiniteSet({TRUE} \cup {FALSE})
    BY <2>2, FS_Union, Zenon
  <2>4. BOOLEAN = {TRUE} \cup {FALSE}
    BY Zenon
  <2>5. IsFiniteSet(BOOLEAN)
    BY <2>3, <2>4, Zenon
  <2> QED
    BY <2>1, <2>5, FS_Product, Zenon
<1>2. f \in Surjection(D, Description)
  <2>1. ASSUME NEW x \in D PROVE f[x] \in Description
    BY Zenon DEF Description
  <2>2. ASSUME NEW d \in Description PROVE \E x \in D : f[x] = d
    <3>1. PICK t \in Types, n \in NodeIds, b \in BOOLEAN :
            d = [found |-> [type |-> t, node |-> n], is_forward |-> b]
      BY Zenon DEF Description
    <3>2. <<<<t, n>>, b>> \in D /\ f[<<<<t, n>>, b>>] = d
      BY <3>1, Zenon
    <3> QED
      BY <3>2, Zenon
  <2>3. f \in [D -> Description]
    BY <2>1
  <2> HIDE DEF f
  <2> QED
    BY <2>2, <2>3, Zenon DEF Surjection
<1> HIDE DEF D, f
<1>3. IsFiniteSet(Description)
  BY <1>1, <1>2, FS_Surjection, Zenon
<1> QED
  BY <1>3, FS_Subset, FS_CardinalityType, Zenon

(* One page more is taken, and it was not the last. *)
LEMMA PageTaken ==
  ASSUME NEW descriptions \in SUBSET Description, NEW rest \in SUBSET descriptions,
         NEW max_references \in Nat \ {0}, LeavesRest(rest, max_references),
         NEW pages \in Nat, Taken(pages, descriptions, rest, max_references),
         NEW page \in SUBSET rest, Cardinality(page) = max_references
  PROVE  /\ rest \ page # {} /\ rest \ page \subseteq descriptions
         /\ \E more \in 1..Cardinality(descriptions) :
              Taken(more, descriptions, rest \ page, max_references)
<1>1. /\ IsFiniteSet(rest) /\ Cardinality(rest) \in Nat
      /\ Cardinality(descriptions) \in Nat
  BY ResultsAreFinite
<1>2. rest \cap page = page
  OBVIOUS
<1>3. IsFiniteSet(rest \ page) /\ Cardinality(rest \ page) = Cardinality(rest) - max_references
  BY <1>1, <1>2, FS_Difference, ZenonT(30)
<1>4. Cardinality(rest \ page) # 0 /\ Cardinality(rest \ page) \in Nat
  BY <1>1, <1>3 DEF LeavesRest
<1>5. rest \ page # {}
  BY <1>4, FS_EmptySet
<1>6. PICK c \in Nat, d \in Nat : c = Cardinality(descriptions) /\ d = Cardinality(rest)
  BY <1>1
<1>7. c = d + pages * max_references
  BY <1>6 DEF Taken
<1>8. pages * max_references \in Nat /\ pages <= pages * max_references
  OBVIOUS
<1>9. (pages + 1) * max_references = pages * max_references + max_references
  OBVIOUS
<1>10. d > max_references
  BY <1>6, Zenon DEF LeavesRest
<1>11. pages + 1 \in 1..c
  BY <1>7, <1>8, <1>10
<1>12. c = (d - max_references) + (pages + 1) * max_references
  BY <1>7, <1>8, <1>9
<1>13. Taken(pages + 1, descriptions, rest \ page, max_references)
  BY <1>3, <1>6, <1>12, Zenon DEF Taken
<1> QED
  BY <1>5, <1>6, <1>11, <1>13, Zenon

(* A page leaves points that are in order
   (reference_description_to_browse_result()). *)
LEMMA ResultIsGood ==
  ASSUME Inv, NEW held, GoodPoints(held), Len(held) <= max_browse_continuation_points,
         NEW view \in Views, NEW descriptions \in SUBSET Description,
         NEW rest \in SUBSET descriptions, NEW max_references \in Nat \ {0},
         Descriptions(view) \subseteq descriptions,
         NEW pages \in Nat, Taken(pages, descriptions, rest, max_references),
         ToBrowseResult(held, view, descriptions, rest, max_references)
  PROVE  GoodPoints(points') /\ Len(points') <= max_browse_continuation_points
<1>1. CASE points' = held
  BY <1>1
<1>2. CASE /\ LeavesRest(rest, max_references)
           /\ \E page \in {s \in SUBSET rest : Cardinality(s) = max_references} :
                points' = PointsWith(held, [view |-> view, modified |-> last_modified,
                                            descriptions |-> descriptions, rest |-> rest \ page,
                                            max_references |-> max_references])
  <2>1. PICK page \in {s \in SUBSET rest : Cardinality(s) = max_references} :
             points' = PointsWith(held, [view |-> view, modified |-> last_modified,
                                         descriptions |-> descriptions, rest |-> rest \ page,
                                         max_references |-> max_references])
    BY <1>2, Zenon
  <2> DEFINE p == [view |-> view, modified |-> last_modified, descriptions |-> descriptions,
                   rest |-> rest \ page, max_references |-> max_references]
  <2>2. last_modified \in 0..MaxModified /\ last_modified \in Nat
    BY AddressSpaceAssumption DEF Inv
  <2>3. p \in Point
    BY <2>2 DEF Point
  <2>4. /\ rest \ page # {} /\ rest \ page \subseteq descriptions
        /\ \E more \in 1..Cardinality(descriptions) :
             Taken(more, descriptions, rest \ page, max_references)
    BY <1>2, PageTaken, Zenon
  <2>5. GoesOn(p)
    BY <2>4 DEF GoesOn
  <2>6. GoodPoint(p) /\ p.modified = last_modified
    BY <2>2, <2>3, <2>5 DEF GoodPoint
  <2> HIDE DEF p
  <2> QED
    BY <2>1, <2>2, <2>6, PointsWithIsGood DEF p
<1> QED
  BY <1>1, <1>2, Zenon DEF ToBrowseResult

(* What browsing finds is described. *)
LEMMA DescriptionsAreTyped ==
  ASSUME Inv, NEW view \in Views
  PROVE  Descriptions(view) \in SUBSET Description
<1>1. refs.references_map \subseteq Reference
  BY DEF Inv, Sound, ReferencesType
<1>2. ASSUME NEW f \in FindReferences(refs, view.node, view.types)
                         \union FindInverseReferences(refs, view.node, view.types)
      PROVE  f \in [type : Types, node : NodeIds]
  <2>1. PICK q \in refs.references_map : f = [type |-> q.type, node |-> q.target]
                                         \/ f = [type |-> q.type, node |-> q.source]
    BY Zenon DEF FindReferences, FindInverseReferences
  <2> QED
    BY <1>1, <2>1 DEF Reference
<1>3. ASSUME NEW d \in Descriptions(view) PROVE d \in Description
  <2>1. PICK f \in FindReferences(refs, view.node, view.types)
                    \union FindInverseReferences(refs, view.node, view.types),
             is_forward \in BOOLEAN : d = [found |-> f, is_forward |-> is_forward]
    BY Zenon DEF Descriptions, FindReferencesByDirection
  <2> QED
    BY <1>2, <2>1, Zenon DEF Description
<1> QED
  BY <1>3

(* Where nodes and references only go, browsing finds nothing new. *)
LEMMA Shrinking ==
  ASSUME Inv, nodes' \subseteq nodes, refs'.references_map \subseteq refs.references_map,
         NEW view
  PROVE  Descriptions(view)' \subseteq Descriptions(view)
<1>1. \A q \in refs.references_map : q.source \in refs.referenced_by_map[q.target]
  BY DEF Inv, Sound, LookedUp
<1>2. FindReferences(refs', view.node, view.types) \subseteq
        FindReferences(refs, view.node, view.types)
  BY DEF FindReferences
<1>3. FindInverseReferences(refs', view.node, view.types) \subseteq
        FindInverseReferences(refs, view.node, view.types)
  BY <1>1 DEF FindInverseReferences
<1>4. FindReferencesByDirection(refs', view.node, view.direction, view.types) \subseteq
        FindReferencesByDirection(refs, view.node, view.direction, view.types)
  BY <1>2, <1>3 DEF FindReferencesByDirection
<1> QED
  BY <1>4 DEF Descriptions

(* Points stay in order where nodes and references only go. *)
LEMMA DeletionKeepsPoints ==
  ASSUME Inv, nodes' \subseteq nodes, refs'.references_map \subseteq refs.references_map,
         UNCHANGED <<last_modified, points>>
  PROVE  GoodPoints(points)' /\ Len(points') <= max_browse_continuation_points
<1>1. ASSUME NEW i \in 1..Len(points) PROVE GoodPoint(points[i])'
  <2>1. GoodPoint(points[i])
    BY Zenon DEF Inv, GoodPoints
  <2>2. Descriptions(points[i].view)' \subseteq Descriptions(points[i].view)
    BY Shrinking, Zenon
  <2> QED
    BY <2>1, <2>2, Zenon DEF GoodPoint, IsValid
<1> QED
  BY <1>1, Zenon DEF Inv, GoodPoints

(* An insertion makes every point invalid, because it sets the time stamp. *)
LEMMA InsertionKeepsPoints ==
  ASSUME Inv, Inserted
  PROVE  /\ GoodPoints(points)' /\ Len(points') <= max_browse_continuation_points
         /\ last_modified' \in 0..MaxModified /\ aborted' \in BOOLEAN
<1>1. /\ last_modified \in Nat /\ last_modified' = last_modified + 1
      /\ last_modified' \in 0..MaxModified /\ points' = points /\ aborted' = aborted
  BY AddressSpaceAssumption DEF Inv, Inserted, Modified
<1>2. ASSUME NEW i \in 1..Len(points) PROVE GoodPoint(points[i])'
  <2>1. points[i] \in Point /\ points[i].modified \in Nat /\ points[i].modified <= last_modified
    BY AddressSpaceAssumption DEF Inv, GoodPoints, GoodPoint, Point
  <2>2. GoesOn(points[i])'
    BY <1>1, Zenon DEF Inv, GoodPoints, GoodPoint, GoesOn
  <2> QED
    BY <1>1, <2>1, <2>2 DEF GoodPoint, IsValid
<1> QED
  BY <1>1, <1>2, Zenon DEF Inv, GoodPoints

(* Browsing changes the points only. *)
LEMMA ViewingKeepsRest ==
  ASSUME Inv, UNCHANGED <<nodes, refs, last_modified, aborted>>,
         GoodPoints(points'), Len(points') <= max_browse_continuation_points
  PROVE  Inv'
BY Zenon DEF Inv, GoodPoints, GoodPoint, IsValid, Descriptions

(* The invariant holds initially. *)
LEMMA InitIsSound == Init => Inv
<1> SUFFICES ASSUME Init PROVE Inv
  OBVIOUS
<1>1. TypeNodes \subseteq NodeIds /\ root \in NodeIds \ TypeNodes /\ Organizes \in Types
      /\ MaxModified \in Nat /\ max_browse_continuation_points \in Nat
  BY AddressSpaceAssumption, ReferencesAssumption
<1>2. refs.references_map = [source : {root}, type : {Organizes}, target : TypeNodes]
      /\ refs.referenced_by_map = [n \in NodeIds |-> IF n \in TypeNodes THEN {root} ELSE {}]
  BY Zenon DEF Init
<1>3. refs \in ReferencesType
  <2>1. refs.references_map \in SUBSET Reference
    BY <1>1, <1>2 DEF Reference
  <2>2. refs.referenced_by_map \in [NodeIds -> SUBSET NodeIds]
    BY <1>1, <1>2
  <2>3. refs = [references_map |-> refs.references_map,
                referenced_by_map |-> refs.referenced_by_map]
    BY Zenon DEF Init
  <2> QED
    BY <2>1, <2>2, <2>3 DEF ReferencesType
<1>4. LookedUp(refs) /\ NoLoops(refs)
  <2>1. ASSUME NEW q \in refs.references_map
        PROVE  q.source = root /\ q.target \in TypeNodes
    BY <1>2
  <2>2. ASSUME NEW n \in TypeNodes PROVE refs.referenced_by_map[n] = {root}
    BY <1>1, <1>2, Zenon
  <2> QED
    BY <1>1, <2>1, <2>2, Zenon DEF LookedUp, NoLoops
<1>5. GoodPoints(points) /\ Len(points) = 0
  BY DEF Init, GoodPoints
<1>6. nodes \subseteq NodeIds /\ last_modified \in 0..MaxModified /\ aborted \in BOOLEAN
  <2>1. nodes = {root} \union TypeNodes /\ last_modified = 0 /\ aborted = FALSE
    BY DEF Init
  <2>2. nodes \subseteq NodeIds /\ last_modified \in 0..MaxModified
    BY <1>1, <2>1
  <2>3. aborted \in BOOLEAN
    BY <2>1, Zenon
  <2> QED
    BY <2>2, <2>3, Zenon
<1>7. Len(points) <= max_browse_continuation_points
  BY <1>1, <1>5
<1> QED
  BY <1>3, <1>4, <1>5, <1>6, <1>7 DEF Inv, Sound

(* Nodes and references that are inserted (add_node(), add_reference(),
   add_folder_with_id()). *)
LEMMA InsertKeepsInv == Inv /\ Insert => Inv'
<1> SUFFICES ASSUME Inv, Insert PROVE Inv'
  OBVIOUS
<1>0. Sound(refs) /\ nodes \subseteq NodeIds /\ Added \subseteq Types
      /\ HasTypeDefinition \in Types /\ Organizes \in Types
      /\ TypeNodes \subseteq NodeIds /\ folder_type \in TypeNodes
  BY AddressSpaceAssumption, ReferencesAssumption, Zenon DEF Inv
<1>1. ASSUME NEW node \in NodeIds, NEW parent \in NodeIds, NEW type \in Added,
             AddNode(node, parent, type)
      PROVE  Inv'
  <2> DEFINE added == InsertReference(refs, node, parent, type)
  <2>1. node # parent /\ nodes' \subseteq NodeIds /\ Inserted
    BY <1>0, <1>1, Zenon DEF AddNode
  <2>2. Sound(added)
    BY <1>0, <2>1, InsertIsSound, Zenon
  <2>3. Sound(refs')
    <3>1. CASE refs' = added
      BY <2>2, <3>1, Zenon
    <3>2. CASE \E definition \in TypeDefinitions(node) :
                 refs' = InsertReference(added, node, definition, HasTypeDefinition)
      <4>1. PICK definition \in TypeDefinitions(node) :
                 refs' = InsertReference(added, node, definition, HasTypeDefinition)
        BY <3>2
      <4>2. definition \in NodeIds /\ definition # node
        BY <1>0, <4>1, Zenon DEF TypeDefinitions
      <4> HIDE DEF added
      <4> QED
        BY <1>0, <2>2, <4>1, <4>2, InsertIsSound, Zenon
    <3> QED
      BY <1>1, <3>1, <3>2, Zenon DEF AddNode
  <2> QED
    BY <2>1, <2>3, InsertionKeepsPoints, Zenon DEF Inv
<1>2. ASSUME NEW node \in NodeIds, NEW parent \in NodeIds, AddFolder(node, parent)
      PROVE  Inv'
  <2> DEFINE typed == InsertReference(refs, node, folder_type, HasTypeDefinition)
  <2>1. parent # node /\ node # folder_type /\ nodes' \subseteq NodeIds /\ Inserted
        /\ refs' = InsertReference(typed, parent, node, Organizes)
    BY <1>0, <1>2, Zenon DEF AddFolder
  <2>2. Sound(typed)
    BY <1>0, <2>1, InsertIsSound, Zenon
  <2> HIDE DEF typed
  <2>3. Sound(refs')
    BY <1>0, <2>1, <2>2, InsertIsSound, Zenon
  <2> QED
    BY <2>1, <2>3, InsertionKeepsPoints, Zenon DEF Inv
<1>3. ASSUME NEW source \in NodeIds, NEW target \in NodeIds, NEW type \in Added,
             NEW is_forward \in BOOLEAN, AddReference(source, target, type, is_forward)
      PROVE  Inv'
  <2>1. source # target /\ nodes' = nodes /\ Inserted /\ type \in Types
    BY <1>0, <1>3, Zenon DEF AddReference
  <2>2. Sound(InsertReference(refs, source, target, type))
        /\ Sound(InsertReference(refs, target, source, type))
    BY <1>0, <2>1, InsertIsSound, Zenon
  <2>3. Sound(refs')
    BY <1>3, <2>2, Zenon DEF AddReference
  <2> QED
    BY <1>0, <2>1, <2>3, InsertionKeepsPoints, Zenon DEF Inv
<1> QED
  BY <1>1, <1>2, <1>3, Zenon DEF Insert

(* What deleting a reference takes away links the two nodes, in one direction
   or the other (remove_node_from_referenced_nodes()). *)
LEMMA DeleteReferenceShrinks ==
  ASSUME NEW r, Sound(r), NEW source \in NodeIds, NEW target \in NodeIds, NEW type \in Types
  PROVE  /\ DeleteReference(r, source, target, type).references_map \subseteq r.references_map
         /\ \A q \in r.references_map \ DeleteReference(r, source, target, type).references_map :
              {q.source, q.target} = {source, target}
<1> DEFINE ref == [source |-> source, type |-> type, target |-> target]
           left == r.references_map \ {ref}
           difference == TargetsOf(r.references_map, source) \ TargetsOf(left, source)
           new == DeleteReference(r, source, target, type)
<1>1. r = [references_map |-> r.references_map, referenced_by_map |-> r.referenced_by_map]
  BY DEF Sound, ReferencesType
<1>2. [r EXCEPT !.references_map = left].references_map = left
  BY <1>1
<1>3. new.references_map = {q \in left : ~(q.source \in difference /\ q.target = source)}
  BY <1>2, Zenon DEF DeleteReference, RemoveNodeFromReferencedNodes
<1>4. difference \subseteq {target}
  BY DEF TargetsOf
<1> HIDE DEF difference, new
<1>5. ASSUME NEW q \in r.references_map \ new.references_map
      PROVE  {q.source, q.target} = {source, target}
  <2>1. CASE q = ref
    BY <2>1, Zenon
  <2>2. CASE q.source \in difference /\ q.target = source
    BY <1>4, <2>2, Zenon
  <2> QED
    BY <1>3, <1>5, <2>1, <2>2, Zenon
<1> QED
  BY <1>3, <1>5, Zenon DEF new

(* Nodes and references that are deleted (delete_node(), delete_reference()). *)
LEMMA DeleteKeepsInv == Inv /\ Delete => Inv'
<1> SUFFICES ASSUME Inv, Delete PROVE Inv'
  OBVIOUS
<1>0. Sound(refs) /\ nodes \subseteq NodeIds
  BY Zenon DEF Inv
<1>1. ASSUME NEW node \in NodeIds, NEW targets \in BOOLEAN, DeleteNode(node, targets)
      PROVE  Inv'
  <2>1. Visited(refs, node) \in SUBSET NodeIds
    BY Zenon DEF Visited
  <2>2. Sound(DeleteNodeReferences(refs, Visited(refs, node)))
        /\ DeleteNodeReferences(refs, Visited(refs, node)).references_map
             \subseteq refs.references_map
    BY <1>0, <2>1, DeleteNodesIsSound, ZenonT(30)
  <2>3. Sound(refs') /\ refs'.references_map \subseteq refs.references_map
        /\ nodes' \subseteq nodes /\ aborted' \in BOOLEAN
        /\ UNCHANGED <<last_modified, points>>
    BY <1>0, <1>1, <2>2, Zenon DEF DeleteNode, Inv
  <2> QED
    BY <1>0, <2>3, DeletionKeepsPoints, Zenon DEF Inv
<1>2. ASSUME NEW source \in NodeIds, NEW target \in NodeIds, NEW type \in Types,
             NEW bidirectional \in BOOLEAN,
             DeleteReferenceItem(source, target, type, bidirectional)
      PROVE  Inv'
  <2> DEFINE deleted == DeleteReference(refs, source, target, type)
  <2>1. Sound(deleted) /\ deleted.references_map \subseteq refs.references_map
    BY <1>0, DeleteReferenceIsSound, DeleteReferenceShrinks
  <2>2. refs' = deleted \/ refs' = DeleteReference(deleted, target, source, type)
    BY <1>2 DEF DeleteReferenceItem
  <2> HIDE DEF deleted
  <2>3. Sound(DeleteReference(deleted, target, source, type))
        /\ DeleteReference(deleted, target, source, type).references_map
             \subseteq deleted.references_map
    BY <2>1, DeleteReferenceIsSound, DeleteReferenceShrinks
  <2>4. Sound(refs') /\ refs'.references_map \subseteq refs.references_map
    BY <2>1, <2>2, <2>3, Zenon
  <2>5. UNCHANGED <<nodes, last_modified, points, aborted>>
    BY <1>2 DEF DeleteReferenceItem
  <2> QED
    BY <1>0, <2>4, <2>5, DeletionKeepsPoints DEF Inv
<1> QED
  BY <1>1, <1>2, Zenon DEF Delete

(* Browsing (browse(), browse_next()). *)
LEMMA ViewKeepsInv == Inv /\ View => Inv'
<1> SUFFICES ASSUME Inv, View PROVE Inv'
  OBVIOUS
<1>0. GoodPoints(points) /\ Len(points) <= max_browse_continuation_points
      /\ last_modified \in Nat /\ max_browse_continuation_points \in Nat /\ Len(points) \in Nat
  BY AddressSpaceAssumption DEF Inv, GoodPoints
<1>1. ASSUME NEW view \in Views, NEW requested \in Requested, Browse(view, requested)
      PROVE  Inv'
  <2>1. MaxReferences(requested) \in Nat \ {0}
    BY AddressSpaceAssumption DEF MaxReferences
  <2>2. Descriptions(view) \in SUBSET Description
    BY DescriptionsAreTyped
  <2>3. ToBrowseResult(points, view, Descriptions(view), Descriptions(view),
                       MaxReferences(requested))
        /\ UNCHANGED <<nodes, refs, last_modified, aborted>>
    BY <1>1 DEF Browse
  <2>4. Taken(0, Descriptions(view), Descriptions(view), MaxReferences(requested))
    BY <2>1, <2>2, ResultsAreFinite DEF Taken
  <2>5. GoodPoints(points') /\ Len(points') <= max_browse_continuation_points
    BY <1>0, <2>1, <2>2, <2>3, <2>4, ResultIsGood, Zenon
  <2> QED
    BY <2>3, <2>5, ViewingKeepsRest, Zenon
<1>2. CASE BrowseNext
  <2> DEFINE held == RemoveExpired(points)
  <2>1. GoodPoints(held) /\ Len(held) <= Len(points)
        /\ \A i \in 1..Len(held) : IsValid(held[i])
    BY <1>0, RemoveExpiredIsGood, Zenon
  <2>2. \/ points' = held
        \/ \E i \in DOMAIN held :
             ToBrowseResult(Without(held, i), held[i].view, held[i].descriptions,
                            held[i].rest, held[i].max_references)
    BY <1>2, Zenon DEF BrowseNext
  <2> HIDE DEF held
  <2>3. DOMAIN held = 1..Len(held) /\ Len(held) \in Nat
        /\ Len(held) <= max_browse_continuation_points
    BY <1>0, <2>1 DEF GoodPoints
  <2>4. ASSUME NEW i \in DOMAIN held,
               ToBrowseResult(Without(held, i), held[i].view, held[i].descriptions,
                              held[i].rest, held[i].max_references)
        PROVE  GoodPoints(points') /\ Len(points') <= max_browse_continuation_points
    <3>0. i \in 1..Len(held)
      BY <2>3, Zenon
    <3>1. GoodPoints(Without(held, i)) /\ Len(Without(held, i)) <= Len(held)
          /\ Len(Without(held, i)) \in Nat
      <4>1. GoodPoints(Without(held, i)) /\ Len(Without(held, i)) <= Len(held)
        BY <2>1, <3>0, WithoutIsGood, Zenon
      <4>2. Without(held, i) \in Seq(Point)
        BY <4>1, Zenon DEF GoodPoints
      <4> QED
        BY <4>1, <4>2
    <3>2. Len(Without(held, i)) <= max_browse_continuation_points
      BY <1>0, <2>3, <3>1
    <3>3. /\ held[i].view \in Views /\ held[i].descriptions \in SUBSET Description
          /\ held[i].max_references \in Nat \ {0}
          /\ Descriptions(held[i].view) \subseteq held[i].descriptions
          /\ GoesOn(held[i])
      BY <2>1, <2>3, Zenon DEF GoodPoints, GoodPoint, Point
    <3>4. Cardinality(held[i].descriptions) \in Nat
      BY <3>3, ResultsAreFinite, Zenon
    <3>5. held[i].rest \in SUBSET held[i].descriptions
      BY <3>3, Zenon DEF GoesOn
    <3>6. PICK pages \in Nat :
            Taken(pages, held[i].descriptions, held[i].rest, held[i].max_references)
      BY <3>3, <3>4 DEF GoesOn
    <3> QED
      BY <2>4, <3>1, <3>2, <3>3, <3>5, <3>6, ResultIsGood, ZenonT(30)
  <2>5. GoodPoints(points') /\ Len(points') <= max_browse_continuation_points
    BY <2>1, <2>2, <2>3, <2>4, Zenon
  <2> QED
    BY <1>2, <2>5, ViewingKeepsRest, Zenon DEF BrowseNext
<1>3. ASSUME NEW i \in DOMAIN points, Release(i) PROVE Inv'
  <2>1. i \in 1..Len(points)
    <3>1. points \in Seq(Point)
      BY <1>0, Zenon DEF GoodPoints
    <3> QED
      BY <3>1
  <2>2. GoodPoints(Without(points, i)) /\ Len(Without(points, i)) <= Len(points)
        /\ Len(Without(points, i)) \in Nat
    <3>1. GoodPoints(Without(points, i)) /\ Len(Without(points, i)) <= Len(points)
      BY <1>0, <2>1, WithoutIsGood, Zenon
    <3>2. Without(points, i) \in Seq(Point)
      BY <3>1, Zenon DEF GoodPoints
    <3> QED
      BY <3>1, <3>2
  <2>3. GoodPoints(points') /\ Len(points') <= max_browse_continuation_points
    BY <1>0, <1>3, <2>2 DEF Release
  <2> QED
    BY <1>3, <2>3, ViewingKeepsRest, Zenon DEF Release
<1> QED
  BY <1>1, <1>2, <1>3, Zenon DEF View

(* The references stay sound and the points in order, whatever services and
   application do (Inv is inductive). *)
THEOREM AddressSpaceIsSound == Spec => []Inv
<1>1. Inv /\ UNCHANGED vars => Inv'
  BY DEF Inv, vars, GoodPoints, GoodPoint, IsValid, Descriptions
<1>2. Inv /\ [Next]_vars => Inv'
  BY <1>1, InsertKeepsInv, DeleteKeepsInv, ViewKeepsInv, Zenon DEF Next
<1> QED
  BY <1>2, InitIsSound, PTL DEF Spec

(* The number of continuation points is limited and no reference leads from a
   node to itself, for any nodes, types and views. *)
THEOREM TypesAreKept == Spec => []TypeOK
<1>1. Inv => TypeOK
  BY Zenon DEF Inv, Sound, NoLoops, GoodPoints, TypeOK
<1> QED
  BY <1>1, AddressSpaceIsSound, PTL

(* Browsing inversely agrees with browsing forward, for any nodes and types:
   find_inverse_references() misses no reference although it only looks where the
   lookups lead. *)
THEOREM InverseAgreesWithForward == Spec => []BrowsedBothWays
<1>1. Inv => BrowsedBothWays
  <2> SUFFICES ASSUME Inv, NEW source \in NodeIds, NEW target \in NodeIds, NEW type \in Types
               PROVE  HasReference(refs, source, target, type)
                        <=> [type |-> type, node |-> source]
                              \in FindInverseReferences(refs, target, Types)
    BY Zenon DEF BrowsedBothWays
  <2>0. Sound(refs)
    BY DEF Inv
  <2>1. refs.references_map \subseteq Reference /\ LookedUp(refs)
    BY <2>0, Zenon DEF Sound, ReferencesType
  <2>2. ASSUME HasReference(refs, source, target, type)
        PROVE  [type |-> type, node |-> source] \in FindInverseReferences(refs, target, Types)
    <3> DEFINE q == [source |-> source, type |-> type, target |-> target]
    <3>1. q \in refs.references_map
      BY <2>2, Zenon DEF HasReference
    <3>2. q.source \in refs.referenced_by_map[target] /\ q.target = target /\ q.type \in Types
          /\ [type |-> type, node |-> source] = [type |-> q.type, node |-> q.source]
      BY <2>1, <3>1, Zenon DEF LookedUp
    <3> HIDE DEF q
    <3> QED
      BY <3>1, <3>2, Zenon DEF FindInverseReferences
  <2>3. ASSUME [type |-> type, node |-> source] \in FindInverseReferences(refs, target, Types)
        PROVE  HasReference(refs, source, target, type)
    <3>1. PICK q \in refs.references_map :
                 q.target = target /\ [type |-> type, node |-> source]
                                       = [type |-> q.type, node |-> q.source]
      BY <2>3, Zenon DEF FindInverseReferences
    <3>2. q = [source |-> source, type |-> type, target |-> target]
      BY <2>1, <3>1, ZenonT(30) DEF Reference
    <3> QED
      BY <3>1, <3>2, Zenon DEF HasReference
  <2> QED
    BY <2>2, <2>3, Zenon
<1> QED
  BY <1>1, AddressSpaceIsSound, PTL

(* A continuation point that is still valid has every reference of the node, for
   any number of points and modifications. *)
THEOREM ValidPointsAreComplete == Spec => []PointsMissNothing
<1>1. Inv => PointsMissNothing
  BY DEF Inv, GoodPoints, GoodPoint, PointsMissNothing
<1> QED
  BY <1>1, AddressSpaceIsSound, PTL

(* The points are in the order of their time stamps, which is what lets
   remove_expired_browse_continuation_points() be a cut. *)
THEOREM OrderIsKept == Spec => []PointsInOrder
<1>1. Inv => PointsInOrder
  BY DEF Inv, GoodPoints, PointsInOrder
<1> QED
  BY <1>1, AddressSpaceIsSound, PTL

(* A continuation point has another page that is not empty, after a whole number
   of full ones, for any page size and any result. *)
THEOREM PointsAlwaysGoOn == Spec => []PointsGoOn
<1>1. Inv => PointsGoOn
  BY DEF Inv, GoodPoints, GoodPoint, GoesOn, Taken, PointsGoOn
<1> QED
  BY <1>1, AddressSpaceIsSound, PTL

(* Nodes that are deleted together with the references to them are not
   mentioned by any reference any more, however many nodes delete() visits. *)
THEOREM NothingMentionsDeleted == Spec => DeletedIsGone
<1>1. Inv /\ [Next]_vars =>
        [\A node \in NodeIds :
           nodes' # nodes /\ DeleteNode(node, TRUE) =>
             \A r \in refs'.references_map :
               {r.source, r.target} \intersect (nodes \ nodes') = {}]_vars
  <2> SUFFICES ASSUME Inv, NEW node \in NodeIds, nodes' # nodes, DeleteNode(node, TRUE),
                      NEW r \in refs'.references_map
               PROVE  {r.source, r.target} \intersect (nodes \ nodes') = {}
    BY Zenon
  <2> DEFINE visited == Visited(refs, node)
  <2>1. nodes' = nodes \ visited /\ refs' = DeleteNodeReferences(refs, visited)
    BY DEF DeleteNode
  <2>2. visited \in SUBSET NodeIds /\ Sound(refs)
    BY DEF Visited, Inv
  <2> HIDE DEF visited
  <2>3. r.source \notin visited /\ r.target \notin visited
    BY <2>1, <2>2, DeleteNodesIsSound
  <2> QED
    BY <2>1, <2>3, Zenon
<1> QED
  BY <1>1, AddressSpaceIsSound, PTL DEF Spec, DeletedIsGone

(* delete_reference() is to delete the references of one type from one node to
   another.  The clean-up after it, remove_node_from_referenced_nodes(), also
   takes away those of any type the other way round; what links any other two
   nodes is left alone. *)
OnlyBetweenTheTwo ==
  [][\A source, target \in NodeIds, type \in Types :
       refs' # refs /\ DeleteReferenceItem(source, target, type, FALSE) =>
         \A r \in refs.references_map \ refs'.references_map :
           {r.source, r.target} = {source, target}]_vars

(* However the clean-up of delete_reference() goes on, it stays between the two
   nodes. *)
THEOREM DeletionsAreLocal == Spec => OnlyBetweenTheTwo
<1>1. Inv /\ [Next]_vars =>
        [\A source, target \in NodeIds, type \in Types :
           refs' # refs /\ DeleteReferenceItem(source, target, type, FALSE) =>
             \A r \in refs.references_map \ refs'.references_map :
               {r.source, r.target} = {source, target}]_vars
  <2> SUFFICES ASSUME Inv, NEW source \in NodeIds, NEW target \in NodeIds, NEW type \in Types,
                      DeleteReferenceItem(source, target, type, FALSE)
               PROVE  \A r \in refs.references_map \ refs'.references_map :
                        {r.source, r.target} = {source, target}
    BY Zenon
  <2>1. refs' = DeleteReference(refs, source, target, type)
    BY DEF DeleteReferenceItem
  <2>2. Sound(refs)
    BY DEF Inv
  <2> QED
    BY <2>1, <2>2, DeleteReferenceShrinks
<1> QED
  BY <1>1, AddressSpaceIsSound, PTL DEF Spec, OnlyBetweenTheTwo
=============================================================================
