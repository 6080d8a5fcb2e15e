------------------------------ MODULE LocksProofs ------------------------------
(***************************************************************************)
(* Programs that take their locks in one order never wait for one another   *)
(* in a circle, for any number of threads, locks and programs.              *)
(*                                                                          *)
(* The argument has two parts.  In a state: of a set of threads that wait   *)
(* for one another take the last lock that any of them wants; whoever holds *)
(* it wants a later one.  Over steps: what a thread holds is what its       *)
(* program has taken and not released, so that a program that is in order   *)
(* keeps its thread in order to its end.                                    *)
(*                                                                          *)
(* The programs of the server, but for the two methods, are such programs,  *)
(* for any number of connections.                                           *)
(***************************************************************************)
EXTENDS ServerLocks, SequenceTheorems, FiniteSetTheorems, WellFoundedInduction, TLAPS

Nothing == [l \in Names |-> "U"]

(* Every program, run by a thread that holds nothing, is in order.  A thread is in
   this state when it starts one. *)
ProgramsInOrder == \A t \in Threads : \A p \in Programs[t] : InOrder(Nothing, p)

Inv == TypeOK /\ LocksInOrder

(* What a thread wants now comes after all that it holds. *)
NextInOrder ==
  \A t \in Threads, l, m \in Names :
    held[t][l] # "U" /\ (Reads(t, m) \/ Writes(t, m)) => <<l, m>> \in Before

(* What Head and Tail are of a sequence of steps. *)
LEMMA FirstStep ==
  ASSUME NEW p \in Seq(Steps), p # <<>>
  PROVE  /\ Head(p) = p[1] /\ p[1] \in Steps /\ Len(p) \in Nat \ {0}
         /\ Tail(p) \in Seq(Steps) /\ Len(Tail(p)) = Len(p) - 1
         /\ \A k \in 1..Len(p) - 1 : Tail(p)[k] = p[k + 1]
<1>1. Len(p) \in Nat \ {0}
  BY EmptySeq, LenProperties
<1>2. p[1] \in Steps /\ Head(p) = p[1]
  BY <1>1, ElementOfSeq, HeadTailProperties
<1>3. /\ Tail(p) \in Seq(Steps) /\ Len(Tail(p)) = Len(p) - 1
      /\ \A k \in 1..Len(Tail(p)) : Tail(p)[k] = p[k + 1]
  BY HeadTailProperties
<1> QED
  BY <1>1, <1>2, <1>3

(* A step takes from the program what it gives to what is held. *)
LEMMA StepKeepsOrder ==
  ASSUME NEW h \in [Names -> {"R", "W", "U"}], NEW p \in Seq(Steps), p # <<>>, InOrder(h, p),
         NEW g, g = IF p[1].mode \in {"r", "w"} THEN h ELSE [h EXCEPT ![p[1].lock] = p[1].mode]
  PROVE  InOrder(g, Tail(p))
<1> DEFINE q == Tail(p)
<1>1. /\ p[1] \in Steps /\ Len(p) \in Nat \ {0} /\ Len(q) = Len(p) - 1
      /\ \A k \in 1..Len(p) - 1 : q[k] = p[k + 1]
  BY FirstStep
<1>2. p[1].mode \in Modes /\ p[1].lock \in Names
  BY <1>1 DEF Steps
<1> HIDE DEF q
<1>3. ASSUME NEW k \in 1..Len(p), NEW l \in Kept(g, q, k)
      PROVE  l \in Kept(h, p, k + 1)
  <2>0. l \in Names
    BY DEF Kept
  <2>1. CASE \E i \in 1..k - 1 : Keeps(q[i], l) /\ \A j \in i + 1..k - 1 : ~Releases(q[j], l)
    <3>1. PICK i \in 1..k - 1 : Keeps(q[i], l) /\ \A j \in i + 1..k - 1 : ~Releases(q[j], l)
      BY <2>1
    <3>2. i + 1 \in 1..(k + 1) - 1 /\ q[i] = p[i + 1]
      BY <1>1
    <3>3. ASSUME NEW j \in (i + 1) + 1..(k + 1) - 1 PROVE ~Releases(p[j], l)
      <4>1. j - 1 \in i + 1..k - 1 /\ j - 1 \in 1..Len(p) - 1 /\ (j - 1) + 1 = j
        BY <1>1
      <4>2. q[j - 1] = p[j]
        BY <1>1, <4>1
      <4> QED
        BY <3>1, <4>1, <4>2
    <3> QED
      BY <2>0, <3>1, <3>2, <3>3 DEF Kept
  <2>2. CASE g[l] # "U" /\ \A j \in 1..k - 1 : ~Releases(q[j], l)
    <3>1. ASSUME NEW j \in 2..(k + 1) - 1 PROVE ~Releases(p[j], l)
      <4>1. j - 1 \in 1..k - 1 /\ j - 1 \in 1..Len(p) - 1 /\ (j - 1) + 1 = j
        BY <1>1
      <4>2. q[j - 1] = p[j]
        BY <1>1, <4>1
      <4> QED
        BY <2>2, <4>1, <4>2
    <3>2. CASE Keeps(p[1], l)
      <4>1. 1 \in 1..(k + 1) - 1 /\ 1 + 1 = 2
        BY <1>1
      <4> QED
        BY <2>0, <3>1, <3>2, <4>1 DEF Kept
    <3>3. CASE ~Keeps(p[1], l)
      <4>1. h[l] # "U" /\ ~Releases(p[1], l)
        BY <1>2, <2>0, <2>2, <3>3 DEF Keeps, Releases, Modes
      <4>2. \A j \in 1..(k + 1) - 1 : j = 1 \/ j \in 2..(k + 1) - 1
        BY <1>1
      <4>3. \A j \in 1..(k + 1) - 1 : ~Releases(p[j], l)
        BY <3>1, <4>1, <4>2
      <4> QED
        BY <2>0, <4>1, <4>3 DEF Kept
    <3> QED
      BY <3>2, <3>3
  <2> QED
    BY <2>1, <2>2 DEF Kept
<1>4. ASSUME NEW k \in 1..Len(q), q[k].mode # "U", NEW l \in Kept(g, q, k)
      PROVE  <<l, q[k].lock>> \in Before
  <2>1. k \in 1..Len(p) /\ k + 1 \in 1..Len(p) /\ q[k] = p[k + 1]
    BY <1>1
  <2>2. l \in Kept(h, p, k + 1)
    BY <1>3, <2>1, Zenon
  <2> QED
    BY <1>4, <2>1, <2>2 DEF InOrder
<1>5. Kept(g, q, Len(q) + 1) = {}
  <2>1. Len(q) + 1 = Len(p) /\ Len(p) \in 1..Len(p)
    BY <1>1
  <2>2. Kept(h, p, Len(p) + 1) = {}
    BY DEF InOrder
  <2> QED
    BY <1>3, <2>1, <2>2, Zenon
<1> QED
  BY <1>4, <1>5, Zenon DEF InOrder, q

(* A thread whose program is done holds nothing. *)
LEMMA DoneHoldsNothing ==
  ASSUME NEW h \in [Names -> {"R", "W", "U"}], InOrder(h, <<>>)
  PROVE  h = Nothing
<1>1. Kept(h, <<>>, 1) = {}
  BY DEF InOrder
<1>2. ASSUME NEW l \in Names, h[l] # "U" PROVE l \in Kept(h, <<>>, 1)
  BY <1>2 DEF Kept
<1> QED
  BY <1>1, <1>2 DEF Nothing

(* The next lock of a program in order comes after those that are held. *)
LEMMA NextComesAfter ==
  ASSUME NEW h, NEW p \in Seq(Steps), p # <<>>, InOrder(h, p), p[1].mode # "U",
         NEW l \in Names, h[l] # "U"
  PROVE  <<l, p[1].lock>> \in Before
<1>1. 1 \in 1..Len(p)
  BY FirstStep
<1>2. l \in Kept(h, p, 1)
  BY DEF Kept
<1> QED
  BY <1>1, <1>2 DEF InOrder
-----------------------------------------------------------------------------
(* Modes, names and the set of waiting writers stay what they are. *)
LEMMA TypesAreInductive == TypeOK /\ [Next]_vars => TypeOK'
<1> SUFFICES ASSUME TypeOK, [Next]_vars PROVE TypeOK'
  OBVIOUS
<1>1. ASSUME NEW t \in Threads, NEW program \in Programs[t], Start(t, program) PROVE TypeOK'
  BY <1>1, LocksAssumption DEF TypeOK, Start
<1>2. ASSUME NEW t \in Threads, Advance(t) PROVE TypeOK'
  <2> DEFINE p == todo[t]
  <2>1. p \in Seq(Steps) /\ p # <<>>
    BY <1>2 DEF TypeOK, Advance, Running
  <2>2. Head(p) \in Steps /\ Tail(p) \in Seq(Steps)
    BY <2>1, FirstStep
  <2>3. todo' = [todo EXCEPT ![t] = Tail(p)] /\ parked' = parked \ {t}
        /\ held' = IF Head(p).mode \in {"r", "w"} THEN held
                   ELSE [held EXCEPT ![t][Head(p).lock] = Head(p).mode]
    BY <1>2 DEF Advance
  <2> HIDE DEF p
  <2>4. Head(p).mode \in Modes /\ Head(p).lock \in Names
    BY <2>2 DEF Steps
  <2>5. held' \in [Threads -> [Names -> {"R", "W", "U"}]]
    BY <2>3, <2>4 DEF TypeOK, Modes
  <2> QED
    BY <2>2, <2>3, <2>5 DEF TypeOK
<1>3. ASSUME NEW t \in Threads, Park(t) PROVE TypeOK'
  BY <1>3 DEF TypeOK, Park
<1>4. CASE UNCHANGED vars
  BY <1>4 DEF TypeOK, vars
<1> QED
  BY <1>1, <1>2, <1>3, <1>4 DEF Next

(* The modes in which locks are held, for any programs. *)
THEOREM TypesAreKept == Spec => []TypeOK
<1>1. Init => TypeOK
  BY DEF Init, TypeOK
<1> QED
  BY <1>1, TypesAreInductive, PTL DEF Spec

(* Threads keep to the order if their programs do. *)
LEMMA OrderIsInductive == ProgramsInOrder /\ Inv /\ [Next]_vars => Inv'
<1> SUFFICES ASSUME ProgramsInOrder, Inv, [Next]_vars PROVE Inv'
  OBVIOUS
<1>0. TypeOK /\ TypeOK'
  BY TypesAreInductive DEF Inv
<1>1. ASSUME NEW t \in Threads, NEW program \in Programs[t], Start(t, program),
             NEW u \in Threads
      PROVE  InOrder(held[u], todo[u])'
  <2>1. InOrder(held[u], todo[u]) /\ InOrder(Nothing, program)
    BY DEF Inv, LocksInOrder, ProgramsInOrder
  <2>2. held' = held /\ todo[t] = <<>> /\ todo'[u] = IF u = t THEN program ELSE todo[u]
    BY <1>0, <1>1 DEF Start, Running, TypeOK
  <2>3. CASE u = t
    <3>1. held[t] = Nothing
      BY <1>0, <2>1, <2>2, <2>3, DoneHoldsNothing DEF TypeOK
    <3> QED
      BY <2>1, <2>2, <2>3, <3>1
  <2>4. CASE u # t
    BY <2>1, <2>2, <2>4
  <2> QED
    BY <2>3, <2>4
<1>2. ASSUME NEW t \in Threads, Advance(t), NEW u \in Threads
      PROVE  InOrder(held[u], todo[u])'
  <2>1. InOrder(held[u], todo[u]) /\ todo[u] \in Seq(Steps)
        /\ held[u] \in [Names -> {"R", "W", "U"}]
    BY <1>0 DEF Inv, LocksInOrder, TypeOK
  <2>2. CASE u = t
    <3> DEFINE p == todo[t]
               g == IF p[1].mode \in {"r", "w"} THEN held[t]
                    ELSE [held[t] EXCEPT ![p[1].lock] = p[1].mode]
    <3>1. p # <<>> /\ Head(p) = p[1]
      BY <1>2, <2>1, <2>2, FirstStep DEF Advance, Running
    <3>2. todo'[t] = Tail(p)
      BY <1>0, <1>2 DEF Advance, TypeOK
    <3>3. held'[t] = g
      BY <1>0, <1>2, <3>1 DEF Advance, TypeOK
    <3>4. InOrder(g, Tail(p))
      BY <2>1, <2>2, <3>1, StepKeepsOrder
    <3> QED
      BY <2>2, <3>2, <3>3, <3>4
  <2>3. CASE u # t
    <3>1. held'[u] = held[u] /\ todo'[u] = todo[u]
      BY <1>0, <1>2, <2>3 DEF Advance, TypeOK
    <3> QED
      BY <2>1, <3>1
  <2> QED
    BY <2>2, <2>3
<1>3. ASSUME NEW t \in Threads, Park(t), NEW u \in Threads
      PROVE  InOrder(held[u], todo[u])'
  BY <1>3 DEF Inv, LocksInOrder, Park
<1>4. ASSUME UNCHANGED vars, NEW u \in Threads
      PROVE  InOrder(held[u], todo[u])'
  BY <1>4 DEF Inv, LocksInOrder, vars
<1>5. \A u \in Threads : InOrder(held[u], todo[u])'
  BY <1>1, <1>2, <1>3, <1>4 DEF Next
<1> QED
  BY <1>0, <1>5 DEF Inv, LocksInOrder

(* Programs that are in order keep every thread in order and well typed. *)
LEMMA OrderHolds == ProgramsInOrder => (Spec => []Inv)
<1>1. Init => Inv
  <2> SUFFICES ASSUME Init PROVE Inv
    OBVIOUS
  <2>1. TypeOK
    BY DEF Init, TypeOK
  <2>2. ASSUME NEW t \in Threads PROVE InOrder(held[t], todo[t])
    <3>1. held[t] = Nothing /\ todo[t] = <<>> /\ Len(<<>>) = 0
      BY DEF Init, Nothing
    <3>2. Kept(Nothing, <<>>, 1) = {}
      BY DEF Kept, Nothing
    <3> QED
      BY <3>1, <3>2 DEF InOrder
  <2> QED
    BY <2>1, <2>2 DEF Inv, LocksInOrder
<1>2. ASSUME ProgramsInOrder PROVE Spec => []Inv
  <2>1. Inv /\ [Next]_vars => Inv'
    BY <1>2, OrderIsInductive
  <2> QED
    BY <1>1, <2>1, PTL DEF Spec
<1> QED
  BY <1>2

(* If every path on its own takes its locks in the order and gives them back, so
   does every thread, for any number of threads and locks. *)
THEOREM ProgramsKeepOrder == ProgramsInOrder => (Spec => []LocksInOrder)
<1>1. Inv => LocksInOrder
  BY DEF Inv
<1> QED
  BY <1>1, OrderHolds, PTL

(* What the invariant says of the whole rest of a program, it says of its next
   step. *)
LEMMA NextIsInOrder == Inv => NextInOrder
<1> SUFFICES ASSUME Inv, NEW t \in Threads, NEW l \in Names, NEW m \in Names,
                    held[t][l] # "U", Reads(t, m) \/ Writes(t, m)
             PROVE  <<l, m>> \in Before
  BY DEF NextInOrder
<1> DEFINE p == todo[t]
<1>1. p \in Seq(Steps) /\ p # <<>> /\ InOrder(held[t], p)
  BY DEF Inv, LocksInOrder, TypeOK, Reads, Writes, Running
<1>2. Head(p) = p[1]
  BY <1>1, FirstStep
<1>3. p[1].lock = m /\ p[1].mode # "U"
  BY <1>2 DEF Reads, Writes
<1> QED
  BY <1>1, <1>3, NextComesAfter

(* Threads that keep to the order do not wait for one another in a circle,
   although readers also wait behind writers that wait. *)
LEMMA OrderPreventsDeadlock == NextInOrder => NoDeadlock
<1> SUFFICES ASSUME NextInOrder, NEW T \in (SUBSET Threads) \ {{}},
                    \A t \in T : \E u \in T : Waits(t, u)
             PROVE  FALSE
  BY DEF NoDeadlock
<1> DEFINE Wants(t, l) == Reads(t, l) \/ Writes(t, l)
           wanted == {l \in Names : \E t \in T : Wants(t, l)}
<1>0. T \subseteq Threads /\ T # {}
  OBVIOUS
<1>1. ASSUME NEW t \in T PROVE \E l \in Names : Wants(t, l)
  BY DEF Waits
<1>2. wanted \in (SUBSET Names) \ {{}}
  BY <1>0, <1>1
<1>3. PICK last \in wanted : \A l \in wanted : <<last, l>> \notin Before
  <2> HIDE DEF wanted
  <2> QED
    BY <1>2, LocksAssumption
<1>4. ASSUME NEW u \in T, held[u][last] # "U" PROVE FALSE
  <2>1. PICK l \in Names : Wants(u, l)
    BY <1>1
  <2>2. <<last, l>> \in Before
    BY <1>0, <1>4, <2>1 DEF NextInOrder
  <2> QED
    BY <1>3, <2>1, <2>2
<1>5. ASSUME NEW t \in T, Writes(t, last) PROVE FALSE
  <2>1. PICK u \in T : Waits(t, u)
    OBVIOUS
  <2>2. PICK l \in Names : Reads(t, l) \/ (Writes(t, l) /\ held[u][l] # "U")
    BY <2>1 DEF Waits
  <2>3. Writes(t, l) /\ l = last /\ held[u][l] # "U"
    BY <1>5, <2>2 DEF Reads, Writes
  <2> QED
    BY <1>4, <2>3
<1>6. PICK t \in T : Reads(t, last)
  BY <1>5
<1>7. PICK u \in T : Waits(t, u)
  OBVIOUS
<1>8. held[u][last] = "W" \/ Writes(u, last)
  BY <1>6, <1>7 DEF Waits, Reads, Writes
<1> QED
  BY <1>4, <1>5, <1>8

(* Programs that take their locks in one order never deadlock, for any number of
   threads and locks: the server without ResendData and GetMonitoredItems. *)
THEOREM OrderedProgramsGoOn == ProgramsInOrder => (Spec => []NoDeadlock)
<1>1. Inv => NoDeadlock
  BY NextIsInOrder, OrderPreventsDeadlock
<1> QED
  BY <1>1, OrderHolds, PTL
-----------------------------------------------------------------------------
(* The programs of the server are in order.  Path(H, p, G): a thread that begins
   with at most the locks of H takes those of p in order and has at most those
   of G at its end.  Paths are put together from steps. *)
Has(H, p, k) ==
  {l \in Names :
     \/ l \in H /\ \A j \in 1..k - 1 : ~Releases(p[j], l)
     \/ \E i \in 1..k - 1 : Keeps(p[i], l) /\ \A j \in i + 1..k - 1 : ~Releases(p[j], l)}

Path(H, p, G) ==
  /\ p \in Seq(Steps)
  /\ \A k \in 1..Len(p) : p[k].mode # "U" => \A l \in Has(H, p, k) : <<l, p[k].lock>> \in Before
  /\ Has(H, p, Len(p) + 1) \subseteq G

(* One path after the other is a path. *)
LEMMA Join ==
  ASSUME NEW H, NEW p, NEW M, NEW q, NEW G, Path(H, p, M), Path(M, q, G)
  PROVE  Path(H, p \o q, G)
<1> DEFINE r == p \o q
           n == Len(p)
<1>1. p \in Seq(Steps) /\ q \in Seq(Steps) /\ n \in Nat /\ Len(q) \in Nat
  BY DEF Path
<1>2. /\ r \in Seq(Steps) /\ Len(r) = n + Len(q)
      /\ \A k \in 1..n : r[k] = p[k]
      /\ \A k \in 1..Len(q) : r[n + k] = q[k]
  BY <1>1
<1> HIDE DEF r, n
<1>3. ASSUME NEW k \in 1..n + 1, NEW l \in Has(H, r, k)
      PROVE  l \in Has(H, p, k)
  <2>1. \A j \in 1..k - 1 : r[j] = p[j]
    BY <1>1, <1>2
  <2>2. \A i \in 1..k - 1 : \A j \in i + 1..k - 1 : j \in 1..k - 1
    BY <1>1
  <2>3. \A j \in 1..k - 1 : Releases(p[j], l) => Releases(r[j], l)
    BY <2>1, Zenon
  <2>4. \A i \in 1..k - 1 : Keeps(r[i], l) => Keeps(p[i], l)
    BY <2>1, Zenon
  <2>5. CASE l \in H /\ \A j \in 1..k - 1 : ~Releases(r[j], l)
    BY <2>3, <2>5, Zenon DEF Has
  <2>6. CASE \E i \in 1..k - 1 :
               Keeps(r[i], l) /\ \A j \in i + 1..k - 1 : ~Releases(r[j], l)
    BY <2>2, <2>3, <2>4, <2>6, Zenon DEF Has
  <2> QED
    BY <2>5, <2>6, Zenon DEF Has
<1>4. ASSUME NEW k \in 1..Len(q) + 1, NEW l \in Has(H, r, n + k)
      PROVE  l \in Has(M, q, k)
  <2>0. l \in Names
    BY Zenon DEF Has
  <2>1. CASE /\ l \in Has(H, r, n + 1)
             /\ \A j \in n + 1..(n + k) - 1 : ~Releases(r[j], l)
    <3>1. l \in M
      <4>1. n + 1 \in 1..n + 1
        BY <1>1
      <4> QED
        BY <1>3, <2>1, <4>1, Zenon DEF Path, n
    <3>2. ASSUME NEW j \in 1..k - 1 PROVE ~Releases(q[j], l)
      <4>1. n + j \in n + 1..(n + k) - 1 /\ j \in 1..Len(q)
        BY <1>1
      <4> QED
        BY <1>2, <2>1, <4>1, Zenon
    <3> QED
      BY <2>0, <3>1, <3>2, Zenon DEF Has
  <2>2. CASE \E i \in n + 1..(n + k) - 1 :
               Keeps(r[i], l) /\ \A j \in i + 1..(n + k) - 1 : ~Releases(r[j], l)
    <3>1. PICK i \in n + 1..(n + k) - 1 :
                 Keeps(r[i], l) /\ \A j \in i + 1..(n + k) - 1 : ~Releases(r[j], l)
      BY <2>2, Zenon
    <3>2. i - n \in 1..k - 1 /\ i - n \in 1..Len(q) /\ n + (i - n) = i
      BY <1>1
    <3>3. Keeps(q[i - n], l)
      BY <1>2, <3>1, <3>2, Zenon
    <3>4. ASSUME NEW j \in (i - n) + 1..k - 1 PROVE ~Releases(q[j], l)
      <4>1. n + j \in i + 1..(n + k) - 1 /\ j \in 1..Len(q)
        BY <1>1
      <4> QED
        BY <1>2, <3>1, <4>1, Zenon
    <3> QED
      BY <2>0, <3>2, <3>3, <3>4, Zenon DEF Has
  <2>3. \/ l \in H /\ \A j \in 1..(n + k) - 1 : ~Releases(r[j], l)
        \/ \E i \in 1..(n + k) - 1 :
             Keeps(r[i], l) /\ \A j \in i + 1..(n + k) - 1 : ~Releases(r[j], l)
    BY Zenon DEF Has
  <2>4. /\ \A j \in 1..(n + 1) - 1 : j \in 1..(n + k) - 1
        /\ \A j \in n + 1..(n + k) - 1 : j \in 1..(n + k) - 1
    BY <1>1
  <2>5. CASE l \in H /\ \A j \in 1..(n + k) - 1 : ~Releases(r[j], l)
    <3>1. l \in Has(H, r, n + 1) /\ \A j \in n + 1..(n + k) - 1 : ~Releases(r[j], l)
      BY <2>0, <2>4, <2>5, Zenon DEF Has
    <3> QED
      BY <2>1, <3>1, Zenon
  <2>6. ASSUME NEW i \in 1..(n + k) - 1, Keeps(r[i], l),
               \A j \in i + 1..(n + k) - 1 : ~Releases(r[j], l)
        PROVE  l \in Has(M, q, k)
    <3>1. CASE i \in 1..(n + 1) - 1
      <4>1. /\ \A j \in i + 1..(n + 1) - 1 : j \in i + 1..(n + k) - 1
            /\ \A j \in n + 1..(n + k) - 1 : j \in i + 1..(n + k) - 1
        BY <1>1, <3>1
      <4>2. l \in Has(H, r, n + 1) /\ \A j \in n + 1..(n + k) - 1 : ~Releases(r[j], l)
        BY <2>0, <2>6, <3>1, <4>1, Zenon DEF Has
      <4> QED
        BY <2>1, <4>2, Zenon
    <3>2. CASE i \in n + 1..(n + k) - 1
      BY <2>2, <2>6, <3>2, Zenon
    <3> QED
      BY <1>1, <3>1, <3>2
  <2> QED
    BY <2>3, <2>5, <2>6, Zenon
<1>5. ASSUME NEW k \in 1..Len(r), r[k].mode # "U", NEW l \in Has(H, r, k)
      PROVE  <<l, r[k].lock>> \in Before
  <2>1. CASE k \in 1..n
    <3>1. k \in 1..n + 1
      BY <1>1, <2>1
    <3> QED
      BY <1>2, <1>3, <1>5, <2>1, <3>1, ZenonT(30) DEF Path, n
  <2>2. CASE k - n \in 1..Len(q)
    <3>1. k - n \in 1..Len(q) + 1 /\ n + (k - n) = k
      BY <1>1, <2>2
    <3>2. l \in Has(M, q, k - n) /\ r[k] = q[k - n]
      BY <1>2, <1>4, <2>2, <3>1, Zenon
    <3> QED
      BY <1>5, <2>2, <3>2, Zenon DEF Path
  <2> QED
    BY <1>1, <1>2, <2>1, <2>2
<1>6. Has(H, r, Len(r) + 1) \subseteq G
  <2>1. Len(q) + 1 \in 1..Len(q) + 1 /\ Len(r) + 1 = n + (Len(q) + 1)
    BY <1>1, <1>2
  <2> QED
    BY <1>4, <2>1, Zenon DEF Path
<1> QED
  BY <1>2, <1>5, <1>6, Zenon DEF Path, r

(* A program that is one step is a path if its lock comes after those of H. *)
LEMMA OneStep ==
  ASSUME NEW H \in SUBSET Names, NEW G, NEW m \in Modes, NEW l \in Names,
         m # "U" => \A h \in H : <<h, l>> \in Before,
         \A h \in H : h \in G \/ (m = "U" /\ h = l),
         m \in {"R", "W"} => l \in G
  PROVE  Path(H, <<[mode |-> m, lock |-> l]>>, G)
<1> DEFINE s == [mode |-> m, lock |-> l]
           p == <<s>>
<1>1. s \in Steps /\ s.mode = m /\ s.lock = l
  BY DEF Steps
<1> HIDE DEF s
<1>2. p \in Seq(Steps) /\ Len(p) = 1 /\ p[1] = s
  BY <1>1
<1> HIDE DEF p
<1>3. 1..1 - 1 = {} /\ 1..Len(p) = {1} /\ 1..(Len(p) + 1) - 1 = {1}
  BY <1>2
<1>4. Has(H, p, 1) \subseteq H
  BY <1>3, Zenon DEF Has
<1>5. Has(H, p, Len(p) + 1) \subseteq G
  BY <1>1, <1>2, <1>3, Zenon DEF Has, Releases, Keeps
<1> QED
  BY <1>1, <1>2, <1>3, <1>4, <1>5, ZenonT(30) DEF Path, p, s

(* Taking a lock that comes after those of H, to keep it or not. *)
LEMMA Takes ==
  ASSUME NEW H \in SUBSET Names, NEW l \in Names, \A h \in H : <<h, l>> \in Before,
         NEW G, H \subseteq G, l \in G
  PROVE  /\ Path(H, Read(l), G) /\ Path(H, Write(l), G)
         /\ Path(H, TouchRead(l), H) /\ Path(H, TouchWrite(l), H)
<1>1. {"R", "W", "r", "w"} \subseteq Modes /\ "r" \notin {"R", "W"} /\ "w" \notin {"R", "W"}
  BY DEF Modes
<1>2. Path(H, Read(l), G) /\ Path(H, Write(l), G)
  BY <1>1, OneStep, Zenon DEF Read, Write
<1>3. Path(H, TouchRead(l), H) /\ Path(H, TouchWrite(l), H)
  BY <1>1, OneStep, Zenon DEF TouchRead, TouchWrite
<1> QED
  BY <1>2, <1>3

(* Giving a lock back. *)
LEMMA GivesBack ==
  ASSUME NEW H \in SUBSET Names, NEW l \in Names, NEW G, \A h \in H : h = l \/ h \in G
  PROVE  Path(H, Unlock(l), G)
<1>1. "U" \in Modes /\ "U" \notin {"R", "W"}
  BY DEF Modes
<1> QED
  BY <1>1, OneStep, Zenon DEF Unlock

(* Doing nothing. *)
LEMMA Idle ==
  ASSUME NEW H
  PROVE  Path(H, <<>>, H)
<1>1. /\ <<>> \in Seq(Steps) /\ Len(<<>>) = 0
      /\ 1..0 = {} /\ 1..(0 + 1) - 1 = {}
  OBVIOUS
<1>2. Has(H, <<>>, 0 + 1) \subseteq H
  BY <1>1, Zenon DEF Has
<1> QED
  BY <1>1, <1>2, Zenon DEF Path

(* What ForEach puts together; the function in its definition exists. *)
LEMMA Upto ==
  ASSUME NEW s \in Seq(Threads), NEW p
  PROVE  \E f : /\ f = [k \in 0..Len(s) |-> IF k = 0 THEN <<>> ELSE f[k - 1] \o p[s[k]]]
                /\ ForEach(s, p) = f[Len(s)]
<1> DEFINE Is(f, n) == f = [k \in 0..n |-> IF k = 0 THEN <<>> ELSE f[k - 1] \o p[s[k]]]
           without == {n \in Nat : ~\E f : Is(f, n)}
<1>1. Is([k \in 0..0 |-> <<>>], 0)
  OBVIOUS
<1>2. ASSUME NEW n \in Nat, NEW f, Is(f, n)
      PROVE  Is([k \in 0..n + 1 |-> IF k = n + 1 THEN f[n] \o p[s[n + 1]] ELSE f[k]], n + 1)
  <2> DEFINE g == [k \in 0..n + 1 |-> IF k = n + 1 THEN f[n] \o p[s[n + 1]] ELSE f[k]]
             h == [k \in 0..n + 1 |-> IF k = 0 THEN <<>> ELSE g[k - 1] \o p[s[k]]]
  <2>1. ASSUME NEW k \in 0..n + 1 PROVE g[k] = h[k]
    <3>1. CASE k = n + 1
      <4>1. k # 0 /\ k - 1 = n /\ n \in 0..n + 1 /\ n # n + 1
        BY <3>1
      <4>2. g[k] = f[n] \o p[s[k]] /\ g[k - 1] = f[n]
        BY <3>1, <4>1, Zenon
      <4>3. h[k] = g[k - 1] \o p[s[k]]
        BY <4>1, Zenon
      <4> QED
        BY <4>2, <4>3, Zenon
    <3>2. CASE k # n + 1
      <4>1. k \in 0..n /\ (k # 0 => k - 1 \in 0..n + 1 /\ k - 1 # n + 1)
        BY <3>2
      <4>2. g[k] = f[k] /\ (k # 0 => g[k - 1] = f[k - 1])
        BY <3>2, <4>1, Zenon
      <4>3. f[k] = IF k = 0 THEN <<>> ELSE f[k - 1] \o p[s[k]]
        BY <1>2, <4>1, Zenon
      <4>4. h[k] = IF k = 0 THEN <<>> ELSE g[k - 1] \o p[s[k]]
        BY Zenon
      <4> HIDE DEF g, h
      <4> QED
        BY <4>2, <4>3, <4>4, Zenon
    <3> QED
      BY <3>1, <3>2, ZenonT(30)
  <2> QED
    BY <2>1, Zenon
<1>0. \A n \in Nat : (\E f : Is(f, n)) => \E f : Is(f, n + 1)
  <2> HIDE DEF Is
  <2> QED
    BY <1>2, Zenon
<1>3. without = {}
  <2> SUFFICES ASSUME without # {} PROVE FALSE
    BY Zenon
  <2>1. without \subseteq Nat
    BY Zenon
  <2> HIDE DEF without
  <2>2. PICK n \in without : \A m \in without : <<m, n>> \notin OpToRel(<, Nat)
    BY <2>1, NatLessThanWellFounded, WFMin, Zenon
  <2>3. n \in Nat /\ ~\E f : Is(f, n)
    BY <2>2, Zenon DEF without
  <2>4. n # 0
    BY <1>1, <2>3, ZenonT(30)
  <2>5. n - 1 \in Nat /\ n - 1 < n /\ (n - 1) + 1 = n
    BY <2>3, <2>4
  <2>6. <<n - 1, n>> \in OpToRel(<, Nat)
    BY <2>3, <2>5 DEF OpToRel
  <2> HIDE DEF Is
  <2>7. \E f : Is(f, n - 1)
    BY <2>2, <2>5, <2>6, Zenon DEF without
  <2>8. \E f : Is(f, (n - 1) + 1)
    BY <1>0, <2>5, <2>7, Zenon
  <2> QED
    BY <2>3, <2>5, <2>8, Zenon
<1>4. \E f : Is(f, Len(s))
  <2>1. Len(s) \in Nat
    OBVIOUS
  <2> QED
    BY <1>3, <2>1, Zenon
<1> DEFINE g == CHOOSE f : Is(f, Len(s))
<1>5. Is(g, Len(s))
  BY <1>4, Zenon
<1>6. ForEach(s, p) = g[Len(s)]
  BY Zenon DEF ForEach
<1> QED
  BY <1>5, <1>6, Zenon

(* Going through a sequence of sessions. *)
LEMMA Each ==
  ASSUME NEW H, NEW s \in Seq(Threads), NEW p, \A t \in Threads : Path(H, p[t], H)
  PROVE  Path(H, ForEach(s, p), H)
<1>1. PICK f : /\ f = [k \in 0..Len(s) |-> IF k = 0 THEN <<>> ELSE f[k - 1] \o p[s[k]]]
               /\ ForEach(s, p) = f[Len(s)]
  BY Upto, Zenon
<1> DEFINE bad == {k \in 0..Len(s) : ~Path(H, f[k], H)}
<1>2. Len(s) \in Nat /\ Len(s) \in 0..Len(s) /\ \A k \in 1..Len(s) : s[k] \in Threads
  OBVIOUS
<1>3. bad = {}
  <2> SUFFICES ASSUME bad # {} PROVE FALSE
    BY Zenon
  <2>1. bad \subseteq Nat
    BY <1>2
  <2> HIDE DEF bad
  <2>2. PICK n \in bad : \A m \in bad : <<m, n>> \notin OpToRel(<, Nat)
    BY <2>1, NatLessThanWellFounded, WFMin, Zenon
  <2>3. n \in 0..Len(s) /\ ~Path(H, f[n], H)
    BY <2>2, Zenon DEF bad
  <2>4. f[n] = IF n = 0 THEN <<>> ELSE f[n - 1] \o p[s[n]]
    BY <1>1, <2>3, Zenon
  <2>5. n # 0
    BY <2>3, <2>4, Idle, Zenon
  <2>6. n - 1 \in 0..Len(s) /\ n \in 1..Len(s) /\ n \in Nat /\ n - 1 \in Nat /\ n - 1 < n
    BY <1>2, <2>3, <2>5
  <2>7. <<n - 1, n>> \in OpToRel(<, Nat)
    BY <2>6 DEF OpToRel
  <2>8. Path(H, f[n - 1], H)
    BY <2>2, <2>6, <2>7, Zenon DEF bad
  <2> QED
    BY <1>2, <2>3, <2>4, <2>5, <2>6, <2>8, Join, ZenonT(30)
<1> QED
  BY <1>1, <1>2, <1>3, Zenon

(* The four locks that all connections share, in their order, and the sessions. *)
ServerSetting ==
  /\ Names = ServerLockNames /\ Programs = ServerPrograms /\ Before = ServerLockOrder
  /\ ~WithMethods

SM == "session_manager"
SS == "server_state"
AL == "audit_log"
AS == "address_space"

(* What comes before what. *)
LEMMA Ranks ==
  ASSUME ServerSetting
  PROVE  /\ SM \in Names /\ SS \in Names /\ AL \in Names /\ AS \in Names
         /\ Threads \subseteq Names
         /\ <<SM, SS>> \in Before /\ <<SM, AS>> \in Before /\ <<SS, AS>> \in Before
         /\ <<SM, AL>> \in Before /\ <<SS, AL>> \in Before /\ <<AL, AS>> \in Before
         /\ \A c \in Threads : /\ <<SM, c>> \in Before /\ <<SS, c>> \in Before
                               /\ <<c, AL>> \in Before /\ <<c, AS>> \in Before
<1>1. /\ SM \in ServerLockNames /\ SS \in ServerLockNames
      /\ AL \in ServerLockNames /\ AS \in ServerLockNames
      /\ Threads \subseteq ServerLockNames
  BY Zenon DEF ServerLockNames, SM, SS, AL, AS
<1>2. SM \notin Threads /\ SS \notin Threads /\ AL \notin Threads /\ AS \notin Threads
  BY ServerLocksAssumption DEF SM, SS, AL, AS
<1>3. /\ ServerLockRank[SM] = 1 /\ ServerLockRank[SS] = 2
      /\ ServerLockRank[AL] = 4 /\ ServerLockRank[AS] = 5
  BY <1>1, <1>2 DEF ServerLockRank, SM, SS, AL, AS
<1>4. ASSUME NEW c \in Threads PROVE ServerLockRank[c] = 3
  <2>1. c \in ServerLockNames /\ c # SM /\ c # SS /\ c # AL /\ c # AS
    BY <1>1, <1>2, Zenon
  <2> QED
    BY <2>1 DEF ServerLockRank, SM, SS, AL, AS
<1>5. ASSUME NEW l \in ServerLockNames, NEW m \in ServerLockNames,
             ServerLockRank[l] < ServerLockRank[m]
      PROVE  <<l, m>> \in ServerLockOrder
  BY <1>5 DEF ServerLockOrder
<1>6. /\ 1 < 2 /\ 1 < 3 /\ 1 < 4 /\ 1 < 5
      /\ 2 < 3 /\ 2 < 4 /\ 2 < 5 /\ 3 < 4 /\ 3 < 5 /\ 4 < 5
  OBVIOUS
<1>7. /\ <<SM, SS>> \in ServerLockOrder /\ <<SM, AS>> \in ServerLockOrder
      /\ <<SS, AS>> \in ServerLockOrder /\ <<SM, AL>> \in ServerLockOrder
      /\ <<SS, AL>> \in ServerLockOrder /\ <<AL, AS>> \in ServerLockOrder
  BY <1>1, <1>3, <1>5, <1>6
<1>8. ASSUME NEW c \in Threads
      PROVE  /\ <<SM, c>> \in ServerLockOrder /\ <<SS, c>> \in ServerLockOrder
             /\ <<c, AL>> \in ServerLockOrder /\ <<c, AS>> \in ServerLockOrder
  BY <1>1, <1>3, <1>4, <1>5, <1>6
<1> QED
  BY <1>1, <1>7, <1>8, Zenon DEF ServerSetting

(* The steps from which the programs are made, with what is held around them. *)
LEMMA ServerSteps ==
  ASSUME ServerSetting, NEW c \in Threads
  PROVE  /\ Path({}, Read(SM), {SM}) /\ Path({}, Write(SM), {SM}) /\ Path({SM}, Unlock(SM), {})
         /\ Path({}, Read(SS), {SS}) /\ Path({}, Write(SS), {SS}) /\ Path({SS}, Unlock(SS), {})
         /\ Path({SM}, TouchRead(SS), {SM}) /\ Path({SM}, Write(SS), {SM, SS})
         /\ Path({SM, SS}, Unlock(SS), {SM})
         /\ Path({}, TouchRead(c), {}) /\ Path({}, TouchWrite(c), {})
         /\ Path({SM}, TouchRead(c), {SM})
         /\ Path({}, Write(c), {c}) /\ Path({c}, Unlock(c), {})
         /\ Path({SM}, Write(c), {SM, c}) /\ Path({SM, c}, Unlock(c), {SM})
         /\ Path({SS}, Read(c), {SS, c}) /\ Path({SS}, Write(c), {SS, c})
         /\ Path({SS, c}, Unlock(c), {SS})
<1>1. SM \in Names /\ SS \in Names /\ c \in Names
  BY Ranks, Zenon
<1>2. /\ {} \in SUBSET Names /\ {SM} \in SUBSET Names /\ {SS} \in SUBSET Names
      /\ {c} \in SUBSET Names /\ {SM, SS} \in SUBSET Names
      /\ {SM, c} \in SUBSET Names /\ {SS, c} \in SUBSET Names
  BY <1>1, Zenon
<1>3. /\ \A l \in Names : \A h \in {} : <<h, l>> \in Before
      /\ \A h \in {SM} : <<h, SS>> \in Before /\ <<h, c>> \in Before
      /\ \A h \in {SS} : <<h, c>> \in Before
  BY Ranks, Zenon
<1>4. /\ Path({}, Read(SM), {SM}) /\ Path({}, Write(SM), {SM})
      /\ Path({}, Read(SS), {SS}) /\ Path({}, Write(SS), {SS})
  BY <1>1, <1>2, <1>3, Takes, Zenon
<1>5. /\ Path({}, TouchRead(c), {}) /\ Path({}, TouchWrite(c), {}) /\ Path({}, Write(c), {c})
  BY <1>1, <1>2, <1>3, Takes, Zenon
<1>6. /\ Path({SM}, TouchRead(SS), {SM}) /\ Path({SM}, Write(SS), {SM, SS})
      /\ Path({SM}, TouchRead(c), {SM}) /\ Path({SM}, Write(c), {SM, c})
  <2>1. {SM} \subseteq {SM, SS} /\ SS \in {SM, SS} /\ {SM} \subseteq {SM, c} /\ c \in {SM, c}
    BY Zenon
  <2> QED
    BY <1>1, <1>2, <1>3, <2>1, Takes, ZenonT(30)
<1>7. Path({SS}, Read(c), {SS, c}) /\ Path({SS}, Write(c), {SS, c})
  <2>1. {SS} \subseteq {SS, c} /\ c \in {SS, c}
    BY Zenon
  <2> QED
    BY <1>1, <1>2, <1>3, <2>1, Takes, ZenonT(30)
<1>8. /\ Path({SM}, Unlock(SM), {}) /\ Path({SS}, Unlock(SS), {}) /\ Path({c}, Unlock(c), {})
  BY <1>1, <1>2, GivesBack, ZenonT(30)
<1>9. /\ Path({SM, SS}, Unlock(SS), {SM}) /\ Path({SM, c}, Unlock(c), {SM})
      /\ Path({SS, c}, Unlock(c), {SS})
  BY <1>1, <1>2, GivesBack, Zenon
<1> QED
  BY <1>4, <1>5, <1>6, <1>7, <1>8, <1>9, ZenonT(30)

(* The address space comes last. *)
LEMMA AddressSpaceSteps ==
  ASSUME ServerSetting, NEW c \in Threads, NEW H \in SUBSET {SM, SS, c, AL}
  PROVE  /\ Path(H, TouchRead(AS), H) /\ Path(H, TouchWrite(AS), H)
         /\ Path(H, Read(AS), H \union {AS}) /\ Path(H, Write(AS), H \union {AS})
         /\ Path(H \union {AS}, Unlock(AS), H)
<1>1. AS \in Names /\ H \in SUBSET Names /\ H \union {AS} \in SUBSET Names
  BY Ranks, Zenon
<1>2. \A h \in H : <<h, AS>> \in Before
  BY Ranks, Zenon
<1>3. H \subseteq H \union {AS} /\ AS \in H \union {AS}
  BY Zenon
<1>4. \A h \in H \union {AS} : h = AS \/ h \in H
  BY Zenon
<1> QED
  BY <1>1, <1>2, <1>3, <1>4, Takes, GivesBack, ZenonT(30)

(* find_session_by_token() and find_session_by_id(). *)
LEMMA FindPath ==
  ASSUME ServerSetting, NEW c \in Threads, NEW search \in Seq(Threads)
  PROVE  Path({}, Find(search), {})
<1>1. ASSUME NEW t \in Threads PROVE Path({SM}, LookAt[t], {SM})
  BY ServerSteps, Zenon DEF LookAt
<1>2. Path({SM}, ForEach(search, LookAt), {SM})
  BY <1>1, Each, Zenon
<1>3. Path({}, Read(SM), {SM}) /\ Path({SM}, Unlock(SM), {})
  BY ServerSteps, Zenon
<1> QED
  BY <1>2, <1>3, Join, Zenon DEF Find, SM

(* The services that run under validate_service_request(). *)
LEMMA ServicePaths ==
  ASSUME ServerSetting, NEW c \in Threads, NEW service \in Services(c)
  PROVE  Path({}, service, {})
<1>1. /\ Path({SS, c}, Read(AS), {SS, c} \union {AS}) /\ Path({SS, c}, Write(AS), {SS, c} \union {AS})
      /\ Path({SS, c} \union {AS}, Unlock(AS), {SS, c})
  BY AddressSpaceSteps, Zenon
<1>2. Path({}, Browse(c), {})
  <2>1. /\ Path({}, Read(SS), {SS}) /\ Path({SS}, Write(c), {SS, c})
        /\ Path({SS, c}, Unlock(c), {SS}) /\ Path({SS}, Unlock(SS), {})
    BY ServerSteps, Zenon
  <2>2. Path({}, Read(SS) \o Write(c) \o Read(AS), {SS, c} \union {AS})
    BY <1>1, <2>1, Join, ZenonT(30)
  <2>3. Path({}, Read(SS) \o Write(c) \o Read(AS) \o Unlock(AS) \o Unlock(c) \o Unlock(SS), {})
    BY <1>1, <2>1, <2>2, Join, ZenonT(30)
  <2> QED
    BY <2>3, Zenon DEF Browse, SS, AS
<1>3. Path({}, WriteNodes(c), {})
  <2>1. /\ Path({}, Read(SS), {SS}) /\ Path({SS}, Read(c), {SS, c})
        /\ Path({SS, c}, Unlock(c), {SS}) /\ Path({SS}, Unlock(SS), {})
    BY ServerSteps, Zenon
  <2>2. Path({}, Read(SS) \o Read(c) \o Write(AS), {SS, c} \union {AS})
    BY <1>1, <2>1, Join, ZenonT(30)
  <2>3. Path({}, Read(SS) \o Read(c) \o Write(AS) \o Unlock(AS) \o Unlock(c) \o Unlock(SS), {})
    BY <1>1, <2>1, <2>2, Join, ZenonT(30)
  <2> QED
    BY <2>3, Zenon DEF WriteNodes, SS, AS
<1>4. Path({}, CreateSubscription(c), {})
  <2>1. /\ Path({}, Write(SS), {SS}) /\ Path({SS}, Write(c), {SS, c})
        /\ Path({SS, c}, Unlock(c), {SS}) /\ Path({SS}, Unlock(SS), {})
    BY ServerSteps, Zenon
  <2> QED
    BY <2>1, Join, Zenon DEF CreateSubscription, SS
<1>5. Path({}, Publish(c), {})
  <2>1. Path({}, Write(c), {c}) /\ Path({c}, Unlock(c), {})
    BY ServerSteps, Zenon
  <2>2. Path({c}, Read(AS), {c} \union {AS}) /\ Path({c} \union {AS}, Unlock(AS), {c})
    BY AddressSpaceSteps, Zenon
  <2> QED
    BY <2>1, <2>2, Join, Zenon DEF Publish, AS
<1> QED
  BY <1>2, <1>3, <1>4, <1>5, ZenonT(30) DEF Services, ServerSetting

(* A request that is validated before and counted after its service. *)
LEMMA ValidatedPath ==
  ASSUME ServerSetting, NEW c \in Threads, NEW search \in Seq(Threads),
         NEW service \in Services(c)
  PROVE  Path({}, Validated(c, search, service), {})
<1>1. /\ Path({}, Find(search), {}) /\ Path({}, service, {})
      /\ Path({}, TouchRead(c), {}) /\ Path({}, TouchWrite(c), {})
  BY FindPath, ServicePaths, ServerSteps, Zenon
<1> QED
  BY <1>1, Join, Zenon DEF Validated

(* An audit event is put into the address space whatever is held. *)
LEMMA AuditPath ==
  ASSUME ServerSetting, NEW c \in Threads, NEW H \in SUBSET {SM, SS, c}
  PROVE  Path(H, Audit, H)
<1>1. AL \in Names /\ H \in SUBSET Names /\ H \union {AL} \in SUBSET Names
  BY Ranks, Zenon
<1>2. \A h \in H : <<h, AL>> \in Before
  BY Ranks, Zenon
<1>3. H \subseteq H \union {AL} /\ AL \in H \union {AL}
      /\ \A h \in H \union {AL} : h = AL \/ h \in H
  BY Zenon
<1>4. Path(H, Write(AL), H \union {AL}) /\ Path(H \union {AL}, Unlock(AL), H)
  BY <1>1, <1>2, <1>3, Takes, GivesBack, ZenonT(30)
<1>5. Path(H, TouchRead(AS), H)
  BY AddressSpaceSteps, Zenon
<1>6. Path(H \union {AL}, TouchWrite(AS), H \union {AL})
  BY AddressSpaceSteps, Zenon
<1> QED
  BY <1>4, <1>5, <1>6, Join, ZenonT(30) DEF Audit, AL, AS

(* The services that create, activate and close sessions. *)
LEMMA SessionPaths ==
  ASSUME ServerSetting, NEW c \in Threads, NEW search \in Seq(Threads)
  PROVE  /\ Path({}, CreateSession, {}) /\ Path({}, ActivateSession(c, search), {})
         /\ Path({}, CloseSession(c, search), {})
<1>1. /\ Path({}, Write(SM), {SM}) /\ Path({SM}, TouchRead(SS), {SM})
      /\ Path({SM}, Write(SS), {SM, SS}) /\ Path({SM, SS}, Unlock(SS), {SM})
      /\ Path({SM}, TouchRead(c), {SM}) /\ Path({SM}, Unlock(SM), {})
  BY ServerSteps, Zenon
<1>2. /\ Path({}, Write(SS), {SS}) /\ Path({SS}, Write(c), {SS, c})
      /\ Path({SS, c}, Unlock(c), {SS}) /\ Path({SS}, Unlock(SS), {})
      /\ Path({}, TouchRead(c), {}) /\ Path({}, TouchWrite(c), {})
  BY ServerSteps, Zenon
<1>3. Path({SS, c}, Audit, {SS, c}) /\ Path({SM, SS}, Audit, {SM, SS})
  BY AuditPath, Zenon
<1>4. Path({SM, SS}, TouchWrite(AS), {SM, SS})
  BY AddressSpaceSteps, Zenon
<1>5. Path({}, Find(search), {})
  BY FindPath, Zenon
<1>6. Path({}, CreateSession, {})
  BY <1>1, <1>3, <1>4, Join, Zenon DEF CreateSession, SM, SS, AS
<1>7. Path({}, ActivateSession(c, search), {})
  BY <1>2, <1>3, <1>5, Join, ZenonT(30) DEF ActivateSession, SS
<1>8. Path({}, CloseSession(c, search), {})
  BY <1>1, <1>2, <1>3, <1>5, Join, ZenonT(30) DEF CloseSession, SM, SS
<1> QED
  BY <1>6, <1>7, <1>8, Zenon

(* The timer and the end of a connection go through all sessions, one at a time. *)
LEMMA SweepPaths ==
  ASSUME ServerSetting, NEW c \in Threads, NEW order \in Seq(Threads)
  PROVE  Path({}, Finish(order), {}) /\ Path({}, Timer(order), {})
<1> DEFINE clear == [s \in Threads |-> Write(s) \o TouchWrite("address_space") \o Unlock(s)]
           tick == [s \in Threads |-> Write(s) \o TouchRead("address_space") \o Unlock(s)]
<1>1. ASSUME NEW s \in Threads
      PROVE  Path({SM}, clear[s], {SM}) /\ Path({SM}, tick[s], {SM})
  <2>1. Path({SM}, Write(s), {SM, s}) /\ Path({SM, s}, Unlock(s), {SM})
    BY ServerSteps, Zenon
  <2>2. Path({SM, s}, TouchWrite(AS), {SM, s}) /\ Path({SM, s}, TouchRead(AS), {SM, s})
    BY AddressSpaceSteps, Zenon
  <2>3. /\ Path({SM}, Write(s) \o TouchWrite(AS) \o Unlock(s), {SM})
        /\ Path({SM}, Write(s) \o TouchRead(AS) \o Unlock(s), {SM})
    BY <2>1, <2>2, Join, Zenon
  <2> QED
    BY <2>3, Zenon DEF AS
<1> HIDE DEF clear, tick
<1>2. Path({SM}, ForEach(order, clear), {SM}) /\ Path({SM}, ForEach(order, tick), {SM})
  BY <1>1, Each, Zenon
<1>3. Path({}, Read(SM), {SM}) /\ Path({}, Write(SM), {SM}) /\ Path({SM}, Unlock(SM), {})
  BY ServerSteps, Zenon
<1>4. /\ Path({}, Write(SM) \o ForEach(order, clear) \o Unlock(SM), {})
      /\ Path({}, Read(SM) \o ForEach(order, tick) \o Unlock(SM), {})
  BY <1>2, <1>3, Join, Zenon
<1> QED
  BY <1>4, Zenon DEF Finish, Timer, SM, clear, tick

(* A hash map yields sequences of sessions. *)
LEMMA OrdersAreSequences ==
  ASSUME NEW c
  PROVE  Orders \subseteq Seq(Threads) /\ Searches(c) \subseteq Seq(Threads)
<1>1. Cardinality(Threads) \in Nat
  BY ServerLocksAssumption, FS_CardinalityType, Zenon
<1> DEFINE n == Cardinality(Threads)
<1> HIDE DEF n
<1>2. ASSUME NEW s \in [1..n -> Threads]
      PROVE  s \in Seq(Threads) /\ Len(s) = n
  BY <1>1, <1>2 DEF n
<1>3. ASSUME NEW s \in Orders PROVE s \in Seq(Threads) /\ Len(s) = n
  BY <1>2, <1>3, Zenon DEF Orders, n
<1>4. ASSUME NEW s \in Orders, NEW k \in 1..n
      PROVE  SubSeq(s, 1, k) \in Seq(Threads)
  <2>1. s \in Seq(Threads) /\ Len(s) = n /\ n \in Nat
    BY <1>1, <1>3 DEF n
  <2> QED
    BY <2>1
<1>5. Prefixes \subseteq Seq(Threads)
  BY <1>4 DEF Prefixes, n
<1> QED
  BY <1>3, <1>5, Zenon DEF Searches

(* A path from nothing to nothing is a program in order. *)
LEMMA PathIsInOrder ==
  ASSUME NEW p, Path({}, p, {})
  PROVE  InOrder(Nothing, p)
<1>1. ASSUME NEW k PROVE Kept(Nothing, p, k) = Has({}, p, k)
  <2>1. \A l \in Names : Nothing[l] = "U"
    BY Zenon DEF Nothing
  <2> QED
    BY <2>1, Zenon DEF Kept, Has
<1>2. Has({}, p, Len(p) + 1) = {}
  BY Zenon DEF Path
<1> QED
  BY <1>1, <1>2, ZenonT(30) DEF InOrder, Path

(* Every path through the services without the two methods, the timer and the
   end of a connection asks for its locks in the documented order and gives them
   back (server/services/message_handler.rs:93), however many connections there
   are and in whatever order the map of the sessions yields them. *)
THEOREM ServerProgramsInOrder == ServerSetting => ProgramsInOrder
<1> SUFFICES ASSUME ServerSetting, NEW c \in Threads, NEW p \in ServerPrograms[c]
             PROVE  Path({}, p, {})
  BY PathIsInOrder, Zenon DEF ProgramsInOrder, ServerSetting
<1>1. ASSUME NEW search \in Searches(c), NEW service \in Services(c),
             p = Validated(c, search, service)
      PROVE  Path({}, p, {})
  BY <1>1, OrdersAreSequences, ValidatedPath, Zenon
<1>2. ASSUME p = CreateSession PROVE Path({}, p, {})
  <2>1. <<>> \in Seq(Threads)
    OBVIOUS
  <2> QED
    BY <1>2, <2>1, SessionPaths, Zenon
<1>3. ASSUME NEW search \in Searches(c),
             p = ActivateSession(c, search) \/ p = CloseSession(c, search)
      PROVE  Path({}, p, {})
  BY <1>3, OrdersAreSequences, SessionPaths, Zenon
<1>4. ASSUME NEW order \in Orders, p = Finish(order) \/ p = Timer(order)
      PROVE  Path({}, p, {})
  BY <1>4, OrdersAreSequences, SweepPaths, Zenon
<1>5. \/ \E search \in Searches(c), service \in Services(c) : p = Validated(c, search, service)
      \/ p = CreateSession
      \/ \E search \in Searches(c) : p = ActivateSession(c, search) \/ p = CloseSession(c, search)
      \/ \E order \in Orders : p = Finish(order) \/ p = Timer(order)
  <2>1. \/ p \in {Validated(c, search, service) : search \in Searches(c), service \in Services(c)}
        \/ p = CreateSession
        \/ p \in {ActivateSession(c, search) : search \in Searches(c)}
        \/ p \in {CloseSession(c, search) : search \in Searches(c)}
        \/ p \in {Finish(order) : order \in Orders}
        \/ p \in {Timer(order) : order \in Orders}
    BY DEF ServerPrograms
  <2> QED
    BY <2>1
<1> QED
  BY <1>1, <1>2, <1>3, <1>4, <1>5, ZenonT(30)

(* With the programs of the server, a thread takes no lock that comes before one it
   holds: the order documented at server/services/message_handler.rs:93 is kept by
   all requests, timers and clean-ups but for ResendData and GetMonitoredItems. *)
THEOREM ServerKeepsOrder == ServerSetting => (Spec => []LocksInOrder)
  BY ServerProgramsInOrder, ProgramsKeepOrder

(* However many connections the server has, no set of their tasks waits for each
   other for ever, as long as no client calls ResendData or GetMonitoredItems. *)
THEOREM ServerGoesOn == ServerSetting => (Spec => []NoDeadlock)
  BY ServerProgramsInOrder, OrderedProgramsGoOn
=============================================================================
