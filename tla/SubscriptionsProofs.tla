-------------------------- MODULE SubscriptionsProofs --------------------------
(***************************************************************************)
(* Proofs about the publish queues of a session: for every number of       *)
(* subscriptions, requests and every u32::MAX, the queues implement the    *)
(* publish service, lose no number and stay within their bound.            *)
(***************************************************************************)
EXTENDS Subscriptions, FiniteSetTheorems, WellFoundedInduction, TLAPS

(* The queues of a tick are empty outside of it, and a subscription that is
   still to be visited has nothing in the transmission queue. *)
Phasing ==
  /\ pc # "visit" => transmission_queue = <<>> /\ todo = {}
  /\ \A k \in 1..Len(transmission_queue) : transmission_queue[k].sub \notin todo
  /\ \A k, l \in 1..Len(transmission_queue) :
       transmission_queue[k].sub = transmission_queue[l].sub => k = l
  /\ pc # "expire" => stale = {}

(* A request that waits to be admitted is the newest of all. *)
Ascending(s) == \A k, l \in 1..Len(s) : k < l => s[k] < s[l]

UpTo(s, n) == \A k \in 1..Len(s) : s[k] <= n

Ordered ==
  /\ Ascending(Outstanding)
  /\ UpTo(Outstanding, IF waiting.id = 0 THEN requests ELSE waiting.id - 1)
  /\ waiting.id <= requests
  /\ pc = "admit" => waiting.id # 0
  /\ waiting.id # 0 => pc = "admit" \/ (pc = "visit" /\ caller = "room")
  /\ pc = "visit" /\ caller = "room" => waiting.id # 0

(* The limit that was computed for it is at most what was ever allowed. *)
Bounded ==
  /\ waiting.limit <= 2 * Cardinality(Created)
  /\ QueueIsBounded

Inv == TypeOK /\ Phasing /\ NoNumberIsLost /\ Ordered /\ Bounded

-----------------------------------------------------------------------------
(* Sequences of requests. *)

Requests == 1..MaxRequests

(* What Pending() is: first the requests that are paired, then the others. *)
LEMMA PendingShape ==
  ASSUME NEW p \in Seq(Transmission), NEW q \in Seq(Requests)
  PROVE  /\ Pending(p, q) \in Seq(Requests)
         /\ Len(Pending(p, q)) = Len(p) + Len(q)
         /\ \A k \in 1..Len(p) : Pending(p, q)[k] = p[k].req
         /\ \A k \in 1..Len(q) : Pending(p, q)[Len(p) + k] = q[k]
<1> DEFINE f == [k \in 1..Len(p) |-> p[k].req]
<1>1. f \in Seq(Requests) /\ Len(f) = Len(p)
  <2>1. Len(p) \in Nat
    OBVIOUS
  <2>2. \A k \in 1..Len(p) : p[k] \in Transmission
    OBVIOUS
  <2>3. \A t \in Transmission : t.req \in Requests
    BY DEF Transmission, Requests
  <2>4. f \in [1..Len(p) -> Requests]
    BY <2>2, <2>3
  <2> HIDE DEF f
  <2> QED
    BY <2>1, <2>4
<1> HIDE DEF f
<1>2. f \o q \in Seq(Requests) /\ Len(f \o q) = Len(p) + Len(q)
  BY <1>1
<1>3. \A k \in 1..Len(p) : (f \o q)[k] = f[k]
  BY <1>1
<1>4. \A k \in 1..Len(q) : (f \o q)[Len(p) + k] = q[k]
  BY <1>1
<1>5. \A k \in 1..Len(p) : f[k] = p[k].req
  BY DEF f
<1> QED
  BY <1>2, <1>3, <1>4, <1>5, Zenon DEF Pending, f

(* What a sequence of requests holds are requests, which are numbered. *)
LEMMA RequestsAreNumbers ==
  ASSUME NEW s \in Seq(Requests), NEW k \in 1..Len(s)
  PROVE  s[k] \in Requests /\ s[k] \in Nat
<1>1. s[k] \in Requests
  OBVIOUS
<1> QED
  BY <1>1, SubscriptionsAssumption DEF Requests

(* Two sequences with the same elements are the same. *)
LEMMA SameSequence ==
  ASSUME NEW S, NEW s \in Seq(S), NEW t \in Seq(S), Len(s) = Len(t),
         \A k \in 1..Len(s) : s[k] = t[k]
  PROVE  s = t
OBVIOUS

(* With nothing paired, the outstanding requests are the queued ones. *)
LEMMA PendingEmpty ==
  ASSUME NEW q \in Seq(Requests)
  PROVE  Pending(<<>>, q) = q
<1>1. <<>> \in Seq(Transmission) /\ Len(<<>>) = 0
  OBVIOUS
<1>2. /\ Pending(<<>>, q) \in Seq(Requests)
      /\ Len(Pending(<<>>, q)) = Len(q)
      /\ \A k \in 1..Len(q) : Pending(<<>>, q)[0 + k] = q[k]
  <2>1. /\ Pending(<<>>, q) \in Seq(Requests)
        /\ Len(Pending(<<>>, q)) = Len(<<>>) + Len(q)
        /\ \A k \in 1..Len(q) : Pending(<<>>, q)[Len(<<>>) + k] = q[k]
    BY <1>1, PendingShape, Zenon
  <2> QED
    BY <2>1, <1>1
<1>3. \A k \in 1..Len(q) : 0 + k = k
  OBVIOUS
<1> QED
  BY <1>2, <1>3, SameSequence, Zenon

(* Pairing the oldest queued request leaves the outstanding ones as they are. *)
LEMMA PendingPair ==
  ASSUME NEW p \in Seq(Transmission), NEW q \in Seq(Requests), q # <<>>,
         NEW t \in Transmission, t.req = Head(q)
  PROVE  Pending(Append(p, t), Tail(q)) = Pending(p, q)
<1> DEFINE a == Append(p, t)
           r == Tail(q)
<1>1. a \in Seq(Transmission) /\ Len(a) = Len(p) + 1
  OBVIOUS
<1>2. r \in Seq(Requests) /\ Len(q) = Len(r) + 1
  OBVIOUS
<1>3. /\ \A k \in 1..Len(p) : a[k] = p[k]
      /\ a[Len(p) + 1] = t
      /\ \A k \in 1..Len(r) : r[k] = q[k + 1]
      /\ Head(q) = q[1]
  OBVIOUS
<1> HIDE DEF a, r
<1>4. /\ Pending(a, r) \in Seq(Requests)
      /\ Len(Pending(a, r)) = Len(a) + Len(r)
      /\ \A k \in 1..Len(a) : Pending(a, r)[k] = a[k].req
      /\ \A k \in 1..Len(r) : Pending(a, r)[Len(a) + k] = r[k]
  BY <1>1, <1>2, PendingShape, Zenon
<1>5. /\ Pending(p, q) \in Seq(Requests)
      /\ Len(Pending(p, q)) = Len(p) + Len(q)
      /\ \A k \in 1..Len(p) : Pending(p, q)[k] = p[k].req
      /\ \A k \in 1..Len(q) : Pending(p, q)[Len(p) + k] = q[k]
  BY PendingShape, Zenon
<1>6. Len(p) \in Nat /\ Len(r) \in Nat
  BY <1>2
<1>7. Len(Pending(a, r)) = Len(Pending(p, q))
  BY <1>1, <1>2, <1>4, <1>5, <1>6
<1>8. ASSUME NEW k \in 1..Len(Pending(a, r))
      PROVE  Pending(a, r)[k] = Pending(p, q)[k]
  <2>1. CASE k \in 1..Len(p)
    <3>1. k \in 1..Len(a)
      BY <2>1, <1>1, <1>6
    <3>2. Pending(a, r)[k] = a[k].req /\ Pending(p, q)[k] = p[k].req
      BY <3>1, <2>1, <1>4, <1>5, Zenon
    <3> QED
      BY <3>2, <2>1, <1>3, Zenon
  <2>2. CASE k = Len(p) + 1
    <3>1. Pending(a, r)[k] = t.req
      BY <2>2, <1>1, <1>3, <1>4, <1>6
    <3>2. 1 \in 1..Len(q)
      BY <1>2, <1>6
    <3>3. Pending(p, q)[k] = q[1]
      BY <3>2, <2>2, <1>5, Zenon
    <3> QED
      BY <3>1, <3>3, <1>3, Zenon
  <2>3. CASE k > Len(p) + 1
    <3>1. PICK j \in 1..Len(r) : k = Len(p) + 1 + j
      <4>1. k - (Len(p) + 1) \in 1..Len(r)
        BY <2>3, <1>1, <1>4, <1>6
      <4>2. k = Len(p) + 1 + (k - (Len(p) + 1))
        BY <1>6
      <4> QED
        BY <4>1, <4>2, Zenon
    <3>2. Pending(a, r)[k] = r[j]
      BY <3>1, <1>1, <1>4
    <3>3. j + 1 \in 1..Len(q) /\ k = Len(p) + (j + 1)
      BY <3>1, <1>2, <1>6
    <3>4. Pending(p, q)[k] = q[j + 1]
      BY <3>3, <1>5
    <3> QED
      BY <3>2, <3>4, <1>3, Zenon
  <2> QED
    BY <2>1, <2>2, <2>3, <1>1, <1>4, <1>6
<1> QED
  BY <1>4, <1>5, <1>7, <1>8, SameSequence, Zenon DEF a, r

(* Sending the oldest paired one removes the oldest outstanding request. *)
LEMMA PendingSend ==
  ASSUME NEW p \in Seq(Transmission), NEW q \in Seq(Requests), p # <<>>
  PROVE  /\ Pending(p, q) # <<>>
         /\ Pending(Tail(p), q) = Tail(Pending(p, q))
<1> DEFINE a == Tail(p)
           s == Pending(p, q)
<1>1. a \in Seq(Transmission) /\ Len(p) = Len(a) + 1 /\ Len(a) \in Nat
  OBVIOUS
<1>2. \A k \in 1..Len(a) : a[k] = p[k + 1]
  OBVIOUS
<1> HIDE DEF a
<1>3. /\ Pending(a, q) \in Seq(Requests)
      /\ Len(Pending(a, q)) = Len(a) + Len(q)
      /\ \A k \in 1..Len(a) : Pending(a, q)[k] = a[k].req
      /\ \A k \in 1..Len(q) : Pending(a, q)[Len(a) + k] = q[k]
  BY <1>1, PendingShape, Zenon
<1>4. /\ s \in Seq(Requests)
      /\ Len(s) = Len(p) + Len(q)
      /\ \A k \in 1..Len(p) : s[k] = p[k].req
      /\ \A k \in 1..Len(q) : s[Len(p) + k] = q[k]
  BY PendingShape, Zenon
<1> HIDE DEF s
<1>5. Len(q) \in Nat
  OBVIOUS
<1>6. s # <<>>
  BY <1>1, <1>4, <1>5
<1>7. /\ Tail(s) \in Seq(Requests)
      /\ Len(Tail(s)) = Len(s) - 1
      /\ \A k \in 1..Len(Tail(s)) : Tail(s)[k] = s[k + 1]
  BY <1>4, <1>6
<1>8. Len(Pending(a, q)) = Len(Tail(s))
  BY <1>1, <1>3, <1>4, <1>5, <1>7
<1>9. ASSUME NEW k \in 1..Len(Pending(a, q))
      PROVE  Pending(a, q)[k] = Tail(s)[k]
  <2>1. CASE k \in 1..Len(a)
    <3>1. k + 1 \in 1..Len(p)
      BY <2>1, <1>1
    <3>2. Pending(a, q)[k] = a[k].req /\ s[k + 1] = p[k + 1].req
      BY <3>1, <2>1, <1>3, <1>4, Zenon
    <3>3. Tail(s)[k] = s[k + 1]
      BY <1>7, <1>8, Zenon
    <3> QED
      BY <3>2, <3>3, <2>1, <1>2, Zenon
  <2>2. CASE k > Len(a)
    <3>1. k - Len(a) \in 1..Len(q) /\ k = Len(a) + (k - Len(a))
          /\ k + 1 = Len(p) + (k - Len(a))
      BY <2>2, <1>1, <1>3, <1>5
    <3>2. PICK j \in 1..Len(q) : k = Len(a) + j /\ k + 1 = Len(p) + j
      BY <3>1, Zenon
    <3>3. Pending(a, q)[k] = q[j]
      BY <3>2, <1>3
    <3>4. s[k + 1] = q[j]
      BY <3>2, <1>4
    <3> QED
      BY <3>3, <3>4, <1>7, <1>8, Zenon
  <2>3. k \in 1..Len(a) \/ k > Len(a)
    BY <1>1
  <2> QED
    BY <2>1, <2>2, <2>3, Zenon
<1> QED
  BY <1>3, <1>6, <1>7, <1>8, <1>9, SameSequence, Zenon DEF a, s

(* What a sequence is after the request at k is taken out of it. *)
LEMMA WithoutShape ==
  ASSUME NEW q \in Seq(Requests), NEW k \in 1..Len(q)
  PROVE  /\ Without(q, k) \in Seq(Requests)
         /\ Len(Without(q, k)) = Len(q) - 1
         /\ \A n \in 1..Len(q) - 1 :
              Without(q, k)[n] = IF n < k THEN q[n] ELSE q[n + 1]
<1> DEFINE a == SubSeq(q, 1, k - 1)
           b == SubSeq(q, k + 1, Len(q))
<1>1. a \in Seq(Requests) /\ Len(a) = k - 1
      /\ \A n \in 1..k - 1 : a[n] = q[n]
  OBVIOUS
<1>2. b \in Seq(Requests) /\ Len(b) = Len(q) - k
  OBVIOUS
<1>3. \A n \in 1..Len(q) - k : b[n] = q[n + k]
  OBVIOUS
<1> HIDE DEF a, b
<1>4. a \o b \in Seq(Requests) /\ Len(a \o b) = Len(a) + Len(b)
  <2>1. a \in Seq(Requests) /\ b \in Seq(Requests)
    BY <1>1, <1>2
  <2>2. a \o b \in Seq(Requests)
    BY <2>1
  <2> QED
    BY <2>1, <2>2
<1>5. /\ \A n \in 1..Len(a) : (a \o b)[n] = a[n]
      /\ \A n \in Len(a) + 1..Len(a) + Len(b) : (a \o b)[n] = b[n - Len(a)]
  <2>1. a \in Seq(Requests) /\ b \in Seq(Requests)
    BY <1>1, <1>2, Zenon
  <2>2. \A n \in 1..Len(a) : (a \o b)[n] = a[n]
    BY <2>1
  <2>3. \A n \in Len(a) + 1..Len(a) + Len(b) : (a \o b)[n] = b[n - Len(a)]
    BY <2>1
  <2> QED
    BY <2>2, <2>3, Zenon
<1>6. ASSUME NEW n \in 1..Len(q) - 1
      PROVE  (a \o b)[n] = IF n < k THEN q[n] ELSE q[n + 1]
  <2>1. CASE n < k
    BY <2>1, <1>1, <1>5
  <2>2. CASE n >= k
    <3>1. n \in Len(a) + 1..Len(a) + Len(b) /\ n - Len(a) = n - k + 1
      BY <2>2, <1>1, <1>2
    <3>2. n - k + 1 \in 1..Len(q) - k /\ (n - k + 1) + k = n + 1
      BY <2>2
    <3>3. b[n - k + 1] = q[n + 1]
      BY <3>2, <1>3
    <3>4. (a \o b)[n] = b[n - Len(a)]
      BY <3>1, <1>5, Zenon
    <3>5. ~(n < k)
      BY <2>2
    <3> QED
      BY <3>1, <3>3, <3>4, <3>5, Zenon
  <2>3. n < k \/ n >= k
    OBVIOUS
  <2> QED
    BY <2>1, <2>2, <2>3, Zenon
<1>7. Len(a \o b) = Len(q) - 1
  BY <1>1, <1>2, <1>4
<1> QED
  BY <1>4, <1>6, <1>7, Zenon DEF Without, a, b

(* Ascending sequences of requests stay so. *)
LEMMA AscendingTail ==
  ASSUME NEW s \in Seq(Requests), s # <<>>, NEW n \in Nat, Ascending(s), UpTo(s, n)
  PROVE  Ascending(Tail(s)) /\ UpTo(Tail(s), n)
<1>1. /\ Len(Tail(s)) = Len(s) - 1
      /\ \A k \in 1..Len(s) - 1 : Tail(s)[k] = s[k + 1] /\ k + 1 \in 1..Len(s)
  OBVIOUS
<1>2. \A k, l \in 1..Len(s) - 1 : k < l => k + 1 < l + 1
  OBVIOUS
<1> HIDE DEF Requests
<1> QED
  BY <1>1, <1>2 DEF Ascending, UpTo

(* The newest request is put at the end of an ascending queue. *)
LEMMA AscendingAppend ==
  ASSUME NEW s \in Seq(Requests), NEW r \in Requests, Ascending(s), UpTo(s, r - 1)
  PROVE  Ascending(Append(s, r)) /\ UpTo(Append(s, r), r)
<1>1. /\ Append(s, r) \in Seq(Requests) /\ Len(Append(s, r)) = Len(s) + 1
      /\ \A k \in 1..Len(s) : Append(s, r)[k] = s[k]
      /\ Append(s, r)[Len(s) + 1] = r
  OBVIOUS
<1>2. \A k \in 1..Len(s) : s[k] < r /\ s[k] \in Nat
  <2>1. \A k \in 1..Len(s) : s[k] \in Requests /\ s[k] <= r - 1
    BY DEF UpTo
  <2>2. r \in Nat /\ \A x \in Requests : x \in Nat
    BY SubscriptionsAssumption DEF Requests
  <2>3. \A x \in Nat : x <= r - 1 => x < r
    BY <2>2
  <2> QED
    BY <2>1, <2>2, <2>3, Zenon
<1>3. \A k \in 1..Len(s) + 1 : k \in 1..Len(s) \/ k = Len(s) + 1
  OBVIOUS
<1>4. ASSUME NEW k \in 1..Len(s) + 1, NEW l \in 1..Len(s) + 1, k < l
      PROVE  Append(s, r)[k] < Append(s, r)[l]
  <2>1. k \in 1..Len(s)
    BY <1>4
  <2>2. CASE l \in 1..Len(s)
    BY <2>1, <2>2, <1>1, <1>4 DEF Ascending
  <2>3. CASE l = Len(s) + 1
    BY <2>1, <2>3, <1>1, <1>2
  <2> QED
    BY <2>2, <2>3, <1>3
<1>5. \A k \in 1..Len(s) + 1 : Append(s, r)[k] <= r
  <2>1. \A x \in Nat : x < r => x <= r
    BY DEF Requests
  <2>2. r <= r
    BY DEF Requests
  <2> QED
    BY <1>1, <1>2, <1>3, <2>1, <2>2, Zenon
<1> QED
  BY <1>1, <1>4, <1>5, Zenon DEF Ascending, UpTo

(* A queue stays ascending when a request in the middle expires. *)
LEMMA AscendingWithout ==
  ASSUME NEW s \in Seq(Requests), NEW k \in 1..Len(s), NEW n \in Nat,
         Ascending(s), UpTo(s, n)
  PROVE  Ascending(Without(s, k)) /\ UpTo(Without(s, k), n)
<1> DEFINE w == Without(s, k)
           at(m) == IF m < k THEN m ELSE m + 1
<1>1. Len(w) = Len(s) - 1 /\ \A m \in 1..Len(s) - 1 : w[m] = s[at(m)]
  BY WithoutShape, Zenon
<1>2. \A m \in 1..Len(s) - 1 : at(m) \in 1..Len(s)
  OBVIOUS
<1>3. \A m, l \in 1..Len(s) - 1 : m < l => at(m) < at(l)
  OBVIOUS
<1> HIDE DEF w, at
<1> QED
  BY <1>1, <1>2, <1>3, Zenon DEF Ascending, UpTo, w

-----------------------------------------------------------------------------
(* One lemma for each action.  Serves is what a step is to the publish
   service. *)
Serves == Service!ServiceNext \/ UNCHANGED Service!serviceVars

(* There are never more subscriptions than were created. *)
LEMMA CreatedSize ==
  /\ IsFiniteSet(Created) /\ Cardinality(Created) \in Nat
  /\ Cardinality(Existing) \in Nat
  /\ Cardinality(Existing) <= Cardinality(Created)
<1>1. IsFiniteSet(SubIds)
  BY SubscriptionsAssumption, Zenon
<1>2. Created \in SUBSET SubIds /\ Existing \in SUBSET Created
  BY DEF Created, Existing
<1>3. IsFiniteSet(Created)
  BY <1>1, <1>2, FS_Subset, Zenon
<1>4. IsFiniteSet(Existing) /\ Cardinality(Existing) <= Cardinality(Created)
  BY <1>2, <1>3, FS_Subset, Zenon
<1> QED
  BY <1>3, <1>4, FS_CardinalityType

(* The limit that is computed from what was created never sinks. *)
LEMMA CreatedGrows ==
  ASSUME Created \subseteq Created'
  PROVE  /\ Cardinality(Created) \in Nat /\ Cardinality(Created') \in Nat
         /\ Cardinality(Created) <= Cardinality(Created')
<1>1. Created' \in SUBSET SubIds /\ Created \in SUBSET Created'
  BY DEF Created
<1>2. IsFiniteSet(Created')
  BY <1>1, FS_Subset, SubscriptionsAssumption, Zenon
<1>3. IsFiniteSet(Created) /\ Cardinality(Created) <= Cardinality(Created')
  BY <1>1, <1>2, FS_Subset
<1> QED
  BY <1>2, <1>3, FS_CardinalityType, Zenon

(* The lengths of the queues, as the invariant sees them. *)
LEMMA OutstandingShape ==
  ASSUME TypeOK
  PROVE  /\ Outstanding \in Seq(Requests)
         /\ Len(Outstanding) = Len(transmission_queue) + Len(publish_request_queue)
         /\ transmission_queue = <<>> => Outstanding = publish_request_queue
  BY PendingShape, PendingEmpty DEF TypeOK, Outstanding, Requests

(* Steps that leave the queues of requests and the subscriptions alone. *)
LEMMA QuietStep ==
  ASSUME Inv,
         UNCHANGED <<subs, publish_request_queue, transmission_queue, requests,
                     waiting, published>>,
         TickEnd \/ (\E late \in SUBSET Held : TimerFired(late)) \/ ExpireEnd
           \/ TakeResponses \/ TimerPanics
  PROVE  Inv' /\ Serves
<1>1. Outstanding' = Outstanding
  BY DEF Outstanding
<1>2. Serves
  BY <1>1 DEF Serves, Service!serviceVars
<1>3. TypeOK'
  <2>1. Existing' = Existing /\ Held' = Held
    BY DEF Existing, Held
  <2>2. CASE TickEnd
    <3>1. retransmission_queue' \subseteq retransmission_queue
      BY <2>2 DEF TickEnd, RemoveOld
    <3>2. pc' \in {"take", "admit", "idle"}
      BY <2>2, Zenon DEF TickEnd, AfterTick, Inv, TypeOK
    <3> QED
      BY <2>1, <2>2, <3>1, <3>2, Zenon DEF TickEnd, Inv, TypeOK
  <2>3. CASE \E late \in SUBSET Held : TimerFired(late)
    BY <2>1, <2>3, Zenon DEF TimerFired, queues, Inv, TypeOK
  <2>4. CASE ExpireEnd
    BY <2>1, <2>4 DEF ExpireEnd, TickBegin, queues, Inv, TypeOK
  <2>5. CASE TakeResponses
    BY <2>1, <2>5 DEF TakeResponses, Inv, TypeOK
  <2>6. CASE TimerPanics
    BY <2>1, <2>6, Zenon DEF TimerPanics, queues, Inv, TypeOK
  <2> QED
    BY <2>2, <2>3, <2>4, <2>5, <2>6
<1>4. Phasing'
  <2>1. CASE TickEnd
    BY <2>1 DEF TickEnd, AfterTick, Inv, Phasing, TypeOK
  <2>2. CASE \E late \in SUBSET Held : TimerFired(late)
    BY <2>2, Zenon DEF TimerFired, Inv, Phasing
  <2>3. CASE ExpireEnd
    BY <2>3 DEF ExpireEnd, TickBegin, Inv, Phasing
  <2>4. CASE TakeResponses
    BY <2>4, Zenon DEF TakeResponses, Inv, Phasing
  <2>5. CASE TimerPanics
    BY <2>5, Zenon DEF TimerPanics, Inv, Phasing
  <2> QED
    BY <2>1, <2>2, <2>3, <2>4, <2>5
<1>5. NoNumberIsLost'
  BY Zenon DEF Inv, NoNumberIsLost, OnItsWay
<1>6. Ordered'
  <2>1. /\ pc' = "admit" => waiting.id # 0
        /\ waiting.id # 0 => pc' = "admit" \/ (pc' = "visit" /\ caller' = "room")
        /\ pc' = "visit" /\ caller' = "room" => waiting.id # 0
    <3>1. CASE TickEnd
      BY <3>1, Zenon DEF TickEnd, AfterTick, Inv, TypeOK, Ordered
    <3>2. CASE \E late \in SUBSET Held : TimerFired(late)
      BY <3>2, Zenon DEF TimerFired, Inv, Ordered
    <3>3. CASE ExpireEnd
      BY <3>3, Zenon DEF ExpireEnd, TickBegin, Inv, Ordered
    <3>4. CASE TakeResponses
      BY <3>4, Zenon DEF TakeResponses, Inv, Ordered
    <3>5. CASE TimerPanics
      BY <3>5, Zenon DEF TimerPanics, Inv, Ordered
    <3> QED
      BY <3>1, <3>2, <3>3, <3>4, <3>5, Zenon
  <2> QED
    BY <1>1, <2>1 DEF Inv, Ordered
<1>7. Bounded'
  BY <1>1, Zenon DEF Inv, Bounded, QueueIsBounded, Created
<1> QED
  BY <1>2, <1>3, <1>4, <1>5, <1>6, <1>7 DEF Inv

(* The services that create, delete and reorder subscriptions. *)
LEMMA ServiceStep ==
  ASSUME Inv, NEW i \in SubIds,
         \/ \E p \in Priorities : CreateSubscription(i, p)
         \/ DeleteSubscription(i)
         \/ \E p \in Priorities : SetPriority(i, p)
  PROVE  Inv' /\ Serves
<1>1. /\ UNCHANGED <<queues, requests, tickVars, published, client_ahead>>
      /\ pc = "idle" /\ transmission_queue = <<>> /\ todo = {}
  BY Zenon DEF CreateSubscription, DeleteSubscription, SetPriority, Inv, Phasing
<1>2. UNCHANGED <<publish_request_queue, transmission_queue, waiting, pc, todo,
                  stale, caller, requests, published>>
  BY <1>1, Zenon DEF queues, tickVars
<1>3. Outstanding' = Outstanding
  BY <1>2, Zenon DEF Outstanding
<1>4. Serves
  BY <1>2, <1>3, Zenon DEF Serves, Service!serviceVars
<1>5. /\ subs' \in [SubIds -> SubRecord]
      /\ \A j \in SubIds : subs'[j].last = subs[j].last
      /\ \A j \in SubIds :
           \/ subs'[j].phase = subs[j].phase
           \/ subs[j].phase = "new" /\ subs'[j].phase = "live"
           \/ subs[j].phase # "new" /\ subs'[j].phase = "deleted"
  <2>0. ASSUME NEW rec \in SubRecord, subs' = [subs EXCEPT ![i] = rec]
        PROVE  /\ subs' \in [SubIds -> SubRecord] /\ subs'[i] = rec
               /\ \A j \in SubIds : j # i => subs'[j] = subs[j]
    BY <2>0, Zenon DEF Inv, TypeOK
  <2>4. subs[i] \in SubRecord
    BY Zenon DEF Inv, TypeOK
  <2>1. CASE \E p \in Priorities : CreateSubscription(i, p)
    <3>1. PICK p \in Priorities : CreateSubscription(i, p)
      BY <2>1, Zenon
    <3> DEFINE rec == [subs[i] EXCEPT !.phase = "live", !.priority = p]
    <3>2. rec \in SubRecord /\ rec.phase = "live" /\ rec.last = subs[i].last
      BY <2>4, Zenon DEF SubRecord, Phases
    <3>3. subs' = [subs EXCEPT ![i] = rec] /\ subs[i].phase = "new"
      BY <3>1, Zenon DEF CreateSubscription
    <3> HIDE DEF rec
    <3>4. subs' \in [SubIds -> SubRecord] /\ subs'[i] = rec
          /\ \A j \in SubIds : j # i => subs'[j] = subs[j]
      BY <3>2, <3>3, <2>0, Zenon
    <3> QED
      BY <3>2, <3>3, <3>4, Zenon
  <2>2. CASE DeleteSubscription(i)
    <3> DEFINE rec == [subs[i] EXCEPT !.phase = "deleted"]
    <3>2. rec \in SubRecord /\ rec.phase = "deleted" /\ rec.last = subs[i].last
      BY <2>4 DEF SubRecord, Phases
    <3>3. subs' = [subs EXCEPT ![i] = rec] /\ subs[i].phase # "new"
      BY <2>2 DEF DeleteSubscription, Existing
    <3> HIDE DEF rec
    <3>4. subs' \in [SubIds -> SubRecord] /\ subs'[i] = rec
          /\ \A j \in SubIds : j # i => subs'[j] = subs[j]
      BY <3>2, <3>3, <2>0, Zenon
    <3> QED
      BY <3>2, <3>3, <3>4
  <2>3. CASE \E p \in Priorities : SetPriority(i, p)
    <3>1. PICK p \in Priorities : SetPriority(i, p)
      BY <2>3
    <3> DEFINE rec == [subs[i] EXCEPT !.priority = p]
    <3>2. rec \in SubRecord /\ rec.phase = subs[i].phase /\ rec.last = subs[i].last
      BY <2>4 DEF SubRecord, Phases
    <3>3. subs' = [subs EXCEPT ![i] = rec]
      BY <3>1 DEF SetPriority
    <3> HIDE DEF rec
    <3>4. subs' \in [SubIds -> SubRecord] /\ subs'[i] = rec
          /\ \A j \in SubIds : j # i => subs'[j] = subs[j]
      BY <3>2, <3>3, <2>0, Zenon
    <3> QED
      BY <3>2, <3>3, <3>4
  <2> QED
    BY <2>1, <2>2, <2>3, Zenon
<1>6. TypeOK'
  BY <1>1, <1>2, <1>5 DEF Inv, TypeOK, queues, tickVars, Held
<1>7. Phasing'
  BY <1>2 DEF Inv, Phasing
<1>8. NoNumberIsLost'
  <2>1. \A j \in SubIds : ~OnItsWay(j) /\ ~OnItsWay(j)'
    BY <1>1, <1>2 DEF OnItsWay
  <2>2. \A j \in SubIds : subs[j].phase # "deleted" =>
           IF subs[j].phase = "closed"
           THEN subs[j].last = NextHandle(published[j])
           ELSE subs[j].last = published[j]
    BY <2>1, Zenon DEF Inv, NoNumberIsLost
  <2>3. \A j \in SubIds : subs'[j].phase # "deleted" =>
           IF subs'[j].phase = "closed"
           THEN subs'[j].last = NextHandle(published'[j])
           ELSE subs'[j].last = published'[j]
    BY <2>2, <1>2, <1>5, Zenon
  <2>4. \A k \in 1..Len(transmission_queue') : FALSE
    BY <1>1, <1>2
  <2> QED
    BY <2>3, <2>4 DEF NoNumberIsLost
<1>9. Ordered'
  BY <1>2, <1>3, Zenon DEF Inv, Ordered
<1>10. Bounded'
  <2>1. Created \subseteq Created'
    BY <1>5 DEF Created
  <2>2. Len(Outstanding) \in Nat
    BY OutstandingShape DEF Inv
  <2> QED
    BY <2>1, <2>2, <1>2, <1>3, CreatedGrows
    DEF Inv, Bounded, QueueIsBounded, TypeOK
<1> QED
  BY <1>4, <1>6, <1>7, <1>8, <1>9, <1>10, Zenon DEF Inv

(* A publish request arrives. *)
LEMMA PublishStep ==
  ASSUME Inv, NEW acks \in SUBSET (SubIds \X (1..MaxU32)), PublishRequest(acks)
  PROVE  Inv' /\ Serves
<1> USE DEF PublishRequest
<1>1. UNCHANGED <<publish_request_queue, transmission_queue,
                  publish_response_queue, retransmission_queue, subs, stale,
                  published, client_ahead>>
  BY Zenon DEF queues
<1>2. Outstanding' = Outstanding
  BY <1>1, Zenon DEF Outstanding
<1>3. Serves
  BY <1>1, <1>2, Zenon DEF Serves, Service!serviceVars
<1>4. /\ pc = "idle" /\ transmission_queue = <<>> /\ todo = {} /\ waiting.id = 0
      /\ requests \in Nat /\ MaxRequests \in Nat /\ requests < MaxRequests
  BY SubscriptionsAssumption DEF Inv, Phasing, Ordered, TypeOK
<1>5. /\ waiting'.id = requests + 1 /\ waiting'.acks = acks
      /\ waiting'.limit = max_publish_requests
      /\ waiting' = [id |-> requests + 1, acks |-> acks,
                     limit |-> max_publish_requests]
  BY Zenon
<1>6. max_publish_requests \in Nat
      /\ max_publish_requests <= 2 * Cardinality(Created)
  BY CreatedSize DEF max_publish_requests
<1>7. \/ /\ pc' = "visit" /\ caller' = "room" /\ todo' = Existing
      \/ pc' = "admit" /\ UNCHANGED <<todo, caller>>
  BY Zenon DEF TickBegin
<1>8. TypeOK'
  <2>1. Existing' = Existing /\ Held' = Held
    BY <1>1, Zenon DEF Existing, Held
  <2>2. waiting' \in [id : 0..MaxRequests, acks : SUBSET (SubIds \X (1..MaxU32)),
                      limit : Nat]
    BY <1>4, <1>5, <1>6
  <2>3. requests' \in 0..MaxRequests
    BY <1>4
  <2>4. todo' \subseteq Existing'
        /\ pc' \in {"visit", "admit"} /\ caller' \in {"timer", "room", "request"}
    BY <1>7, <2>1, Zenon DEF Inv, TypeOK
  <2> QED
    BY <1>1, <2>1, <2>2, <2>3, <2>4, Zenon DEF Inv, TypeOK
<1>9. Phasing'
  BY <1>1, <1>4, <1>7 DEF Inv, Phasing
<1>10. NoNumberIsLost'
  BY <1>1, ZenonT(30) DEF Inv, NoNumberIsLost, OnItsWay
<1>11. Ordered'
  <2>1. UpTo(Outstanding, requests) /\ Ascending(Outstanding)
    BY <1>4, Zenon DEF Inv, Ordered
  <2>2. waiting'.id - 1 = requests /\ waiting'.id # 0 /\ requests' = waiting'.id
    BY <1>4, <1>5
  <2> QED
    BY <2>1, <2>2, <1>2, <1>7, <1>4 DEF Ordered
<1>12. Bounded'
  <2>1. Created' = Created
    BY <1>1, Zenon DEF Created
  <2> QED
    BY <2>1, <1>2, <1>5, <1>6, Zenon DEF Inv, Bounded, QueueIsBounded
<1> QED
  BY <1>3, <1>8, <1>9, <1>10, <1>11, <1>12, Zenon DEF Inv

(* It is refused, or queued behind all the others. *)
LEMMA AdmitStep ==
  ASSUME Inv, Admit
  PROVE  Inv' /\ Serves
<1> DEFINE r == waiting.id
           q == publish_request_queue
<1>1. /\ transmission_queue = <<>> /\ todo = {} /\ stale = {}
      /\ UNCHANGED <<subs, transmission_queue, publish_response_queue, requests,
                     stale, published, client_ahead>>
      /\ waiting' = NoRequest
      /\ pc = "admit" /\ r # 0
  BY Zenon DEF Admit, Inv, Phasing, Ordered, queues
<1>2. Outstanding = q /\ Outstanding \in Seq(Requests) /\ r \in Requests
      /\ q \in Seq(Requests)
  BY <1>1, OutstandingShape DEF Inv, TypeOK, Requests
<1>3. Ascending(q) /\ UpTo(q, r - 1) /\ r <= requests
  BY <1>1, <1>2, Zenon DEF Inv, Ordered
<1>4. Created' = Created /\ Existing' = Existing
  BY <1>1, Zenon DEF Created, Existing
<1>5. NoNumberIsLost'
  BY <1>1, ZenonT(30) DEF Inv, NoNumberIsLost, OnItsWay
<1>6. waiting'.id = 0 /\ waiting'.limit = 0
      /\ waiting' \in [id : 0..MaxRequests, acks : SUBSET (SubIds \X (1..MaxU32)),
                        limit : Nat]
  BY <1>1, SubscriptionsAssumption DEF NoRequest
<1>7. CASE IsFull(q, waiting.limit)
  <2>1. UNCHANGED <<publish_request_queue, retransmission_queue, todo, caller>>
        /\ pc' = "idle"
    BY <1>7, Zenon DEF Admit, queues
  <2>2. Outstanding' = Outstanding
    BY <2>1, <1>1, Zenon DEF Outstanding
  <2>3. Serves
    BY <2>2, <1>1, Zenon DEF Serves, Service!serviceVars
  <2>4. TypeOK'
    BY <2>1, <1>1, <1>4, <1>6, Zenon DEF Inv, TypeOK, Held
  <2>5. Phasing'
    BY <2>1, <1>1, ZenonT(30) DEF Inv, Phasing
  <2>6. Ordered'
    <3>1. UpTo(q, requests)
      <4>1. \A k \in 1..Len(q) : q[k] \in Nat /\ q[k] <= r - 1
        BY <1>2, <1>3, RequestsAreNumbers, Zenon DEF UpTo
      <4>2. r \in Nat /\ requests \in Nat
        BY <1>2 DEF Inv, TypeOK, Requests
      <4> QED
        BY <4>1, <4>2, <1>3 DEF UpTo
    <3>2. 0 <= requests
      BY DEF Inv, TypeOK
    <3> QED
      BY <3>1, <3>2, <2>1, <2>2, <1>1, <1>2, <1>3, <1>6, Zenon DEF Ordered
  <2>7. Bounded'
    <3>1. 0 <= 2 * Cardinality(Created)
      BY CreatedSize
    <3> QED
      BY <3>1, <2>2, <1>4, <1>6, Zenon DEF Inv, Bounded, QueueIsBounded
  <2> QED
    BY <2>3, <2>4, <2>5, <2>6, <2>7, <1>5, Zenon DEF Inv
<1>8. CASE ~IsFull(q, waiting.limit)
  <2>1. /\ publish_request_queue' = Append(q, r)
        /\ retransmission_queue' \subseteq retransmission_queue
        /\ pc' = "visit" /\ caller' = "request" /\ todo' = Existing
    BY <1>8, Zenon DEF Admit, TickBegin, Enqueued
  <2>2. Append(q, r) \in Seq(Requests) /\ Len(Append(q, r)) = Len(q) + 1
    BY <1>2
  <2>3. Outstanding' = Append(q, r)
    BY <2>1, <2>2, <1>1, PendingEmpty, Zenon DEF Outstanding
  <2>4. Serves
    <3>1. \A k \in 1..Len(Outstanding) : Outstanding[k] < r
      <4>1. \A k \in 1..Len(q) : q[k] \in Nat /\ q[k] <= r - 1
        BY <1>2, <1>3, RequestsAreNumbers DEF UpTo
      <4>2. r \in Nat
        BY <1>2 DEF Requests
      <4> QED
        BY <4>1, <4>2, <1>2
    <3>2. Service!Accept
      BY <3>1, <2>3, <1>1, <1>2, Zenon DEF Service!Accept, Requests
    <3> QED
      BY <3>2 DEF Serves, Service!ServiceNext
  <2>5. TypeOK'
    BY <2>1, <2>2, <1>1, <1>4, <1>6, Zenon DEF Inv, TypeOK, Held, Requests
  <2>6. Phasing'
    BY <2>1, <1>1 DEF Inv, Phasing
  <2>7. Ordered'
    <3>1. Ascending(Append(q, r)) /\ UpTo(Append(q, r), r)
      BY <1>2, <1>3, AscendingAppend, Zenon
    <3>2. UpTo(Append(q, r), requests)
      <4>1. \A k \in 1..Len(Append(q, r)) :
              Append(q, r)[k] \in Nat /\ Append(q, r)[k] <= r
        BY <2>2, <3>1, RequestsAreNumbers, Zenon DEF UpTo
      <4>2. r \in Nat /\ requests \in Nat
        BY <1>2 DEF Inv, TypeOK, Requests
      <4> QED
        BY <4>1, <4>2, <1>3 DEF UpTo
    <3>3. 0 <= requests
      BY DEF Inv, TypeOK
    <3> QED
      BY <3>1, <3>2, <3>3, <2>1, <2>3, <1>1, <1>6, Zenon DEF Ordered
  <2>8. Bounded'
    <3>1. Len(q) \in Nat /\ waiting.limit \in Nat
      BY <1>2 DEF Inv, TypeOK
    <3>2. Len(q) < waiting.limit /\ waiting.limit <= 2 * Cardinality(Created)
      BY <1>8, <3>1 DEF IsFull, Inv, Bounded
    <3>3. Cardinality(Created) \in Nat
      BY CreatedSize
    <3> QED
      BY <3>1, <3>2, <3>3, <2>2, <2>3, <1>4, <1>6 DEF Bounded, QueueIsBounded
  <2> QED
    BY <2>4, <2>5, <2>6, <2>7, <2>8, <1>5 DEF Inv
<1> QED
  BY <1>7, <1>8, Zenon

(* A request times out. *)
LEMMA ExpireStep ==
  ASSUME Inv, NEW k \in 1..Len(publish_request_queue), ExpireRequest(k)
  PROVE  Inv' /\ Serves
<1> DEFINE q == publish_request_queue
           w == Without(q, k)
<1>1. /\ pc = "expire" /\ transmission_queue = <<>>
      /\ publish_request_queue' = w /\ stale' = stale \ {q[k]} /\ q[k] \in stale
      /\ UNCHANGED <<subs, transmission_queue, retransmission_queue, requests, pc,
                     todo, caller, waiting, published, client_ahead>>
  BY Zenon DEF ExpireRequest, Inv, Phasing
<1>2. q \in Seq(Requests) /\ k \in 1..Len(q) /\ waiting.id = 0
  BY <1>1, Zenon DEF Inv, TypeOK, Requests, Ordered
<1>3. /\ w \in Seq(Requests) /\ Len(w) = Len(q) - 1
      /\ \A n \in 1..Len(q) - 1 : w[n] = IF n < k THEN q[n] ELSE q[n + 1]
  BY <1>2, WithoutShape, Zenon
<1>4. Outstanding = q /\ Outstanding' = w
  BY <1>1, <1>2, <1>3, PendingEmpty DEF Outstanding
<1>5. Serves
  <2>1. Service!TimeOut(k)
    BY <1>1, <1>4 DEF Service!TimeOut, Without
  <2> QED
    BY <2>1, <1>4 DEF Serves, Service!ServiceNext
<1>6. TypeOK'
  <2>1. stale' \subseteq Held'
    <3>1. SUFFICES ASSUME NEW r \in stale, r # q[k]
                   PROVE  \E n \in 1..Len(w) : w[n] = r
      BY <1>1, Zenon DEF Held
    <3>2. PICK n \in 1..Len(q) : q[n] = r
      BY Zenon DEF Inv, TypeOK, Held
    <3>3. n # k /\ Len(q) \in Nat
      BY <3>1, <3>2, <1>2
    <3>4. CASE n < k
      BY <3>2, <3>4, <1>3
    <3>5. CASE n > k
      <4>1. n - 1 \in 1..Len(q) - 1 /\ ~(n - 1 < k) /\ (n - 1) + 1 = n
        BY <3>5
      <4> QED
        BY <4>1, <3>2, <1>3, Zenon
    <3> QED
      BY <3>3, <3>4, <3>5
  <2>2. publish_response_queue' \in Seq(Response)
    <3>1. q[k] \in 1..MaxRequests
      BY <1>2, RequestsAreNumbers, Zenon DEF Requests
    <3>2. [req |-> q[k], sub |-> 0, seq |-> 0, more |-> FALSE] \in Response
      BY <3>1, SubscriptionsAssumption, MaxU32Assumption DEF Response
    <3>3. publish_response_queue \in Seq(Response)
      BY Zenon DEF Inv, TypeOK
    <3>4. publish_response_queue' = Append(publish_response_queue,
            [req |-> q[k], sub |-> 0, seq |-> 0, more |-> FALSE])
      BY Zenon DEF ExpireRequest, WithTimeout
    <3> QED
      BY <3>2, <3>3, <3>4
  <2>3. publish_request_queue' \in Seq(1..MaxRequests)
    BY <1>1, <1>3, Zenon DEF Requests
  <2>4. todo' \subseteq Existing'
    BY <1>1, Zenon DEF Inv, TypeOK, Existing
  <2> QED
    BY <2>1, <2>2, <2>3, <2>4, <1>1, Zenon DEF Inv, TypeOK
<1>7. Phasing'
  BY <1>1, ZenonT(30) DEF Inv, Phasing
<1>8. NoNumberIsLost'
  BY <1>1, ZenonT(30) DEF Inv, NoNumberIsLost, OnItsWay
<1>9. Ordered'
  <2>1. Ascending(q) /\ UpTo(q, requests) /\ requests \in Nat
    BY <1>2, <1>4 DEF Inv, Ordered, TypeOK
  <2>2. Ascending(w) /\ UpTo(w, requests)
    BY <2>1, <1>2, AscendingWithout, Zenon
  <2> QED
    BY <2>2, <1>1, <1>2, <1>4, Zenon DEF Inv, Ordered
<1>10. Bounded'
  <2>1. Created' = Created /\ Cardinality(Created) \in Nat
    BY <1>1, CreatedSize, Zenon DEF Created
  <2>2. Len(q) \in Nat /\ Len(q) <= 2 * Cardinality(Created)
    BY <1>2, <1>4 DEF Inv, Bounded, QueueIsBounded
  <2> QED
    BY <2>1, <2>2, <1>1, <1>3, <1>4 DEF Inv, Bounded, QueueIsBounded
<1> QED
  BY <1>5, <1>6, <1>7, <1>8, <1>9, <1>10 DEF Inv

(* A paired notification becomes a response. *)
LEMMA TransmitStep ==
  ASSUME Inv, Transmit
  PROVE  Inv' /\ Serves
<1> DEFINE p == transmission_queue
           q == publish_request_queue
           t == Head(p)
<1>1. /\ pc = "visit" /\ todo = {} /\ p # <<>>
      /\ transmission_queue' = Tail(p)
      /\ retransmission_queue' = retransmission_queue \cup {<<t.sub, t.seq>>}
      /\ published' = [published EXCEPT ![t.sub] = t.seq]
      /\ UNCHANGED <<subs, publish_request_queue, requests, pc, todo, stale,
                     caller, waiting, client_ahead>>
  BY Zenon DEF Transmit, tickVars
<1>2. p \in Seq(Transmission) /\ q \in Seq(Requests)
      /\ published \in [SubIds -> 0..MaxU32]
  BY Zenon DEF Inv, TypeOK, Requests
<1>3. /\ t = p[1] /\ 1 \in 1..Len(p) /\ t \in Transmission
      /\ Tail(p) \in Seq(Transmission) /\ Len(Tail(p)) = Len(p) - 1
      /\ \A k \in 1..Len(p) - 1 : Tail(p)[k] = p[k + 1] /\ k + 1 \in 1..Len(p)
  BY <1>1, <1>2
<1>4. t.sub \in SubIds /\ t.req \in 1..MaxRequests /\ t.seq \in 1..MaxU32
  BY <1>3, Zenon DEF Transmission
<1>5. t.seq = subs[t.sub].last /\ t.seq = NextHandle(published[t.sub])
      /\ subs[t.sub].phase \in {"live", "removed"}
  BY <1>3, ZenonT(30) DEF Inv, NoNumberIsLost
<1> HIDE DEF t
<1>6. /\ Outstanding # <<>> /\ Outstanding' = Tail(Outstanding)
      /\ Outstanding \in Seq(Requests)
  BY <1>1, <1>2, PendingSend, OutstandingShape, Zenon DEF Outstanding, Inv
<1>7. Serves
  <2>1. published' = [published EXCEPT ![t.sub] = Service!Successor(@)]
    BY <1>1, <1>2, <1>4, <1>5, Zenon DEF Service!Successor, NextHandle
  <2>2. Service!Publish(t.sub)
    BY <2>1, <1>6, Zenon DEF Service!Publish
  <2> QED
    BY <2>2, <1>4 DEF Serves, Service!ServiceNext
<1>8. TypeOK'
  <2>1. publish_response_queue' \in Seq(Response)
    <3> DEFINE more == \E k \in 2..Len(transmission_queue) :
                         transmission_queue[k].sub = t.sub
    <3>1. more \in BOOLEAN
      OBVIOUS
    <3>2. publish_response_queue' = Append(publish_response_queue,
            [req |-> t.req, sub |-> t.sub, seq |-> t.seq, more |-> more])
      BY Zenon DEF Transmit, t
    <3> HIDE DEF more
    <3>3. t.seq \in 0..MaxU32
      BY <1>4, SubscriptionsAssumption
    <3>4. [req |-> t.req, sub |-> t.sub, seq |-> t.seq, more |-> more] \in Response
      BY <3>1, <3>3, <1>4, Zenon DEF Response
    <3>5. publish_response_queue \in Seq(Response)
      BY Zenon DEF Inv, TypeOK
    <3> QED
      BY <3>2, <3>4, <3>5
  <2>2. published' \in [SubIds -> 0..MaxU32]
    <3>1. t.seq \in 0..MaxU32
      BY <1>4, SubscriptionsAssumption
    <3> QED
      BY <3>1, <1>1, <1>2, Zenon
  <2>3. retransmission_queue' \subseteq SubIds \X (1..MaxU32)
    BY <1>1, <1>4 DEF Inv, TypeOK
  <2>4. todo' \subseteq Existing' /\ Held' = Held
    BY <1>1 DEF Existing, Held
  <2> QED
    BY <2>1, <2>2, <2>3, <2>4, <1>1, <1>3, Zenon DEF Inv, TypeOK
<1>9. Phasing'
  <2>1. \A k \in 1..Len(Tail(p)) : Tail(p)[k].sub \notin todo'
    BY <1>1, Zenon
  <2>2. ASSUME NEW k \in 1..Len(Tail(p)), NEW l \in 1..Len(Tail(p)),
               Tail(p)[k].sub = Tail(p)[l].sub
        PROVE  k = l
    <3>1. p[k + 1].sub = p[l + 1].sub /\ k + 1 \in 1..Len(p) /\ l + 1 \in 1..Len(p)
      BY <2>2, <1>3, Zenon
    <3>2. k + 1 = l + 1
      BY <3>1, Zenon DEF Inv, Phasing
    <3> QED
      BY <3>2
  <2> QED
    BY <2>1, <2>2, <1>1, Zenon DEF Inv, Phasing
<1>10. NoNumberIsLost'
  <2>1. \A k \in 1..Len(Tail(p)) : Tail(p)[k].sub # t.sub /\ Tail(p)[k].sub \in SubIds
    <3> SUFFICES ASSUME NEW k \in 1..Len(Tail(p))
                 PROVE  Tail(p)[k].sub # t.sub /\ Tail(p)[k].sub \in SubIds
      BY Zenon
    <3>1. Tail(p)[k] = p[k + 1] /\ k + 1 \in 1..Len(p) /\ k + 1 # 1
      BY <1>3
    <3>2. p[k + 1].sub # p[1].sub
      BY <3>1, <1>3 DEF Inv, Phasing
    <3>3. p[k + 1] \in Transmission
      BY <3>1, <1>2
    <3> QED
      BY <3>1, <3>2, <3>3, <1>3, Zenon DEF Transmission
  <2>2. ASSUME NEW k \in 1..Len(Tail(p))
        PROVE  LET u == Tail(p)[k]
               IN  /\ u.seq = subs'[u.sub].last
                   /\ u.seq = NextHandle(published'[u.sub])
                   /\ subs'[u.sub].phase \in {"live", "removed"}
    <3>1. Tail(p)[k] = p[k + 1] /\ k + 1 \in 1..Len(p)
      BY <1>3, Zenon
    <3>2. published'[Tail(p)[k].sub] = published[Tail(p)[k].sub]
      BY <2>1, <1>1, <1>2, Zenon
    <3> QED
      BY <3>1, <3>2, <1>1 DEF Inv, NoNumberIsLost
  <2>3. ASSUME NEW i \in SubIds, ~OnItsWay(i)', subs'[i].phase # "deleted"
        PROVE  IF subs'[i].phase = "closed"
               THEN subs'[i].last = NextHandle(published'[i])
               ELSE subs'[i].last = published'[i]
    <3>1. CASE i = t.sub
      BY <3>1, <1>1, <1>2, <1>4, <1>5, Zenon
    <3>2. CASE i # t.sub
      <4>1. ~OnItsWay(i)
        <5>1. SUFFICES ASSUME NEW k \in 1..Len(p), p[k].sub = i
                       PROVE  \E n \in 1..Len(Tail(p)) : Tail(p)[n].sub = i
          BY <2>3, <1>1, Zenon DEF OnItsWay
        <5>2. k # 1
          BY <5>1, <3>2, <1>3, Zenon
        <5>3. k - 1 \in 1..Len(p) - 1 /\ (k - 1) + 1 = k
          BY <5>2
        <5>4. Tail(p)[k - 1] = p[k]
          BY <5>3, <1>3, Zenon
        <5> QED
          BY <5>1, <5>3, <5>4, <1>3, Zenon
      <4>2. published'[i] = published[i]
        BY <3>2, <1>1, <1>2, Zenon
      <4> QED
        BY <4>1, <4>2, <2>3, <1>1, Zenon DEF Inv, NoNumberIsLost
    <3> QED
      BY <3>1, <3>2, Zenon
  <2> QED
    BY <2>2, <2>3, <1>1, ZenonT(30) DEF NoNumberIsLost
<1>11. Ordered'
  <2> DEFINE n == IF waiting.id = 0 THEN requests ELSE waiting.id - 1
  <2>1. n \in Nat /\ Ascending(Outstanding) /\ UpTo(Outstanding, n)
    BY DEF Inv, Ordered, TypeOK
  <2>2. Ascending(Outstanding') /\ UpTo(Outstanding', n)
    BY <2>1, <1>6, AscendingTail, Zenon
  <2> QED
    BY <2>2, <1>1, Zenon DEF Inv, Ordered
<1>12. Bounded'
  <2>1. Created' = Created /\ Cardinality(Created) \in Nat
    BY <1>1, CreatedSize, Zenon DEF Created
  <2>2. Len(Outstanding) \in Nat /\ Len(Outstanding') = Len(Outstanding) - 1
    BY <1>6
  <2> QED
    BY <2>1, <2>2, <1>1 DEF Inv, Bounded, QueueIsBounded
<1> QED
  BY <1>7, <1>8, <1>9, <1>10, <1>11, <1>12, ZenonT(30) DEF Inv

(* A handle returned by next is a sequence number, never 0. *)
LEMMA NumberType ==
  ASSUME NEW n \in 0..MaxU32
  PROVE  NextHandle(n) \in 1..MaxU32 /\ NextHandle(n) \in 0..MaxU32
BY MaxU32Assumption DEF NextHandle

(* A subscription is ticked.  last and new are the names of the action's LET;
   the lemma is about the cases in which it pairs a request or does not. *)
LEMMA TickStep ==
  ASSUME Inv, NEW i \in SubIds, NEW outcome \in Outcomes(subs[i].phase),
         TickSubscription(i, outcome)
  PROVE  Inv' /\ Serves
<1> DEFINE p      == transmission_queue
           q      == publish_request_queue
           req    == q # <<>>
           new    == outcome = "expires" \/ (outcome = "data" /\ req)
           closed == outcome = "expires" \/ subs[i].phase = "closed"
           last   == IF new THEN NextHandle(subs[i].last) ELSE subs[i].last
           phase  == PhaseAfter(subs[i].phase, closed, req)
           rec    == [subs[i] EXCEPT !.last = last, !.phase = phase]
           t      == [sub |-> i, req |-> Head(q), seq |-> last]
           pairs  == req /\ (new \/ closed)
<1>1. /\ pc = "visit" /\ i \in todo
      /\ todo' = todo \ {i}
      /\ IF pairs THEN /\ transmission_queue' = Append(p, t)
                       /\ publish_request_queue' = Tail(q)
                  ELSE UNCHANGED <<transmission_queue, publish_request_queue>>
      /\ subs' = [subs EXCEPT ![i] = rec]
      /\ UNCHANGED <<publish_response_queue, retransmission_queue, requests, pc,
                     stale, caller, waiting, published, client_ahead>>
  BY Zenon DEF TickSubscription, Speaks, Closes, LastAfter
<1>2. /\ p \in Seq(Transmission) /\ q \in Seq(Requests)
      /\ subs \in [SubIds -> SubRecord] /\ published \in [SubIds -> 0..MaxU32]
      /\ i \in Existing /\ todo \subseteq Existing /\ stale = {}
  BY <1>1, Zenon DEF Inv, TypeOK, Requests, Phasing
<1>3. /\ subs[i] \in SubRecord /\ subs[i].last \in 0..MaxU32
      /\ subs[i].phase \in {"live", "closed"}
  BY <1>2, Zenon DEF SubRecord, Existing
<1>4. outcome \in {"nothing", "data", "expires"}
      /\ (subs[i].phase = "closed" => outcome = "nothing")
  BY <1>3, Zenon DEF Outcomes
<1>5. ~OnItsWay(i)
  BY <1>1, Zenon DEF Inv, Phasing, OnItsWay
<1>6. IF subs[i].phase = "closed" THEN subs[i].last = NextHandle(published[i])
                                  ELSE subs[i].last = published[i]
  BY <1>3, <1>5, Zenon DEF Inv, NoNumberIsLost
<1>7. last \in 0..MaxU32 /\ (new => last \in 1..MaxU32)
  BY <1>3, NumberType, Zenon
<1>8. pairs => last = NextHandle(published[i]) /\ last \in 1..MaxU32
  <2>1. pairs => new \/ subs[i].phase = "closed"
    BY Zenon
  <2>2. CASE subs[i].phase = "closed"
    <3>1. ~new
      BY <2>2, <1>4, Zenon
    <3>2. published[i] \in 0..MaxU32
      BY <1>2, Zenon
    <3> QED
      BY <3>1, <3>2, <2>2, <1>6, NumberType, Zenon
  <2>3. CASE subs[i].phase # "closed" /\ new
    BY <2>3, <1>6, <1>7, Zenon
  <2> QED
    BY <2>1, <2>2, <2>3, Zenon
<1>9. rec \in SubRecord /\ rec.last = last
      /\ rec.phase = PhaseAfter(subs[i].phase, closed, req)
      /\ rec.phase \in {"live", "closed", "removed"}
  <2>1. PhaseAfter(subs[i].phase, closed, req) \in {"live", "closed", "removed"}
    BY <1>3 DEF PhaseAfter
  <2> HIDE DEF closed, req, last
  <2> QED
    BY <2>1, <1>3, <1>7, Zenon DEF SubRecord, Phases
<1>10. pairs => t \in Transmission /\ Head(q) \in 1..MaxRequests
  <2>1. q # <<>> => Head(q) \in Requests
    BY <1>2
  <2> QED
    BY <2>1, <1>8 DEF Transmission, Requests
<1>11. /\ subs' \in [SubIds -> SubRecord] /\ subs'[i] = rec
       /\ \A j \in SubIds : j # i => subs'[j] = subs[j]
  <2> HIDE DEF rec
  <2> QED
    BY <1>1, <1>2, <1>9, Zenon
<1>12. pairs => rec.phase \in {"live", "removed"} /\ rec.last = last
  BY <1>3, <1>9, Zenon DEF PhaseAfter
<1>13. ~pairs => IF rec.phase = "closed" THEN rec.last = NextHandle(published[i])
                                         ELSE rec.last = published[i]
  <2> SUFFICES ASSUME ~pairs
               PROVE  IF rec.phase = "closed"
                      THEN rec.last = NextHandle(published[i])
                      ELSE rec.last = published[i]
    BY Zenon
  <2>1. CASE closed
    <3>1. ~req
      BY <2>1, Zenon
    <3>2. rec.phase = "closed"
      BY <3>1, <2>1, <1>9, Zenon DEF PhaseAfter
    <3>3. CASE subs[i].phase = "closed"
      BY <3>2, <3>3, <1>4, <1>6, <1>9, Zenon
    <3>4. CASE subs[i].phase # "closed"
      <4>1. outcome = "expires"
        BY <2>1, <3>4, Zenon
      <4> QED
        BY <4>1, <3>2, <3>4, <1>6, <1>9, Zenon
    <3> QED
      BY <3>3, <3>4, Zenon
  <2>2. CASE ~closed
    <3>1. ~new
      BY <2>2, Zenon
    <3>2. rec.phase = subs[i].phase /\ subs[i].phase # "closed"
      BY <2>2, <1>9, Zenon DEF PhaseAfter
    <3> QED
      BY <3>1, <3>2, <1>6, <1>9, Zenon
  <2> QED
    BY <2>1, <2>2, Zenon
<1> HIDE DEF req, new, closed, last, rec, pairs
<1>14. Outstanding' = Outstanding
  <2>1. CASE pairs
    <3>1. t \in Transmission /\ t.req = Head(q) /\ q # <<>>
      BY <2>1, <1>10 DEF pairs, req
    <3> HIDE DEF t
    <3> QED
      BY <2>1, <3>1, <1>1, <1>2, PendingPair, ZenonT(30) DEF Outstanding
  <2>2. CASE ~pairs
    BY <2>2, <1>1 DEF Outstanding
  <2> QED
    BY <2>1, <2>2, Zenon
<1>15. Serves
  BY <1>1, <1>14, Zenon DEF Serves, Service!serviceVars
<1>16. /\ transmission_queue' \in Seq(Transmission)
       /\ publish_request_queue' \in Seq(Requests)
  <2>1. CASE pairs
    <3>1. q # <<>>
      BY <2>1, Zenon DEF pairs, req
    <3> QED
      <4>1. t \in Transmission
        BY <2>1, <1>10, Zenon
      <4>2. transmission_queue' = Append(p, t) /\ publish_request_queue' = Tail(q)
        BY <2>1, <1>1, Zenon
      <4> HIDE DEF t
      <4> QED
        BY <4>1, <4>2, <3>1, <1>2
  <2>2. CASE ~pairs
    BY <2>2, <1>1, <1>2, Zenon
  <2> QED
    BY <2>1, <2>2, Zenon
<1>17. TypeOK'
  <2>1. todo' \subseteq Existing'
    <3>1. \A j \in todo' : j \in SubIds /\ j # i /\ subs[j].phase \in {"live", "closed"}
      BY <1>1, <1>2, Zenon DEF Existing
    <3> QED
      BY <3>1, <1>11 DEF Existing
  <2>2. stale' \subseteq Held'
    BY <1>1, <1>2, Zenon DEF Inv, TypeOK
  <2> QED
    BY <2>1, <2>2, <1>1, <1>11, <1>16, ZenonT(30) DEF Inv, TypeOK, Requests
<1>18. ASSUME pairs PROVE Phasing' /\ NoNumberIsLost'
  <2>1. /\ transmission_queue' = Append(p, t) /\ Len(Append(p, t)) = Len(p) + 1
        /\ \A k \in 1..Len(p) : Append(p, t)[k] = p[k]
        /\ Append(p, t)[Len(p) + 1] = t /\ Len(p) \in Nat
        /\ t.sub = i /\ t.seq = last
    <3>1. transmission_queue' = Append(p, t)
      BY <1>18, <1>1, Zenon
    <3>2. t.sub = i /\ t.seq = last
      BY Zenon
    <3>3. p \in Seq(Transmission)
      BY <1>2, Zenon
    <3> HIDE DEF t, p
    <3>4. /\ Len(Append(p, t)) = Len(p) + 1 /\ Len(p) \in Nat
          /\ \A k \in 1..Len(p) : Append(p, t)[k] = p[k]
          /\ Append(p, t)[Len(p) + 1] = t
      BY <3>3
    <3> QED
      BY <3>1, <3>2, <3>4, Zenon
  <2> HIDE DEF t
  <2>2. \A k \in 1..Len(p) + 1 : k \in 1..Len(p) \/ k = Len(p) + 1
    BY <2>1
  <2>3. \A k \in 1..Len(p) : p[k].sub # i /\ p[k].sub \in SubIds
    <3>1. \A k \in 1..Len(p) : p[k] \in Transmission
      BY <1>2
    <3> QED
      BY <3>1, <1>5, Zenon DEF OnItsWay, Transmission
  <2>4. Phasing'
    <3>1. \A k \in 1..Len(p) + 1 : Append(p, t)[k].sub \notin todo'
      BY <2>1, <2>2, <1>1, Zenon DEF Inv, Phasing
    <3>2. \A k, l \in 1..Len(p) + 1 :
             Append(p, t)[k].sub = Append(p, t)[l].sub => k = l
      BY <2>1, <2>2, <2>3 DEF Inv, Phasing
    <3> QED
      BY <3>1, <3>2, <2>1, <1>1, Zenon DEF Inv, Phasing
  <2>5. NoNumberIsLost'
    <3>1. ASSUME NEW k \in 1..Len(p) + 1
          PROVE  LET u == Append(p, t)[k]
                 IN  /\ u.seq = subs'[u.sub].last
                     /\ u.seq = NextHandle(published'[u.sub])
                     /\ subs'[u.sub].phase \in {"live", "removed"}
      <4>1. CASE k \in 1..Len(p)
        <5>1. subs'[p[k].sub] = subs[p[k].sub]
          BY <4>1, <2>3, <1>11, Zenon
        <5> QED
          BY <4>1, <5>1, <2>1, <1>1, Zenon DEF Inv, NoNumberIsLost
      <4>2. CASE k = Len(p) + 1
        BY <4>2, <2>1, <1>1, <1>8, <1>11, <1>12, <1>18, Zenon
      <4> QED
        BY <4>1, <4>2, <2>2, Zenon
    <3>2. ASSUME NEW j \in SubIds, ~OnItsWay(j)', subs'[j].phase # "deleted"
          PROVE  IF subs'[j].phase = "closed"
                 THEN subs'[j].last = NextHandle(published'[j])
                 ELSE subs'[j].last = published'[j]
      <4>1. \A k \in 1..Len(p) + 1 : Append(p, t)[k].sub # j
        BY <3>2, <2>1, Zenon DEF OnItsWay
      <4>2. j # i
        BY <4>1, <2>1
      <4>3. ~OnItsWay(j)
        BY <4>1, <2>1 DEF OnItsWay
      <4> QED
        BY <4>2, <4>3, <3>2, <1>1, <1>11, Zenon DEF Inv, NoNumberIsLost
    <3> QED
      BY <3>1, <3>2, <2>1, Zenon DEF NoNumberIsLost
  <2> QED
    BY <2>4, <2>5, Zenon
<1>19. ASSUME ~pairs PROVE Phasing' /\ NoNumberIsLost'
  <2>1. UNCHANGED <<transmission_queue, publish_request_queue>>
    BY <1>19, <1>1, Zenon
  <2>2. Phasing'
    BY <2>1, <1>1, ZenonT(30) DEF Inv, Phasing
  <2>3. NoNumberIsLost'
    <3>1. \A k \in 1..Len(p) : p[k].sub # i /\ p[k].sub \in SubIds
      <4>1. \A k \in 1..Len(p) : p[k] \in Transmission
        BY <1>2
      <4> QED
        BY <4>1, <1>5 DEF OnItsWay, Transmission
    <3>2. \A k \in 1..Len(p) : subs'[p[k].sub] = subs[p[k].sub]
      BY <3>1, <1>11, Zenon
    <3>3. ASSUME NEW j \in SubIds, ~OnItsWay(j), subs'[j].phase # "deleted"
          PROVE  IF subs'[j].phase = "closed"
                 THEN subs'[j].last = NextHandle(published[j])
                 ELSE subs'[j].last = published[j]
      <4>1. CASE j = i
        BY <4>1, <1>11, <1>13, <1>19, Zenon
      <4>2. CASE j # i
        BY <4>2, <3>3, <1>11, Zenon DEF Inv, NoNumberIsLost
      <4> QED
        BY <4>1, <4>2, Zenon
    <3>4. \A j \in SubIds : OnItsWay(j)' = OnItsWay(j)
      BY <2>1, Zenon DEF OnItsWay
    <3>5. transmission_queue' = p /\ published' = published
      BY <2>1, <1>1, Zenon
    <3>6. ASSUME NEW k \in 1..Len(p)
          PROVE  /\ p[k].seq = subs'[p[k].sub].last
                 /\ p[k].seq = NextHandle(published[p[k].sub])
                 /\ subs'[p[k].sub].phase \in {"live", "removed"}
      BY <3>2, Zenon DEF Inv, NoNumberIsLost
    <3> QED
      BY <3>3, <3>4, <3>5, <3>6, Zenon DEF NoNumberIsLost
  <2> QED
    BY <2>2, <2>3
<1>20. Ordered'
  BY <1>1, <1>14, Zenon DEF Inv, Ordered
<1>21. Bounded'
  <2>1. Created \subseteq Created'
    <3>1. rec.phase # "new"
      BY <1>9, Zenon
    <3> QED
      BY <3>1, <1>11, Zenon DEF Created
  <2>2. Len(Outstanding) \in Nat
    BY OutstandingShape DEF Inv
  <2>3. /\ Cardinality(Created) \in Nat /\ Cardinality(Created') \in Nat
        /\ Cardinality(Created) <= Cardinality(Created')
    BY <2>1, CreatedGrows, Zenon
  <2>4. waiting' = waiting /\ waiting.limit \in Nat
    BY <1>1, Zenon DEF Inv, TypeOK
  <2>5. /\ waiting.limit <= 2 * Cardinality(Created)
        /\ Len(Outstanding) <= 2 * Cardinality(Created)
    BY Zenon DEF Inv, Bounded, QueueIsBounded
  <2>6. Len(Outstanding') = Len(Outstanding)
    BY <1>14, Zenon
  <2> QED
    BY <2>2, <2>3, <2>4, <2>5, <2>6 DEF Bounded, QueueIsBounded
<1> QED
  BY <1>15, <1>17, <1>18, <1>19, <1>20, <1>21, Zenon DEF Inv

-----------------------------------------------------------------------------
(* A session without subscriptions and requests satisfies the invariant, and is
   an initial state of the service. *)
LEMMA InitHolds ==
  ASSUME Init
  PROVE  Inv /\ Service!ServiceInit
<1>1. Outstanding = <<>> /\ Len(Outstanding) = 0
  <2>1. <<>> \in Seq(Requests)
    OBVIOUS
  <2>2. transmission_queue = <<>> /\ publish_request_queue = <<>>
    BY Zenon DEF Init
  <2>3. Pending(<<>>, <<>>) = <<>>
    BY <2>1, PendingEmpty, Zenon
  <2> QED
    BY <2>2, <2>3, Zenon DEF Outstanding
<1>2. TypeOK
  <2>1. [phase |-> "new", priority |-> 0, last |-> 0] \in SubRecord
    BY SubscriptionsAssumption, MaxU32Assumption DEF SubRecord, Phases
  <2>2. subs \in [SubIds -> SubRecord] /\ published \in [SubIds -> 0..MaxU32]
    BY <2>1, SubscriptionsAssumption, MaxU32Assumption DEF Init
  <2>3. 0 \in 0..MaxRequests /\ NoRequest \in
          [id : 0..MaxRequests, acks : SUBSET (SubIds \X (1..MaxU32)), limit : Nat]
    BY SubscriptionsAssumption DEF NoRequest
  <2> QED
    BY <2>2, <2>3 DEF Init, TypeOK
<1>3. Phasing
  BY DEF Init, Phasing
<1>4. NoNumberIsLost
  BY DEF Init, NoNumberIsLost, OnItsWay
<1>5. Ordered
  BY <1>1 DEF Init, Ordered, Ascending, UpTo, NoRequest
<1>6. Bounded
  BY <1>1, CreatedSize DEF Init, Bounded, QueueIsBounded, NoRequest
<1>7. Service!ServiceInit
  BY <1>1, Zenon DEF Init, Service!ServiceInit
<1> QED
  BY <1>2, <1>3, <1>4, <1>5, <1>6, <1>7, Zenon DEF Inv

(* Every step keeps the invariant and is a step of the service or a stutter. *)
LEMMA StepHolds ==
  ASSUME Inv, [Next]_vars
  PROVE  Inv' /\ Serves
<1>1. CASE \E i \in SubIds, p \in Priorities : CreateSubscription(i, p)
  BY <1>1, ServiceStep, Zenon
<1>2. CASE \E i \in SubIds : DeleteSubscription(i)
  BY <1>2, ServiceStep, Zenon
<1>3. CASE \E i \in SubIds, p \in Priorities : SetPriority(i, p)
  BY <1>3, ServiceStep, Zenon
<1>4. CASE PublishRequest({})
  BY <1>4, PublishStep, Zenon
<1>5. CASE \E k \in Acknowledgeable : PublishRequest({k})
  <2>1. PICK k \in Acknowledgeable : PublishRequest({k})
    BY <1>5, Zenon
  <2>2. {k} \in SUBSET (SubIds \X (1..MaxU32))
    BY Zenon DEF Acknowledgeable, Inv, TypeOK
  <2> QED
    BY <2>1, <2>2, PublishStep, Zenon
<1>6. CASE (\E late \in SUBSET Held : TimerFired(late)) \/ TimerPanics
  <2>1. UNCHANGED <<subs, publish_request_queue, transmission_queue, requests,
                    waiting, published>>
    BY <1>6, Zenon DEF TimerFired, TimerPanics, queues
  <2> QED
    BY <1>6, <2>1, QuietStep, Zenon
<1>7. CASE UnderLock
  <2>1. CASE \E i \in SubIds : \E outcome \in Outcomes(subs[i].phase) :
               TickSubscription(i, outcome)
    BY <2>1, TickStep, Zenon
  <2>2. CASE Transmit
    BY <2>2, TransmitStep, Zenon
  <2>3. CASE TickEnd \/ ExpireEnd \/ TakeResponses
    <3>1. UNCHANGED <<subs, publish_request_queue, transmission_queue, requests,
                      waiting, published>>
      BY <2>3, Zenon DEF TickEnd, ExpireEnd, TakeResponses, queues
    <3> QED
      BY <2>3, <3>1, QuietStep, Zenon
  <2>4. CASE Admit
    BY <2>4, AdmitStep
  <2>5. CASE \E k \in 1..Len(publish_request_queue) : ExpireRequest(k)
    BY <2>5, ExpireStep, Zenon
  <2> QED
    BY <1>7, <2>1, <2>2, <2>3, <2>4, <2>5, Zenon DEF UnderLock
<1>8. CASE UNCHANGED vars
  <2>1. Outstanding' = Outstanding
    BY <1>8, Zenon DEF vars, queues, Outstanding
  <2>2. Serves
    BY <2>1, <1>8, Zenon DEF vars, Serves, Service!serviceVars
  <2>3. TypeOK'
    BY <1>8, Zenon DEF vars, queues, tickVars, Inv, TypeOK, Existing, Held
  <2>4. Phasing'
    BY <1>8, Zenon DEF vars, queues, tickVars, Inv, Phasing
  <2>5. NoNumberIsLost'
    BY <1>8, Zenon DEF vars, queues, tickVars, Inv, NoNumberIsLost, OnItsWay
  <2>6. Ordered' /\ Bounded'
    BY <2>1, <1>8, Zenon DEF vars, queues, tickVars, Inv, Ordered, Bounded,
       QueueIsBounded, Created
  <2> QED
    BY <2>2, <2>3, <2>4, <2>5, <2>6, Zenon DEF Inv
<1> QED
  BY <1>1, <1>2, <1>3, <1>4, <1>5, <1>6, <1>7, <1>8, Zenon DEF Next

(* The inductive invariant of the publish queues: the types, that the queues
   of a tick() are empty outside of it, that the outstanding requests are in
   the order of their arrival, and that no number is lost. *)
THEOREM QueuesAreSound == Spec => []Inv
<1>1. Init => Inv
  BY InitHolds, Zenon
<1>2. Inv /\ [Next]_vars => Inv'
  BY StepHolds
<1> QED
  BY <1>1, <1>2, PTL DEF Spec

(* The variables of the session have their types. *)
THEOREM QueuesTypeCorrect == Spec => []TypeOK
<1>1. Inv => TypeOK
  BY Zenon DEF Inv
<1> QED
  BY <1>1, QueuesAreSound, PTL

(* No sequence number is lost between Subscription::tick() and the client. *)
THEOREM NumbersTheorem == Spec => []NoNumberIsLost
<1>1. Inv => NoNumberIsLost
  BY Zenon DEF Inv
<1> QED
  BY <1>1, QueuesAreSound, PTL

(* At most two publish requests wait for each subscription ever created, with
   the limit of enqueue_publish_request() computed before the tick that makes
   room. *)
THEOREM BoundTheorem == Spec => []QueueIsBounded
<1>1. Inv => QueueIsBounded
  BY DEF Inv, Bounded
<1> QED
  BY <1>1, QueuesAreSound, PTL

(* The queues of a session implement the publish service: each step of
   enqueue_publish_request(), tick() and expire_stale_publish_requests()
   accepts a request, answers the oldest one with the next number of a
   subscription, lets one time out, or is invisible to the client. *)
THEOREM Refinement == Spec => ImplementsService
<1>1. Init => Service!ServiceInit
  BY InitHolds, Zenon
<1>2. Inv /\ [Next]_vars => [Service!ServiceNext]_(Service!serviceVars)
  BY StepHolds, Zenon DEF Serves
<1> QED
  BY <1>1, <1>2, QueuesAreSound, PTL DEF Spec, ImplementsService, Service!ServiceSpec

-----------------------------------------------------------------------------
(* Retransmission. *)

(* Of a finite set of keys, those that have at least n smaller ones are at most
   all but n: a smallest one of them has n others before it. *)
LEMMA AllButTheSmallest ==
  ASSUME NEW K, IsFiniteSet(K), K \subseteq Nat \X Nat, NEW n \in Nat,
         NEW R, R = {k \in K : Cardinality({l \in K : KeyBefore(l, k)}) >= n},
         R # {}
  PROVE  Cardinality(R) + n <= Cardinality(K)
<1> DEFINE before(k) == {l \in K : KeyBefore(l, k)}
           rank(k)   == Cardinality(before(k))
           ranks     == {rank(k) : k \in R}
<1>1. ASSUME NEW k \in K
      PROVE  IsFiniteSet(before(k)) /\ rank(k) \in Nat
  <2>1. before(k) \in SUBSET K
    BY Zenon
  <2> QED
    BY <2>1, FS_Subset, FS_CardinalityType, Zenon
<1>2. ASSUME NEW k \in K, NEW l \in K, KeyBefore(l, k)
      PROVE  rank(l) < rank(k)
  <2>1. k \in Nat \X Nat /\ l \in Nat \X Nat
    BY Zenon
  <2>2. ~KeyBefore(l, l)
    BY <2>1 DEF KeyBefore
  <2>3. ASSUME NEW m \in K, KeyBefore(m, l)
        PROVE  KeyBefore(m, k)
    <3>1. m \in Nat \X Nat
      BY Zenon
    <3> QED
      BY <1>2, <2>1, <2>3, <3>1 DEF KeyBefore
  <2>4. before(l) \in SUBSET before(k)
    BY <2>3, Zenon
  <2>5. l \in before(k) /\ l \notin before(l)
    BY <1>2, <2>2, Zenon
  <2> HIDE DEF before
  <2>6. Cardinality(before(l)) <= Cardinality(before(k))
        /\ Cardinality(before(l)) # Cardinality(before(k))
    BY <1>1, <2>4, <2>5, FS_Subset, Zenon
  <2> QED
    BY <1>1, <2>6
<1>3. PICK m \in R : \A l \in R : ~(rank(l) < rank(m))
  <2>1. ranks \subseteq Nat /\ ranks # {}
    BY <1>1, Zenon
  <2>2. PICK x \in ranks : \A y \in ranks : ~(<<y, x>> \in OpToRel(<, Nat))
    BY <2>1, WFMin, NatLessThanWellFounded, Zenon
  <2>3. \A y \in ranks : ~(y < x)
    BY <2>1, <2>2, Zenon DEF OpToRel
  <2> QED
    BY <2>2, <2>3, Zenon
<1>4. R \in SUBSET (K \ before(m))
  BY <1>2, <1>3, Zenon
<1>5. /\ IsFiniteSet(K \ before(m))
      /\ Cardinality(K \ before(m)) = Cardinality(K) - rank(m)
  <2>1. K \cap before(m) = before(m)
    OBVIOUS
  <2> HIDE DEF before
  <2> QED
    BY <2>1, FS_Difference, Zenon
<1>6. Cardinality(R) <= Cardinality(K) - rank(m)
  <2> HIDE DEF before
  <2> QED
    BY <1>4, <1>5, FS_Subset, ZenonT(30)
<1>7. rank(m) >= n /\ rank(m) \in Nat
  BY <1>1, Zenon
<1>8. Cardinality(R) \in Nat /\ Cardinality(K) \in Nat
  <2>1. R \in SUBSET K
    OBVIOUS
  <2> QED
    BY <2>1, FS_Subset, FS_CardinalityType, Zenon
<1> HIDE DEF rank
<1> QED
  BY <1>6, <1>7, <1>8

(* remove_old_unacknowledged_notifications() keeps only what belongs to a
   subscription that exists, and four for each at most. *)
LEMMA OldIsRemoved ==
  ASSUME NEW keys \in SUBSET (SubIds \X (1..MaxU32))
  PROVE  /\ \A k \in RemoveOld(keys) : k[1] \in Existing
         /\ Cardinality(RemoveOld(keys)) <= 4 * Cardinality(Existing)
<1> DEFINE kept   == {k \in keys : k[1] \in Existing}
           excess == Cardinality(kept) - 2 * max_publish_requests
           R      == {k \in kept :
                        Cardinality({l \in kept : KeyBefore(l, k)}) >= excess}
<1>1. RemoveOld(keys) = R
  BY Zenon DEF RemoveOld
<1>2. IsFiniteSet(SubIds \X (1..MaxU32))
  <2>1. IsFiniteSet(1..MaxU32)
    BY FS_Interval, MaxU32Assumption
  <2> QED
    BY <2>1, FS_Product, SubscriptionsAssumption, Zenon
<1>3. /\ IsFiniteSet(kept) /\ Cardinality(kept) \in Nat
      /\ kept \subseteq Nat \X Nat
  <2>1. kept \in SUBSET (SubIds \X (1..MaxU32))
    OBVIOUS
  <2>2. SubIds \subseteq Nat /\ 1..MaxU32 \subseteq Nat
    BY SubscriptionsAssumption, MaxU32Assumption
  <2> HIDE DEF kept
  <2> QED
    BY <1>2, <2>1, <2>2, FS_Subset, FS_CardinalityType, Zenon
<1>4. Cardinality(Existing) \in Nat
  BY CreatedSize
<1>5. excess = Cardinality(kept) - 4 * Cardinality(Existing)
  BY <1>3, <1>4 DEF max_publish_requests
<1>6. \A k \in R : k[1] \in Existing
  OBVIOUS
<1>7. /\ Cardinality(R) \in Nat
      /\ Cardinality(R) <= Cardinality(kept)
  <2>1. R \in SUBSET kept
    BY Zenon
  <2> HIDE DEF R, kept
  <2> QED
    BY <1>3, <2>1, FS_Subset, FS_CardinalityType, Zenon
<1>8. Cardinality(R) <= 4 * Cardinality(Existing)
  <2>1. CASE excess \in Nat /\ R # {}
    <3>1. PICK n \in Nat, K \in {kept} : n = excess /\ K = kept
      BY <2>1, Zenon
    <3>2. R = {k \in K : Cardinality({l \in K : KeyBefore(l, k)}) >= n}
      BY <3>1
    <3> HIDE DEF R, excess, kept
    <3>3. Cardinality(R) + n <= Cardinality(K)
      BY <1>3, <2>1, <3>1, <3>2, AllButTheSmallest, Zenon
    <3> QED
      BY <1>3, <1>4, <1>5, <1>7, <3>1, <3>3
  <2>2. CASE R = {}
    <3> HIDE DEF R
    <3> QED
      BY <1>4, <2>2, FS_EmptySet
  <2>3. CASE excess \notin Nat
    <3> HIDE DEF R, excess, kept
    <3> QED
      BY <1>3, <1>4, <1>5, <1>7, <2>3
  <2> QED
    BY <2>1, <2>2, <2>3, Zenon
<1> HIDE DEF R
<1> QED
  BY <1>1, <1>6, <1>8

(* After every tick() the retransmission queue holds only what belongs to
   existing subscriptions, at most four numbers for each, whatever the client
   leaves unacknowledged. *)
THEOREM RetransmissionTheorem == Spec => RetransmissionIsBounded
<1>1. ASSUME Inv, [Next]_vars, pc = "visit", pc' # "visit"
      PROVE  /\ \A k \in retransmission_queue' : k[1] \in Existing
             /\ Cardinality(retransmission_queue') <= 4 * Cardinality(Existing)
  <2>1. TickEnd
    BY <1>1, Zenon DEF Next, UnderLock, vars, tickVars, CreateSubscription,
       DeleteSubscription, SetPriority, PublishRequest, TimerFired, TimerPanics,
       Admit, TickSubscription, Transmit, ExpireRequest, ExpireEnd, TakeResponses
  <2>2. retransmission_queue' = RemoveOld(retransmission_queue)
    BY <2>1, Zenon DEF TickEnd
  <2>3. retransmission_queue \in SUBSET (SubIds \X (1..MaxU32))
    BY <1>1, Zenon DEF Inv, TypeOK
  <2> QED
    BY <2>2, <2>3, OldIsRemoved, Zenon
<1>2. Inv /\ [Next]_vars =>
        [pc = "visit" /\ pc' # "visit" =>
           /\ \A k \in retransmission_queue' : k[1] \in Existing
           /\ Cardinality(retransmission_queue') <= 4 * Cardinality(Existing)]_vars
  BY <1>1, Zenon
<1> QED
  BY <1>2, QueuesAreSound, PTL DEF Spec, RetransmissionIsBounded

-----------------------------------------------------------------------------
(* Requests and their responses. *)

Contains(s, r) == \E k \in 1..Len(s) : s[k] = r

Answers(s, r) == \E k \in 1..Len(s) : s[k].req = r

(* Who waits is the first, or waits among the others. *)
LEMMA ContainsTail ==
  ASSUME NEW s \in Seq(Requests), s # <<>>, NEW r, Contains(s, r)
  PROVE  Head(s) = r \/ Contains(Tail(s), r)
<1>1. PICK k \in 1..Len(s) : s[k] = r
  BY Zenon DEF Contains
<1>2. /\ Head(s) = s[1] /\ Len(Tail(s)) = Len(s) - 1
      /\ \A m \in 1..Len(s) - 1 : Tail(s)[m] = s[m + 1]
  OBVIOUS
<1>3. CASE k = 1
  BY <1>1, <1>2, <1>3, Zenon
<1>4. CASE k # 1
  <2>1. k - 1 \in 1..Len(s) - 1 /\ (k - 1) + 1 = k
    BY <1>4
  <2> QED
    BY <1>1, <1>2, <2>1, Zenon DEF Contains
<1> QED
  BY <1>3, <1>4, Zenon

(* Putting a request at the end of a queue loses none. *)
LEMMA ContainsAppend ==
  ASSUME NEW s \in Seq(Requests), NEW e \in Requests
  PROVE  /\ Contains(Append(s, e), e)
         /\ \A r : Contains(s, r) => Contains(Append(s, e), r)
<1>1. /\ Len(Append(s, e)) = Len(s) + 1 /\ Append(s, e)[Len(s) + 1] = e
      /\ \A k \in 1..Len(s) : Append(s, e)[k] = s[k]
  OBVIOUS
<1>2. /\ Len(s) + 1 \in 1..Len(s) + 1
      /\ \A k \in 1..Len(s) : k \in 1..Len(s) + 1
  OBVIOUS
<1> QED
  BY <1>1, <1>2, Zenon DEF Contains

(* Taking the request at k out of a queue loses only that one. *)
LEMMA ContainsWithout ==
  ASSUME NEW q \in Seq(Requests), NEW k \in 1..Len(q), NEW r, Contains(q, r)
  PROVE  q[k] = r \/ Contains(Without(q, k), r)
<1>1. PICK m \in 1..Len(q) : q[m] = r
  BY Zenon DEF Contains
<1>2. /\ Len(Without(q, k)) = Len(q) - 1
      /\ \A n \in 1..Len(q) - 1 :
           Without(q, k)[n] = IF n < k THEN q[n] ELSE q[n + 1]
  BY WithoutShape, Zenon
<1>3. CASE m = k
  BY <1>1, <1>3
<1>4. CASE m < k
  <2>1. m \in 1..Len(q) - 1
    BY <1>4
  <2> QED
    BY <1>1, <1>2, <1>4, <2>1 DEF Contains
<1>5. CASE m > k
  <2>1. m - 1 \in 1..Len(q) - 1 /\ ~(m - 1 < k) /\ (m - 1) + 1 = m
    BY <1>5
  <2> QED
    BY <1>1, <1>2, <2>1, Zenon DEF Contains
<1> QED
  BY <1>3, <1>4, <1>5

(* Adding an answer takes none away. *)
LEMMA AnswersAppend ==
  ASSUME NEW s \in Seq(Response), NEW e \in Response
  PROVE  /\ Answers(Append(s, e), e.req)
         /\ \A r : Answers(s, r) => Answers(Append(s, e), r)
<1>1. /\ Len(Append(s, e)) = Len(s) + 1 /\ Append(s, e)[Len(s) + 1] = e
      /\ \A k \in 1..Len(s) : Append(s, e)[k] = s[k]
  OBVIOUS
<1>2. /\ Len(s) + 1 \in 1..Len(s) + 1
      /\ \A k \in 1..Len(s) : k \in 1..Len(s) + 1
  OBVIOUS
<1> QED
  BY <1>1, <1>2, Zenon DEF Answers

(* What Append() adds to a queue of responses is of the right type when the
   queue is afterwards. *)
LEMMA AppendedIsTyped ==
  ASSUME NEW S, NEW s \in Seq(S), NEW e, Append(s, e) \in Seq(S)
  PROVE  e \in S
<1>1. Append(s, e)[Len(s) + 1] = e /\ Len(Append(s, e)) = Len(s) + 1
  OBVIOUS
<1>2. Len(s) + 1 \in 1..Len(Append(s, e))
  BY <1>1
<1> QED
  BY <1>1, <1>2
(* A tick of a subscription moves a request from one queue to the other, and
   leaves what is outstanding as it was. *)
LEMMA TickKeepsOutstanding ==
  ASSUME Inv, NEW i \in SubIds, NEW outcome \in Outcomes(subs[i].phase),
         TickSubscription(i, outcome)
  PROVE  Outstanding' = Outstanding
<1>1. Inv'
  BY TickStep, Zenon
<1>2. /\ transmission_queue \in Seq(Transmission)
      /\ transmission_queue' \in Seq(Transmission)
      /\ publish_request_queue \in Seq(Requests)
  BY <1>1, Zenon DEF Inv, TypeOK, Requests
<1>3. PICK seq : \/ UNCHANGED <<transmission_queue, publish_request_queue>>
                 \/ /\ publish_request_queue # <<>>
                    /\ transmission_queue' = Append(transmission_queue,
                         [sub |-> i, req |-> Head(publish_request_queue),
                          seq |-> seq])
                    /\ publish_request_queue' = Tail(publish_request_queue)
  BY Zenon DEF TickSubscription
<1>4. CASE UNCHANGED <<transmission_queue, publish_request_queue>>
  BY <1>4 DEF Outstanding
<1>5. CASE ~UNCHANGED <<transmission_queue, publish_request_queue>>
  <2>1. PICK t : t = [sub |-> i, req |-> Head(publish_request_queue), seq |-> seq]
    BY Zenon
  <2>2. /\ publish_request_queue # <<>> /\ t.req = Head(publish_request_queue)
        /\ transmission_queue' = Append(transmission_queue, t)
        /\ publish_request_queue' = Tail(publish_request_queue)
    BY <1>3, <1>5, <2>1
  <2>3. t \in Transmission
    BY <1>2, <2>2, AppendedIsTyped
  <2> QED
    BY <1>2, <2>2, <2>3, PendingPair DEF Outstanding
<1> QED
  BY <1>4, <1>5

(* Transmit hands the oldest outstanding request over to its response. *)
LEMMA TransmitAnswers ==
  ASSUME Inv, Transmit, NEW r
  PROVE  /\ Contains(Outstanding, r) =>
              Contains(Outstanding', r) \/ Answers(publish_response_queue', r)
         /\ Answers(publish_response_queue, r) => Answers(publish_response_queue', r)
<1>1. Inv'
  BY TransmitStep, Zenon
<1>2. /\ transmission_queue \in Seq(Transmission) /\ transmission_queue # <<>>
      /\ publish_request_queue \in Seq(Requests)
      /\ publish_response_queue \in Seq(Response)
      /\ publish_response_queue' \in Seq(Response)
  BY <1>1, Zenon DEF Inv, TypeOK, Requests, Transmit
<1>3. PICK e : /\ e.req = Head(transmission_queue).req
               /\ publish_response_queue' = Append(publish_response_queue, e)
  BY Zenon DEF Transmit
<1>4. e \in Response
  BY <1>2, <1>3, AppendedIsTyped
<1>5. /\ Answers(publish_response_queue', e.req)
      /\ Answers(publish_response_queue, r) => Answers(publish_response_queue', r)
  BY <1>2, <1>3, <1>4, AnswersAppend
<1>6. /\ Outstanding # <<>> /\ Outstanding' = Tail(Outstanding)
      /\ Outstanding \in Seq(Requests)
  BY <1>2, PendingSend, OutstandingShape, Zenon DEF Outstanding, Inv, Transmit
<1>7. Head(Outstanding) = e.req
  <2>1. 1 \in 1..Len(transmission_queue) /\ Head(transmission_queue) = transmission_queue[1]
    BY <1>2
  <2>2. Outstanding[1] = transmission_queue[1].req
    BY <1>2, <2>1, PendingShape, Zenon DEF Outstanding
  <2>3. Head(Outstanding) = Outstanding[1]
    BY <1>6
  <2> QED
    BY <1>3, <2>1, <2>2, <2>3, Zenon
<1> QED
  BY <1>5, <1>6, <1>7, ContainsTail, Zenon

(* A request that times out is handed over to its fault. *)
LEMMA ExpiryAnswers ==
  ASSUME Inv, NEW k \in 1..Len(publish_request_queue), ExpireRequest(k), NEW r
  PROVE  /\ Contains(Outstanding, r) =>
              Contains(Outstanding', r) \/ Answers(publish_response_queue', r)
         /\ Answers(publish_response_queue, r) => Answers(publish_response_queue', r)
<1>1. Inv'
  BY ExpireStep, Zenon
<1>2. /\ publish_request_queue \in Seq(Requests)
      /\ publish_response_queue \in Seq(Response)
      /\ publish_response_queue' \in Seq(Response)
  BY <1>1, Zenon DEF Inv, TypeOK, Requests
<1>3. /\ transmission_queue = <<>> /\ transmission_queue' = <<>>
      /\ publish_request_queue' = Without(publish_request_queue, k)
  BY Zenon DEF ExpireRequest, Inv, Phasing
<1>4. /\ Outstanding = publish_request_queue
      /\ Outstanding' = Without(publish_request_queue, k)
  <2>1. TypeOK /\ TypeOK'
    BY <1>1, Zenon DEF Inv
  <2>2. publish_request_queue' \in Seq(Requests)
    BY <2>1, Zenon DEF TypeOK, Requests
  <2> QED
    BY <1>2, <1>3, <2>2, PendingEmpty, Zenon DEF Outstanding
<1>5. PICK e : /\ e.req = publish_request_queue[k]
               /\ publish_response_queue' = Append(publish_response_queue, e)
  BY Zenon DEF ExpireRequest, WithTimeout
<1>6. e \in Response
  BY <1>2, <1>5, AppendedIsTyped, Zenon
<1>7. /\ Answers(publish_response_queue', e.req)
      /\ Answers(publish_response_queue, r) => Answers(publish_response_queue', r)
  BY <1>2, <1>5, <1>6, AnswersAppend, Zenon
<1> QED
  BY <1>2, <1>4, <1>5, <1>7, ContainsWithout, Zenon

(* A request that is admitted joins the outstanding ones. *)
LEMMA AdmissionKeeps ==
  ASSUME Inv, Admit, ~(Len(publish_request_queue) >= waiting.limit)
  PROVE  /\ Contains(Outstanding', waiting.id)
         /\ \A r : Contains(Outstanding, r) => Contains(Outstanding', r)
<1>1. Inv'
  BY AdmitStep, Zenon
<1>2. /\ transmission_queue = <<>> /\ transmission_queue' = <<>>
      /\ publish_request_queue' = Append(publish_request_queue, waiting.id)
  BY Zenon DEF Admit, Inv, Phasing, IsFull, Enqueued
<1>3. /\ publish_request_queue \in Seq(Requests)
      /\ publish_request_queue' \in Seq(Requests)
  BY <1>1 DEF Inv, TypeOK, Requests
<1>4. Outstanding = publish_request_queue /\ Outstanding' = publish_request_queue'
  BY <1>2, <1>3, PendingEmpty, Zenon DEF Outstanding
<1>5. waiting.id \in Requests
  BY <1>2, <1>3, AppendedIsTyped, Zenon
<1> QED
  BY <1>2, <1>3, <1>4, <1>5, ContainsAppend, Zenon

(* A request that is owed an answer is owed it until it is given: each step
   moves it on, from the caller of enqueue_publish_request() to the request
   queue, to the transmission queue and to the responses. *)
LEMMA RequestsMoveOn ==
  ASSUME Inv, [Next]_vars, NEW r \in 1..MaxRequests, Unanswered(r)
  PROVE  \/ Unanswered(r)'
         \/ pc = "take" /\ Answers(publish_response_queue, r)
         \/ pc = "admit" /\ Len(publish_request_queue) >= waiting.limit
<1>1. \/ waiting.id = r
      \/ Contains(Outstanding, r)
      \/ Answers(publish_response_queue, r)
  BY Zenon DEF Unanswered, Contains, Answers
<1>2. ASSUME \/ waiting'.id = r
             \/ Contains(Outstanding', r)
             \/ Answers(publish_response_queue', r)
      PROVE  Unanswered(r)'
  BY <1>2, Zenon DEF Unanswered, Contains, Answers
<1>3. ASSUME UNCHANGED <<transmission_queue, publish_request_queue>>
      PROVE  Outstanding' = Outstanding
  BY <1>3, Zenon DEF Outstanding
<1>4. ASSUME UNCHANGED <<transmission_queue, publish_request_queue,
                         publish_response_queue, waiting>>
      PROVE  Unanswered(r)'
  BY <1>1, <1>2, <1>3, <1>4, Zenon
<1>5. CASE \E i \in SubIds, p \in Priorities : CreateSubscription(i, p)
  BY <1>4, <1>5, Zenon DEF CreateSubscription, queues, tickVars
<1>6. CASE \E i \in SubIds : DeleteSubscription(i)
  BY <1>4, <1>6, Zenon DEF DeleteSubscription, queues, tickVars
<1>7. CASE \E i \in SubIds, p \in Priorities : SetPriority(i, p)
  BY <1>4, <1>7, Zenon DEF SetPriority, queues, tickVars
<1>8. ASSUME NEW acks, PublishRequest(acks) PROVE Unanswered(r)'
  <2>1. UNCHANGED <<transmission_queue, publish_request_queue,
                    publish_response_queue>>
    BY <1>8, Zenon DEF PublishRequest, queues
  <2>2. waiting.id # r
    <3>1. waiting.id = 0
      BY <1>8, Zenon DEF PublishRequest, Inv, Ordered
    <3> QED
      BY <3>1
  <2> QED
    BY <1>1, <1>2, <1>3, <2>1, <2>2, Zenon
<1>9. CASE (\E late \in SUBSET Held : TimerFired(late)) \/ TimerPanics
  BY <1>4, <1>9, Zenon DEF TimerFired, TimerPanics, queues
<1>10. ASSUME NEW i \in SubIds, NEW outcome \in Outcomes(subs[i].phase),
              TickSubscription(i, outcome)
       PROVE  Unanswered(r)'
  <2>1. UNCHANGED <<publish_response_queue, waiting>>
    BY <1>10, Zenon DEF TickSubscription
  <2>2. Outstanding' = Outstanding
    BY <1>10, TickKeepsOutstanding, Zenon
  <2> QED
    BY <1>1, <1>2, <2>1, <2>2, Zenon
<1>11. CASE Transmit
  <2>1. UNCHANGED waiting
    BY <1>11, Zenon DEF Transmit, tickVars
  <2> QED
    BY <1>1, <1>2, <1>11, <2>1, TransmitAnswers, Zenon
<1>12. CASE TickEnd \/ ExpireEnd
  BY <1>4, <1>12, Zenon DEF TickEnd, ExpireEnd, queues
<1>13. CASE Admit /\ ~(Len(publish_request_queue) >= waiting.limit)
  <2>1. UNCHANGED publish_response_queue
    BY <1>13, Zenon DEF Admit, queues
  <2> QED
    BY <1>1, <1>2, <1>13, <2>1, AdmissionKeeps, Zenon
<1>14. CASE Admit /\ Len(publish_request_queue) >= waiting.limit
  BY <1>14, Zenon DEF Admit
<1>15. ASSUME NEW k \in 1..Len(publish_request_queue), ExpireRequest(k)
       PROVE  Unanswered(r)'
  <2>1. UNCHANGED waiting
    BY <1>15, Zenon DEF ExpireRequest
  <2> QED
    BY <1>1, <1>2, <1>15, <2>1, ExpiryAnswers, Zenon
<1>16. CASE TakeResponses
  <2>1. /\ pc = "take"
        /\ UNCHANGED <<transmission_queue, publish_request_queue, waiting>>
    BY <1>16, Zenon DEF TakeResponses
  <2> QED
    BY <1>1, <1>2, <1>3, <2>1, Zenon
<1>17. CASE UNCHANGED vars
  BY <1>4, <1>17, Zenon DEF vars, queues, tickVars
<1> QED
  BY <1>5, <1>6, <1>7, <1>8, <1>9, <1>10, <1>11, <1>12, <1>13, <1>14, <1>15,
     <1>16, <1>17, Zenon DEF Next, UnderLock

(* No publish request is dropped: whatever the interleaving of arrivals, ticks
   and time-outs, a request leaves the session with its response, or is refused
   when the queue is full. *)
THEOREM RequestTheorem == Spec => NoRequestIsDropped
<1>1. Inv /\ [Next]_vars =>
        [\A r \in 1..MaxRequests :
           Unanswered(r) /\ ~Unanswered(r)' =>
             \/ pc = "take" /\ \E k \in 1..Len(publish_response_queue) :
                                  publish_response_queue[k].req = r
             \/ pc = "admit" /\ Len(publish_request_queue) >= waiting.limit]_vars
  BY RequestsMoveOn, Zenon DEF Answers
<1> QED
  BY <1>1, QueuesAreSound, PTL DEF Spec, NoRequestIsDropped
=============================================================================
