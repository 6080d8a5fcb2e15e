-------------------------- MODULE MonitoredItemsProofs --------------------------
(***************************************************************************)
(* What the queues of monitored items promise, for any requests, values,    *)
(* sizes and intervals and any number of items.                             *)
(*                                                                          *)
(* That lost notifications are marked is not inductive: a queue of one      *)
(* notification drops its entry, and the bit with it, without marking the   *)
(* next one.  It is safe because an item that has overflowed always has     *)
(* more than one notification, and a queue is never shrunk under it.        *)
(***************************************************************************)
EXTENDS MonitoredItems, TLAPS, SequenceTheorems

Marked(queue) == \E k \in 1..Len(queue) : queue[k].overflow

Good(item) ==
  /\ item \in ItemType
  /\ item.queue # <<>> => item.queue[Len(item.queue)].value = item.last
  /\ item.queue_overflow <=> Marked(item.queue)
  /\ item.queue_overflow => Len(item.queue) > 1

Fits(item) == Len(item.queue) <= item.queue_size

(* What a tick leaves of an item. *)
SameSettings(new, old) ==
  /\ new.mode = old.mode /\ new.triggered = old.triggered
  /\ new.sampling_interval = old.sampling_interval /\ new.queue_size = old.queue_size

Inv ==
  /\ TypeOK /\ DOMAIN items \subseteq 1..next_id - 1
  /\ \A i \in DOMAIN items :
       Good(items[i]) /\ items[i].triggered \subseteq (1..next_id - 1) \ {i}
  /\ panicked <=> \E i \in DOMAIN items : ~Fits(items[i])

(* The revised size is one that the server supports. *)
LEMMA SizeIsRevised ==
  ASSUME NEW n \in Nat PROVE RevisedSize(n) \in 1..max_queue_size
BY ItemsAssumption DEF RevisedSize, Min

(* The queue after enqueue_notification_message(): the new notification is last,
   and whatever carried the bit before still does unless the queue was full. *)
LEMMA QueueAfter ==
  ASSUME NEW item \in ItemType, Fits(item), NEW n \in Notifications
  PROVE  LET q == QueueWith(item, n)
         IN  /\ q \in Seq(Notifications) /\ Len(q) \in 1..item.queue_size
             /\ q[Len(q)] = n
             /\ IsFull(item) => Len(q) = Len(item.queue)
             /\ ~IsFull(item) => /\ Len(q) = Len(item.queue) + 1
                                 /\ \A k \in 1..Len(item.queue) : q[k] = item.queue[k]
<1> DEFINE old == item.queue
           kept == IF ~IsFull(item) THEN old
                   ELSE IF item.discard_oldest THEN Tail(old) ELSE SubSeq(old, 1, Len(old) - 1)
           q == Append(kept, n)
<1>1. /\ old \in Seq(Notifications) /\ Len(old) \in Nat /\ item.queue_size \in Nat \ {0}
      /\ Len(old) <= item.queue_size
  BY ItemsAssumption DEF ItemType, Fits
<1>2. QueueWith(item, n) = q
  BY DEF QueueWith
<1>3. /\ kept \in Seq(Notifications)
      /\ Len(kept) = IF IsFull(item) THEN Len(old) - 1 ELSE Len(old)
  <2>1. CASE ~IsFull(item)
    BY <1>1, <2>1
  <2>2. CASE IsFull(item)
    <3>1. Len(old) > 0 /\ old # <<>>
      BY <1>1, <2>2 DEF IsFull
    <3>2. Tail(old) \in Seq(Notifications) /\ Len(Tail(old)) = Len(old) - 1
      BY <1>1, <3>1, HeadTailProperties
    <3>3. /\ SubSeq(old, 1, Len(old) - 1) \in Seq(Notifications)
          /\ Len(SubSeq(old, 1, Len(old) - 1)) = IF 1 <= Len(old) - 1 THEN Len(old) - 1 - 1 + 1 ELSE 0
      <4>1. \A k \in 1..Len(old) - 1 : old[k] \in Notifications
        BY <1>1, ElementOfSeq
      <4> QED
        BY <1>1, <4>1, SubSeqProperties
    <3>4. Len(SubSeq(old, 1, Len(old) - 1)) = Len(old) - 1
      BY <1>1, <3>1, <3>3
    <3> QED
      BY <2>2, <3>2, <3>3, <3>4
  <2> QED
    BY <2>1, <2>2
<1>4. ~IsFull(item) => kept = old
  OBVIOUS
<1> HIDE DEF kept
<1>5. /\ q \in Seq(Notifications) /\ Len(q) = Len(kept) + 1 /\ q[Len(kept) + 1] = n
      /\ \A k \in 1..Len(kept) : q[k] = kept[k]
  BY <1>3, AppendProperties
<1> HIDE DEF q
<1>6. Len(q) \in 1..item.queue_size
      /\ (IsFull(item) => Len(q) = Len(old)) /\ (~IsFull(item) => Len(q) = Len(old) + 1)
  BY <1>1, <1>3, <1>5 DEF IsFull
<1>7. ASSUME ~IsFull(item), NEW k \in 1..Len(old) PROVE q[k] = old[k]
  BY <1>4, <1>5, <1>7
<1> QED
  BY <1>2, <1>5, <1>6, <1>7

(* enqueue_notification_message() *)
LEMMA EnqueueIsGood ==
  ASSUME NEW item, Good(item), Fits(item), NEW value \in Values
  PROVE  LET new == Enqueue(item, value)
         IN  /\ new \in ItemType /\ Fits(new) /\ SameSettings(new, item)
             /\ new.queue # <<>> /\ new.queue[Len(new.queue)].value = value
             /\ new.queue_overflow <=> Marked(new.queue)
             /\ new.queue_overflow => Len(new.queue) > 1
<1> DEFINE n == [value |-> value, overflow |-> Mark(item)]
           q == QueueWith(item, n)
           o == item.queue_overflow \/ Overflows(item)
           new == Enqueue(item, value)
<1>1. item \in ItemType
  BY DEF Good
<1>2. n \in Notifications /\ n.value = value /\ n.overflow = Overflows(item)
  BY DEF Notifications, Mark, Overflows, IsFull
<1>3. /\ q \in Seq(Notifications) /\ Len(q) \in 1..item.queue_size /\ q[Len(q)] = n
      /\ IsFull(item) => Len(q) = Len(item.queue)
      /\ ~IsFull(item) => /\ Len(q) = Len(item.queue) + 1
                          /\ \A k \in 1..Len(item.queue) : q[k] = item.queue[k]
  BY <1>1, <1>2, QueueAfter
<1>4. /\ item.queue \in Seq(Notifications) /\ Len(item.queue) \in Nat
      /\ item.queue_size \in Nat \ {0} /\ item.queue_overflow \in BOOLEAN
      /\ \A k \in 1..Len(item.queue) : item.queue[k] \in Notifications
  BY <1>1, ItemsAssumption, ElementOfSeq DEF ItemType
<1>5. new = [item EXCEPT !.queue = q, !.queue_overflow = o]
  BY DEF Enqueue
<1>6. o \in BOOLEAN
  BY <1>4 DEF Overflows, IsFull
<1> HIDE DEF n, q, o
<1>7. new \in ItemType /\ new.queue = q /\ new.queue_overflow = o /\ SameSettings(new, item)
  BY <1>1, <1>3, <1>5, <1>6, Zenon DEF ItemType, SameSettings
<1> HIDE DEF new
<1>8. Fits(new) /\ q # <<>>
  BY <1>3, <1>4, <1>7 DEF Fits, SameSettings
<1>9. o <=> Marked(q)
  <2>1. CASE IsFull(item) /\ item.queue_size > 1
    <3>1. o /\ n.overflow
      BY <1>2, <2>1, Zenon DEF o, Overflows
    <3>2. Len(q) \in 1..Len(q) /\ q[Len(q)].overflow
      BY <1>3, <1>4, <3>1
    <3> QED
      BY <3>1, <3>2 DEF Marked
  <2>2. CASE IsFull(item) /\ ~(item.queue_size > 1)
    <3>0. Len(item.queue) = item.queue_size /\ item.queue_size = 1
      BY <1>4, <2>2 DEF IsFull
    <3>1. ~Overflows(item) /\ Len(item.queue) = 1 /\ Len(q) = 1
      BY <1>3, <2>2, <3>0 DEF Overflows
    <3>2. ~item.queue_overflow
      BY <3>1 DEF Good
    <3>3. ~n.overflow /\ q[1] = n
      BY <1>2, <1>3, <3>1
    <3>4. ~Marked(q)
      BY <3>1, <3>3 DEF Marked
    <3> QED
      BY <3>1, <3>2, <3>4 DEF o
  <2>3. CASE ~IsFull(item)
    <3>1. ~n.overflow /\ (o <=> Marked(item.queue))
      BY <1>2, <2>3, Zenon DEF o, Overflows, Good
    <3>2. ASSUME NEW k \in 1..Len(q) PROVE k \in 1..Len(item.queue) \/ k = Len(q)
      BY <1>3, <1>4, <2>3
    <3>3. \A k \in 1..Len(item.queue) : k \in 1..Len(q)
      BY <1>3, <1>4, <2>3
    <3> QED
      BY <1>3, <2>3, <3>1, <3>2, <3>3, Zenon DEF Marked
  <2> QED
    BY <2>1, <2>2, <2>3
<1>10. o => Len(q) > 1
  BY <1>3, <1>4 DEF o, Overflows, IsFull, Good
<1> QED
  BY <1>2, <1>3, <1>7, <1>8, <1>9, <1>10 DEF new

(* check_value() *)
LEMMA CheckValueIsGood ==
  ASSUME NEW item, Good(item), Fits(item), NEW resend, node \in Values \union {NoValue}
  PROVE  LET new == CheckValue(item, resend)
         IN  Good(new) /\ Fits(new) /\ SameSettings(new, item)
<1> DEFINE sampled == IF HasChanged(item, resend) THEN Enqueue(item, node) ELSE item
           last == IF HasChanged(item, resend) THEN node ELSE item.last
           new == CheckValue(item, resend)
<1>1. item \in ItemType /\ longest_interval \in Nat
  BY ItemsAssumption DEF Good
<1>2. HasChanged(item, resend) => node \in Values
  BY DEF HasChanged
<1>3. /\ sampled \in ItemType /\ Fits(sampled) /\ SameSettings(sampled, item)
      /\ sampled.queue # <<>> => sampled.queue[Len(sampled.queue)].value = last
      /\ sampled.queue_overflow <=> Marked(sampled.queue)
      /\ sampled.queue_overflow => Len(sampled.queue) > 1
  <2>1. CASE HasChanged(item, resend)
    BY <1>2, <2>1, EnqueueIsGood
  <2>2. CASE ~HasChanged(item, resend)
    BY <1>1, <2>2 DEF Good, SameSettings
  <2> QED
    BY <2>1, <2>2
<1>4. last \in Values \union {NoValue}
  BY <1>1 DEF ItemType
<1>5. new = [sampled EXCEPT !.since_sample = 0, !.last = last]
  BY DEF CheckValue
<1> HIDE DEF sampled, last, new
<1>6. /\ new \in ItemType /\ new.queue = sampled.queue /\ new.last = last
      /\ new.queue_overflow = sampled.queue_overflow /\ SameSettings(new, sampled)
  <2>1. sampled \in ItemType /\ 0 \in 0..longest_interval
    BY <1>1, <1>3
  <2> QED
    BY <1>4, <1>5, <2>1, Zenon DEF ItemType, SameSettings
<1>7. Good(new) /\ Fits(new) /\ SameSettings(new, item)
  BY <1>3, <1>6 DEF Good, Fits, SameSettings
<1> QED
  BY <1>7 DEF new

(* all_notifications() *)
LEMMA DrainedIsGood ==
  ASSUME NEW item, Good(item)
  PROVE  /\ Good(Drained(item)) /\ Fits(Drained(item)) /\ SameSettings(Drained(item), item)
         /\ Drained(item).queue = <<>>
<1> DEFINE new == Drained(item)
<1>1. item \in ItemType /\ item.queue_size \in Nat
  BY ItemsAssumption DEF Good, ItemType
<1>2. <<>> \in Seq(Notifications)
  BY EmptySeq
<1>3. new = [item EXCEPT !.queue = <<>>, !.queue_overflow = FALSE]
  BY DEF Drained
<1> HIDE DEF new
<1>4. new \in ItemType /\ new.queue = <<>> /\ new.queue_overflow = FALSE /\ SameSettings(new, item)
  BY <1>1, <1>2, <1>3, Zenon DEF ItemType, SameSettings
<1>5. Len(new.queue) = 0
  BY <1>4
<1>6. ~Marked(new.queue)
  BY <1>5 DEF Marked
<1>7. Good(new) /\ Fits(new)
  BY <1>1, <1>4, <1>5, <1>6 DEF Good, Fits, SameSettings
<1> QED
  BY <1>4, <1>7 DEF new

(* tick_monitored_items(): a reporting item that is due when the publishing
   interval has elapsed has nothing queued afterwards. *)
LEMMA TickIsGood ==
  ASSUME NEW timed, NEW publishing \in BOOLEAN, node \in Values \union {NoValue},
         \A i \in DOMAIN timed : Good(timed[i]) /\ Fits(timed[i])
  PROVE  LET new == TickItems(timed, publishing)
         IN  /\ new \in [DOMAIN timed -> ItemType]
             /\ \A i \in DOMAIN timed :
                  /\ Good(new[i]) /\ Fits(new[i]) /\ SameSettings(new[i], timed[i])
                  /\ publishing /\ timed[i].mode = "Reporting"
                       /\ IsDue(timed[i], publishing, resend_data) => new[i].queue = <<>>
<1> DEFINE new == TickItems(timed, publishing)
           Ticked(i) == IF IsDue(timed[i], publishing, resend_data)
                        THEN CheckValue(timed[i], resend_data) ELSE timed[i]
           Reports(i) == publishing /\ WantsReport(timed[i], publishing, resend_data)
           triggers == UNION {timed[i].triggered : i \in {j \in DOMAIN timed : Reports(j)}}
<1>1. new = [i \in DOMAIN timed |->
              IF timed[i].mode = "Reporting" /\ Reports(i) THEN Drained(Ticked(i))
              ELSE IF timed[i].mode = "Sampling" /\ i \in triggers
                   THEN Drained(CheckValue(Ticked(i), TRUE))
              ELSE Ticked(i)]
  BY DEF TickItems
<1> HIDE DEF new, triggers
<1>2. ASSUME NEW i \in DOMAIN timed
      PROVE  /\ Good(new[i]) /\ Fits(new[i]) /\ SameSettings(new[i], timed[i])
             /\ publishing /\ timed[i].mode = "Reporting"
                  /\ IsDue(timed[i], publishing, resend_data) => new[i].queue = <<>>
  <2>0. Good(timed[i]) /\ Fits(timed[i]) /\ SameSettings(timed[i], timed[i])
    BY DEF SameSettings
  <2>1. Good(Ticked(i)) /\ Fits(Ticked(i)) /\ SameSettings(Ticked(i), timed[i])
    BY <2>0, CheckValueIsGood
  <2>2. CASE timed[i].mode = "Reporting" /\ Reports(i)
    <3>1. new[i] = Drained(Ticked(i))
      BY <1>1, <2>2, Zenon
    <3> HIDE DEF Ticked
    <3> QED
      BY <2>1, <3>1, DrainedIsGood DEF SameSettings
  <2>3. CASE timed[i].mode = "Sampling" /\ i \in triggers
    <3> DEFINE t == CheckValue(Ticked(i), TRUE)
    <3>1. new[i] = Drained(t) /\ timed[i].mode # "Reporting"
      BY <1>1, <2>3, Zenon
    <3> HIDE DEF Ticked
    <3>2. Good(t) /\ Fits(t) /\ SameSettings(t, timed[i])
      BY <2>1, CheckValueIsGood, Zenon DEF SameSettings
    <3> HIDE DEF t
    <3>3. Good(new[i]) /\ Fits(new[i]) /\ SameSettings(new[i], t)
      BY <3>1, <3>2, DrainedIsGood
    <3> QED
      BY <3>1, <3>2, <3>3 DEF SameSettings
  <2>4. CASE /\ ~(timed[i].mode = "Reporting" /\ Reports(i))
             /\ ~(timed[i].mode = "Sampling" /\ i \in triggers)
    <3>1. new[i] = Ticked(i)
      BY <1>1, <2>4, Zenon
    <3>2. ASSUME publishing, timed[i].mode = "Reporting",
                 IsDue(timed[i], publishing, resend_data)
          PROVE  new[i].queue = <<>>
      <4>1. timed[i].queue = <<>> /\ ~HasChanged(timed[i], resend_data)
        BY <2>4, <3>2, Zenon DEF WantsReport
      <4>2. new[i] = CheckValue(timed[i], resend_data)
        BY <3>1, <3>2
      <4>3. timed[i] \in ItemType
        BY <2>0 DEF Good
      <4>4. new[i] = [timed[i] EXCEPT !.since_sample = 0, !.last = timed[i].last]
        BY <4>1, <4>2 DEF CheckValue
      <4> QED
        BY <4>1, <4>3, <4>4 DEF ItemType
    <3> HIDE DEF Ticked
    <3> QED
      BY <2>1, <3>1, <3>2
  <2> HIDE DEF Ticked, Reports
  <2> QED
    BY <2>2, <2>3, <2>4
<1>3. new \in [DOMAIN timed -> ItemType]
  <2>1. \A i \in DOMAIN timed : new[i] \in ItemType
    BY <1>2 DEF Good
  <2>2. new = [i \in DOMAIN timed |-> new[i]]
    BY <1>1
  <2> QED
    BY <2>1, <2>2
<1> QED
  BY <1>2, <1>3 DEF new
-----------------------------------------------------------------------------
(* What Inv says of the items. *)
LEMMA ItemsAreGood ==
  ASSUME Inv, NEW i \in DOMAIN items
  PROVE  /\ Good(items[i]) /\ items[i] \in ItemType /\ i \in 1..MaxId
         /\ items[i].triggered \subseteq (1..next_id - 1) \ {i}
         /\ ~panicked => Fits(items[i])
BY DEF Inv, TypeOK, Good

(* A tick of the items keeps Inv. *)
LEMMA TickKeepsInv ==
  ASSUME Inv, ~panicked, NEW timed, NEW publishing \in BOOLEAN, DOMAIN timed = DOMAIN items,
         \A i \in DOMAIN items :
           Good(timed[i]) /\ Fits(timed[i]) /\ SameSettings(timed[i], items[i]),
         items' = TickItems(timed, publishing), resend_data' = FALSE,
         elapsed' \in 0..publishing_interval - 1, phase' \in 0..tick_length - 1,
         UNCHANGED <<next_id, node, panicked>>
  PROVE  Inv'
<1>1. node \in Values \union {NoValue} /\ DOMAIN items \subseteq 1..MaxId
      /\ DOMAIN items \subseteq 1..next_id - 1 /\ next_id \in 1..MaxId + 1
  BY DEF Inv, TypeOK
<1>2. /\ items' \in [DOMAIN items -> ItemType]
      /\ \A i \in DOMAIN items :
           Good(items'[i]) /\ Fits(items'[i]) /\ SameSettings(items'[i], timed[i])
  BY <1>1, TickIsGood
<1>3. DOMAIN items' = DOMAIN items
  BY <1>2
<1>4. ASSUME NEW i \in DOMAIN items
      PROVE  /\ Good(items'[i]) /\ Fits(items'[i])
             /\ items'[i].triggered \subseteq (1..next_id - 1) \ {i}
  BY <1>2, ItemsAreGood DEF SameSettings
<1>5. panicked' = FALSE
  BY DEF Inv, TypeOK
<1>6. TypeOK'
  BY <1>1, <1>2, <1>3, <1>5, Zenon DEF TypeOK
<1>7. (\A i \in DOMAIN items :
         Good(items[i]) /\ items[i].triggered \subseteq (1..next_id - 1) \ {i})'
  BY <1>3, <1>4, Zenon DEF Good, ItemType, Marked
<1>8. (panicked <=> \E i \in DOMAIN items : ~Fits(items[i]))'
  BY <1>3, <1>4, <1>5 DEF Fits
<1> QED
  BY <1>1, <1>3, <1>6, <1>7, <1>8 DEF Inv

(* A change of one item keeps Inv; the task panics if its queue does not fit. *)
LEMMA ChangeKeepsInv ==
  ASSUME Inv, ~panicked, NEW i \in DOMAIN items, NEW g, Good(g),
         g.triggered \subseteq (1..next_id - 1) \ {i},
         items' = [items EXCEPT ![i] = g], panicked' = ~Fits(g),
         UNCHANGED <<next_id, node, phase, elapsed, resend_data>>
  PROVE  Inv'
<1>1. items \in [DOMAIN items -> ItemType] /\ DOMAIN items \subseteq 1..next_id - 1
      /\ g \in ItemType
  BY DEF Inv, TypeOK, Good
<1>2. /\ DOMAIN items' = DOMAIN items /\ items'[i] = g
      /\ \A j \in DOMAIN items : j # i => items'[j] = items[j]
      /\ items' \in [DOMAIN items -> ItemType]
  BY <1>1
<1>3. panicked' \in BOOLEAN
  BY DEF Fits
<1>4. TypeOK'
  BY <1>2, <1>3 DEF Inv, TypeOK
<1>5. ASSUME NEW j \in DOMAIN items
      PROVE  Good(items'[j]) /\ items'[j].triggered \subseteq (1..next_id - 1) \ {j}
             /\ (j # i => Fits(items'[j]))
  BY <1>2, ItemsAreGood
<1>6. (\A j \in DOMAIN items :
         Good(items[j]) /\ items[j].triggered \subseteq (1..next_id - 1) \ {j})'
  BY <1>2, <1>5, ZenonT(30) DEF Good, ItemType, Marked
<1>7. (panicked <=> \E j \in DOMAIN items : ~Fits(items[j]))'
  BY <1>2, <1>5, Zenon DEF Fits
<1> QED
  BY <1>1, <1>2, <1>4, <1>6, <1>7 DEF Inv

(* create_monitored_items() *)
LEMMA CreateKeepsInv ==
  ASSUME Inv, ~panicked, NEW request \in Requests, NEW mode \in Modes,
         CreateMonitoredItem(request, mode)
  PROVE  Inv'
<1> DEFINE new == NewItem(request, mode)
<1>1. /\ request.queue_size \in Nat /\ request.sampling_interval \in (-1)..longest_interval
      /\ request.discard_oldest \in BOOLEAN /\ longest_interval \in Nat /\ MaxId \in Nat
  BY ItemsAssumption
<1>2. RevisedSize(request.queue_size) \in 1..max_queue_size /\ max_queue_size \in Nat
  BY <1>1, SizeIsRevised, ItemsAssumption
<1>3. <<>> \in Seq(Notifications) /\ Len(<<>>) = 0
  BY EmptySeq
<1>4. /\ new \in ItemType /\ new.queue = <<>> /\ new.queue_overflow = FALSE
      /\ new.triggered = {} /\ new.queue_size = RevisedSize(request.queue_size)
  BY <1>1, <1>2, <1>3 DEF NewItem, ItemType
<1> HIDE DEF new
<1>5. Good(new) /\ Fits(new)
  BY <1>2, <1>3, <1>4 DEF Good, Fits, Marked
<1>6. /\ next_id \in 1..MaxId /\ next_id' = next_id + 1 /\ ~panicked'
      /\ panicked' = panicked /\ node' = node /\ elapsed' = elapsed
      /\ resend_data' = resend_data /\ phase' = phase
      /\ items' = [i \in (DOMAIN items) \union {next_id} |->
                     IF i = next_id THEN new ELSE items[i]]
  BY <1>1 DEF CreateMonitoredItem, After, Inv, TypeOK, new
<1>7. DOMAIN items \subseteq 1..next_id - 1 /\ items \in [DOMAIN items -> ItemType]
      /\ DOMAIN items \subseteq 1..MaxId
  BY DEF Inv, TypeOK
<1>8. DOMAIN items' = (DOMAIN items) \union {next_id} /\ items'[next_id] = new
      /\ \A i \in DOMAIN items : items'[i] = items[i]
  BY <1>6, <1>7
<1>9. items' \in [DOMAIN items' -> ItemType]
  BY <1>4, <1>6, <1>7
<1>10. DOMAIN items' \subseteq 1..next_id' - 1 /\ DOMAIN items' \subseteq 1..MaxId
  BY <1>6, <1>7, <1>8
<1>11. TypeOK'
  <2>1. next_id' \in 1..MaxId + 1
    BY <1>1, <1>6
  <2> QED
    BY <1>6, <1>9, <1>10, <2>1 DEF Inv, TypeOK
<1>12. ASSUME NEW i \in DOMAIN items'
       PROVE  /\ Good(items'[i]) /\ Fits(items'[i])
              /\ items'[i].triggered \subseteq (1..next_id' - 1) \ {i}
  <2>1. CASE i = next_id
    BY <1>4, <1>5, <1>8, <2>1
  <2>2. CASE i \in DOMAIN items
    <3>1. Good(items[i]) /\ Fits(items[i]) /\ items[i].triggered \subseteq (1..next_id - 1) \ {i}
      BY <2>2, ItemsAreGood
    <3>2. 1..next_id - 1 \subseteq 1..next_id' - 1
      BY <1>6
    <3> QED
      BY <1>8, <2>2, <3>1, <3>2
  <2> QED
    BY <1>8, <2>1, <2>2
<1>13. (\A i \in DOMAIN items :
          Good(items[i]) /\ items[i].triggered \subseteq (1..next_id - 1) \ {i})'
  BY <1>12 DEF Good, ItemType, Marked
<1>14. (panicked <=> \E i \in DOMAIN items : ~Fits(items[i]))'
  BY <1>6, <1>12, Zenon DEF Fits
<1> QED
  BY <1>10, <1>11, <1>13, <1>14 DEF Inv

(* delete_monitored_items() *)
LEMMA DeleteKeepsInv ==
  ASSUME Inv, ~panicked, NEW i \in DOMAIN items, DeleteMonitoredItem(i)
  PROVE  Inv'
<1>1. /\ items' = [j \in (DOMAIN items) \ {i} |-> items[j]]
      /\ UNCHANGED <<next_id, node, phase, elapsed, resend_data, panicked>>
  BY DEF DeleteMonitoredItem
<1>2. items \in [DOMAIN items -> ItemType] /\ DOMAIN items \subseteq 1..next_id - 1
      /\ DOMAIN items \subseteq 1..MaxId
  BY DEF Inv, TypeOK
<1>3. /\ DOMAIN items' = (DOMAIN items) \ {i} /\ items' \in [DOMAIN items' -> ItemType]
      /\ \A j \in DOMAIN items' : j \in DOMAIN items /\ items'[j] = items[j]
  BY <1>1, <1>2
<1>4. TypeOK'
  BY <1>1, <1>2, <1>3 DEF Inv, TypeOK
<1>5. ASSUME NEW j \in DOMAIN items'
      PROVE  /\ Good(items'[j]) /\ Fits(items'[j])
             /\ items'[j].triggered \subseteq (1..next_id - 1) \ {j}
  BY <1>3, ItemsAreGood
<1>6. (\A j \in DOMAIN items :
         Good(items[j]) /\ items[j].triggered \subseteq (1..next_id - 1) \ {j})'
  BY <1>1, <1>5, ZenonT(30) DEF Good, ItemType, Marked
<1>7. (panicked <=> \E j \in DOMAIN items : ~Fits(items[j]))'
  BY <1>1, <1>5 DEF Fits
<1> QED
  BY <1>1, <1>2, <1>3, <1>4, <1>6, <1>7 DEF Inv

(* modify() *)
LEMMA ModifyKeepsInv ==
  ASSUME Inv, ~panicked, NEW i \in DOMAIN items, NEW request \in Requests,
         ModifyMonitoredItem(i, request)
  PROVE  Inv'
<1> DEFINE size == RevisedSize(request.queue_size)
           g == [items[i] EXCEPT !.sampling_interval = request.sampling_interval,
                                 !.queue_size = size, !.discard_oldest = request.discard_oldest]
<1>1. /\ request.queue_size \in Nat /\ request.sampling_interval \in (-1)..longest_interval
      /\ request.discard_oldest \in BOOLEAN
  BY ItemsAssumption
<1>2. size \in 1..max_queue_size
  BY <1>1, SizeIsRevised
<1> HIDE DEF size
<1>3. Good(items[i]) /\ items[i] \in ItemType /\ items \in [DOMAIN items -> ItemType]
      /\ items[i].triggered \subseteq (1..next_id - 1) \ {i}
  BY ItemsAreGood DEF Inv, TypeOK
<1>4. /\ g \in ItemType /\ g.queue = items[i].queue /\ g.last = items[i].last
      /\ g.queue_overflow = items[i].queue_overflow /\ g.triggered = items[i].triggered
      /\ g.queue_size = size
  BY <1>1, <1>2, <1>3, Zenon DEF ItemType
<1>5. items' = [items EXCEPT ![i] = g]
  BY <1>3, Zenon DEF ModifyMonitoredItem, size
<1> HIDE DEF g
<1>6. Good(g)
  BY <1>3, <1>4 DEF Good
<1>7. panicked' = ~Fits(g)
  <2>1. Len(items[i].queue) \in Nat /\ size \in Nat
    BY <1>2, <1>3, ItemsAssumption DEF ItemType
  <2>2. panicked' = (Len(items[i].queue) > size)
    BY DEF ModifyMonitoredItem, size
  <2> QED
    BY <1>4, <2>1, <2>2 DEF Fits
<1>8. UNCHANGED <<next_id, node, phase, elapsed, resend_data>>
  BY DEF ModifyMonitoredItem
<1> QED
  BY <1>3, <1>4, <1>5, <1>6, <1>7, <1>8, ChangeKeepsInv, Zenon

(* set_monitoring_mode() *)
LEMMA ModeKeepsInv ==
  ASSUME Inv, ~panicked, NEW i \in DOMAIN items, NEW mode \in Modes, SetMonitoringMode(i, mode)
  PROVE  Inv'
<1> DEFINE g == [items[i] EXCEPT !.mode = mode]
<1>1. Good(items[i]) /\ Fits(items[i]) /\ items[i] \in ItemType
      /\ items \in [DOMAIN items -> ItemType]
      /\ items[i].triggered \subseteq (1..next_id - 1) \ {i}
  BY ItemsAreGood DEF Inv, TypeOK
<1>2. /\ g \in ItemType /\ g.queue = items[i].queue /\ g.last = items[i].last
      /\ g.queue_overflow = items[i].queue_overflow /\ g.triggered = items[i].triggered
      /\ g.queue_size = items[i].queue_size
  BY <1>1, Zenon DEF ItemType
<1>3. items' = [items EXCEPT ![i] = g]
  BY <1>1 DEF SetMonitoringMode
<1> HIDE DEF g
<1>4. Good(g) /\ Fits(g)
  BY <1>1, <1>2 DEF Good, Fits
<1>5. panicked' = ~Fits(g) /\ UNCHANGED <<next_id, node, phase, elapsed, resend_data>>
  BY <1>4 DEF SetMonitoringMode, Inv, TypeOK, Fits
<1> QED
  BY <1>1, <1>2, <1>3, <1>4, <1>5, ChangeKeepsInv, Zenon

(* set_triggering() *)
LEMMA TriggeringKeepsInv ==
  ASSUME Inv, ~panicked, NEW i \in DOMAIN items, NEW add \in SUBSET (1..MaxId),
         NEW remove \in SUBSET (1..MaxId), SetTriggering(i, add, remove)
  PROVE  Inv'
<1> DEFINE good == (DOMAIN items) \ {i}
           links == (items[i].triggered \ (remove \intersect good)) \union (add \intersect good)
           g == [items[i] EXCEPT !.triggered = links]
<1>1. Good(items[i]) /\ Fits(items[i]) /\ items[i] \in ItemType
      /\ items \in [DOMAIN items -> ItemType]
      /\ items[i].triggered \subseteq (1..next_id - 1) \ {i}
      /\ DOMAIN items \subseteq 1..next_id - 1
  BY ItemsAreGood DEF Inv, TypeOK
<1>2. links \subseteq (1..next_id - 1) \ {i} /\ links \in SUBSET (1..MaxId)
  BY <1>1 DEF ItemType
<1>3. items' = [items EXCEPT ![i] = g]
  BY <1>1 DEF SetTriggering
<1> HIDE DEF links
<1>4. /\ g \in ItemType /\ g.queue = items[i].queue /\ g.last = items[i].last
      /\ g.queue_overflow = items[i].queue_overflow /\ g.triggered = links
      /\ g.queue_size = items[i].queue_size
  BY <1>1, <1>2, Zenon DEF ItemType
<1> HIDE DEF g
<1>5. Good(g) /\ Fits(g)
  BY <1>1, <1>4 DEF Good, Fits
<1>6. panicked' = ~Fits(g) /\ UNCHANGED <<next_id, node, phase, elapsed, resend_data>>
  BY <1>5 DEF SetTriggering, Inv, TypeOK, Fits
<1> QED
  BY <1>2, <1>3, <1>4, <1>5, <1>6, ChangeKeepsInv, Zenon

(* A sample grows older; its age is counted as far as intervals go. *)
LEMMA AgedIsGood ==
  ASSUME Inv, ~panicked, NEW i \in DOMAIN items
  PROVE  /\ Good(Aged[i]) /\ Fits(Aged[i]) /\ SameSettings(Aged[i], items[i])
         /\ items[i].since_sample + 1 >= items[i].sampling_interval =>
              Aged[i].since_sample >= Aged[i].sampling_interval
<1> DEFINE age == Min(items[i].since_sample + 1, longest_interval)
           g == [items[i] EXCEPT !.since_sample = age]
<1>0. longest_interval \in Nat
  BY ItemsAssumption
<1>1. Good(items[i]) /\ Fits(items[i]) /\ items[i] \in ItemType
  BY ItemsAreGood
<1>2. items[i].since_sample \in 0..longest_interval
      /\ items[i].sampling_interval \in (-1)..longest_interval
  BY <1>1 DEF ItemType
<1>3. age \in 0..longest_interval
      /\ (items[i].since_sample + 1 >= items[i].sampling_interval =>
            age >= items[i].sampling_interval)
  BY <1>0, <1>2 DEF Min
<1>4. Aged[i] = g
  BY DEF Older, Aged
<1> HIDE DEF age
<1>5. /\ g \in ItemType /\ g.queue = items[i].queue /\ g.last = items[i].last
      /\ g.queue_overflow = items[i].queue_overflow /\ g.since_sample = age
      /\ SameSettings(g, items[i])
  BY <1>1, <1>3, Zenon DEF ItemType, SameSettings
<1> HIDE DEF g
<1>6. Good(g) /\ Fits(g)
  BY <1>1, <1>5 DEF Good, Fits, SameSettings
<1> QED
  BY <1>3, <1>4, <1>5, <1>6 DEF SameSettings

(* Time passes between two ticks. *)
LEMMA TimeKeepsInv ==
  ASSUME Inv, ~panicked, TimePasses
  PROVE  Inv'
<1>1. /\ items' = Aged /\ phase' = phase + 1 /\ phase + 1 < tick_length
      /\ UNCHANGED <<next_id, node, elapsed, resend_data, panicked>>
  BY DEF TimePasses
<1>2. phase' \in 0..tick_length - 1
  BY <1>1, ItemsAssumption DEF Inv, TypeOK
<1>3. DOMAIN items' = DOMAIN items /\ Aged = [i \in DOMAIN items |-> Aged[i]]
  BY <1>1 DEF Aged
<1>4. ASSUME NEW i \in DOMAIN items
      PROVE  /\ Good(items'[i]) /\ Fits(items'[i]) /\ items'[i] \in ItemType
             /\ items'[i].triggered \subseteq (1..next_id - 1) \ {i}
  BY <1>1, AgedIsGood, ItemsAreGood DEF SameSettings, Good
<1>5. items' \in [DOMAIN items -> ItemType]
  BY <1>1, <1>3, <1>4
<1>6. TypeOK'
  BY <1>1, <1>2, <1>3, <1>5 DEF Inv, TypeOK
<1>7. (\A i \in DOMAIN items :
         Good(items[i]) /\ items[i].triggered \subseteq (1..next_id - 1) \ {i})'
  BY <1>1, <1>3, <1>4, Zenon DEF Good, ItemType, Marked
<1>8. (panicked <=> \E i \in DOMAIN items : ~Fits(items[i]))'
  BY <1>1, <1>3, <1>4, Zenon DEF Fits
<1>9. DOMAIN items' \subseteq 1..next_id' - 1
  BY <1>1, <1>3 DEF Inv
<1> QED
  BY <1>6, <1>7, <1>8, <1>9 DEF Inv

(* The timer fires (tick()). *)
LEMMA TimerKeepsInv ==
  ASSUME Inv, ~panicked, TickTimerFired
  PROVE  /\ Inv'
         /\ elapsed = publishing_interval - 1 =>
              \A i \in DOMAIN items :
                /\ items[i].mode = "Reporting"
                /\ items[i].since_sample + 1 >= items[i].sampling_interval
                => items'[i].queue = <<>>
<1> DEFINE publishing == elapsed + 1 >= publishing_interval
<1>0. publishing_interval \in Nat \ {0} /\ tick_length \in Nat \ {0}
      /\ elapsed \in 0..publishing_interval - 1 /\ node \in Values \union {NoValue}
  BY ItemsAssumption DEF Inv, TypeOK
<1>1. /\ items' = TickItems(Aged, publishing) /\ resend_data' = FALSE
      /\ elapsed' = IF publishing THEN 0 ELSE elapsed + 1
      /\ phase' = 0 /\ UNCHANGED <<next_id, node, panicked>>
  BY DEF TickTimerFired
<1>2. DOMAIN Aged = DOMAIN items /\ publishing \in BOOLEAN
  BY DEF Aged
<1>3. elapsed' \in 0..publishing_interval - 1 /\ phase' \in 0..tick_length - 1
  BY <1>0, <1>1
<1>4. elapsed = publishing_interval - 1 => publishing
  BY <1>0
<1> HIDE DEF publishing
<1>5. Inv'
  BY <1>1, <1>2, <1>3, AgedIsGood, TickKeepsInv, Zenon
<1>6. ASSUME elapsed = publishing_interval - 1, NEW i \in DOMAIN items,
             items[i].mode = "Reporting",
             items[i].since_sample + 1 >= items[i].sampling_interval
      PROVE  items'[i].queue = <<>>
  <2>1. Aged[i].mode = "Reporting" /\ Aged[i].sampling_interval \in (-1)..longest_interval
    BY <1>6, AgedIsGood, ItemsAreGood DEF SameSettings, ItemType
  <2>2. Aged[i].since_sample >= Aged[i].sampling_interval
    BY <1>6, AgedIsGood
  <2>3. Aged[i].sampling_interval = -1 \/ Aged[i].sampling_interval >= 0
    BY <2>1, ItemsAssumption
  <2>4. IsDue(Aged[i], publishing, resend_data)
    BY <1>4, <1>6, <2>1, <2>2, <2>3, Zenon DEF IsDue
  <2>5. \A j \in DOMAIN Aged : Good(Aged[j]) /\ Fits(Aged[j])
    BY <1>2, AgedIsGood, Zenon
  <2> QED
    BY <1>0, <1>1, <1>2, <1>4, <1>6, <2>1, <2>4, <2>5, TickIsGood, Zenon
<1> QED
  BY <1>5, <1>6

(* A publish request samples items between two ticks of the timer. *)
LEMMA RequestKeepsInv ==
  ASSUME Inv, ~panicked, ReceivePublishRequest
  PROVE  Inv'
<1>1. \A i \in DOMAIN items : Good(items[i]) /\ Fits(items[i]) /\ SameSettings(items[i], items[i])
  BY ItemsAreGood DEF SameSettings
<1>2. /\ items' = TickItems(items, FALSE) /\ resend_data' = FALSE
      /\ elapsed' \in 0..publishing_interval - 1 /\ phase' \in 0..tick_length - 1
      /\ UNCHANGED <<next_id, node, panicked>>
  BY DEF ReceivePublishRequest, Inv, TypeOK
<1> QED
  BY <1>1, <1>2, TickKeepsInv, Zenon

(* The invariant is inductive. *)
LEMMA InvIsInductive == Inv /\ [Next]_vars => Inv'
<1> SUFFICES ASSUME Inv, [Next]_vars PROVE Inv'
  OBVIOUS
<1>1. ASSUME items' = items, next_id' = next_id, panicked' = panicked, elapsed' = elapsed,
             node' \in Values \union {NoValue}, resend_data' \in BOOLEAN, phase' = phase
      PROVE  Inv'
  BY <1>1, Zenon DEF Inv, TypeOK, Good, Fits, Marked
<1>2. CASE UNCHANGED vars
  BY <1>1, <1>2 DEF vars, Inv, TypeOK
<1>3. ASSUME ~panicked, Service PROVE Inv'
  <2>1. CASE ResendData
    BY <1>1, <2>1, Zenon DEF ResendData, Inv, TypeOK
  <2> QED
    BY <1>3, <2>1, CreateKeepsInv, ModifyKeepsInv, ModeKeepsInv, TriggeringKeepsInv,
       DeleteKeepsInv DEF Service
<1>4. ASSUME NEW value \in Values \union {NoValue}, ChangeNode(value) PROVE Inv'
  BY <1>1, <1>4 DEF ChangeNode, Inv, TypeOK
<1> QED
  BY <1>2, <1>3, <1>4, TimeKeepsInv, TimerKeepsInv, RequestKeepsInv DEF Next

(* Queues, bits, links and the panic are as Inv says in every state. *)
THEOREM ItemsStayGood == Spec => []Inv
<1>1. Init => Inv
  <2> SUFFICES ASSUME Init PROVE Inv
    OBVIOUS
  <2>1. DOMAIN items = {} /\ items \in [DOMAIN items -> ItemType]
    <3>1. items = <<>> /\ <<>> = [i \in {} |-> <<>>]
      BY EmptySeq DEF Init
    <3> QED
      BY <3>1
  <2>2. /\ next_id \in 1..MaxId + 1 /\ elapsed \in 0..publishing_interval - 1
        /\ node \in Values \union {NoValue} /\ phase \in 0..tick_length - 1
    BY ItemsAssumption DEF Init
  <2>3. panicked = FALSE /\ resend_data = FALSE
    BY DEF Init
  <2>4. TypeOK
    BY <2>1, <2>2, <2>3, Zenon DEF TypeOK
  <2> QED
    BY <2>1, <2>3, <2>4 DEF Inv
<1> QED
  BY <1>1, InvIsInductive, PTL DEF Spec

(* Sizes are those that the server supports, for any requests. *)
THEOREM TypesAreKept == Spec => []TypeOK
<1>1. Inv => TypeOK
  BY DEF Inv
<1> QED
  BY <1>1, ItemsStayGood, PTL

(* No tick leaves more in a queue than its size, for any sizes. *)
THEOREM QueuesAreBounded == Spec => TicksKeepBounds
<1>1. ASSUME Inv, Next, TickTimerFired \/ ReceivePublishRequest, NEW i \in DOMAIN items'
      PROVE  Len(items'[i].queue) <= items'[i].queue_size
  <2>1. ~panicked /\ panicked' = panicked
    BY <1>1, Zenon DEF Next, TickTimerFired, ReceivePublishRequest
  <2>2. Inv'
    BY <1>1, InvIsInductive
  <2> QED
    BY <1>1, <2>1, <2>2 DEF Inv, Fits
<1>2. Inv /\ [Next]_vars =>
        [TickTimerFired \/ ReceivePublishRequest =>
           \A i \in DOMAIN items' : Len(items'[i].queue) <= items'[i].queue_size]_vars
  BY <1>1
<1> QED
  BY <1>2, ItemsStayGood, PTL DEF Spec, TicksKeepBounds

(* The last entry of a queue is the latest value sampled, whichever end is
   discarded. *)
THEOREM LatestIsLast == Spec => []NewestIsLast
<1>1. Inv => NewestIsLast
  BY DEF Inv, Good, NewestIsLast
<1> QED
  BY <1>1, ItemsStayGood, PTL

(* What is lost is marked, for any sizes and however they are modified. *)
THEOREM LossIsMarked == Spec => []OverflowIsMarked
<1>1. Inv => OverflowIsMarked
  <2> SUFFICES ASSUME Inv, NEW i \in DOMAIN items
               PROVE  items[i].queue_overflow <=>
                        \E k \in DOMAIN items[i].queue : items[i].queue[k].overflow
    BY DEF OverflowIsMarked
  <2>1. DOMAIN items[i].queue = 1..Len(items[i].queue)
    BY ItemsAreGood DEF ItemType
  <2> QED
    BY <2>1, ItemsAreGood DEF Good, Marked
<1> QED
  BY <1>1, ItemsStayGood, PTL

(* No id is given out twice, so that links never lead to another item. *)
THEOREM DeadLinksStayDead == Spec => []LinksStayDead
<1>1. Inv => LinksStayDead
  BY DEF Inv, LinksStayDead
<1> QED
  BY <1>1, ItemsStayGood, PTL

(* An item that is due when the publishing interval elapses has reported
   everything, for any intervals and however samples fall between ticks. *)
THEOREM DueItemsReport == Spec => DueIsReported
<1>1. Inv /\ [Next]_vars =>
        [elapsed = publishing_interval - 1 /\ TickTimerFired =>
           \A i \in DOMAIN items :
             /\ items[i].mode = "Reporting"
             /\ items[i].since_sample + 1 >= items[i].sampling_interval
             => items'[i].queue = <<>>]_vars
  <2>1. ASSUME Next PROVE ~panicked
    BY <2>1 DEF Next
  <2> QED
    BY <2>1, TimerKeepsInv
<1> QED
  BY <1>1, ItemsStayGood, PTL DEF Spec, DueIsReported
=============================================================================
