---------------------------- MODULE MonitoredItems ----------------------------
(***************************************************************************)
(* The monitored items of one subscription (server/subscriptions/           *)
(* monitored_item.rs and subscription.rs): when an item is sampled, what    *)
(* its queue keeps, what a publishing interval reports and what it          *)
(* triggers.  All items watch one node, which may come and go.              *)
(*                                                                          *)
(* Time is counted in units, tick_length of which pass between two ticks of *)
(* the timer of the transport: requests arrive, and samples may be taken,   *)
(* between two ticks.  The clock is never set back.  The items take data    *)
(* changes; a subscription that is being created or is closed does not tick *)
(* its items and is not modelled here.  One connection ticks the items, and *)
(* nothing moves any more once its task has panicked.                       *)
(***************************************************************************)
EXTENDS Integers, Sequences, FiniteSets

CONSTANTS Requests,             \* the parameters clients ask for
          Values,               \* what the node may hold
          NoValue,              \* nothing: no node, or nothing sampled yet
          tick_length,          \* units of time between two ticks of the timer
          publishing_interval,  \* in ticks
          max_queue_size,       \* max_monitored_item_queue_size of the server
          max_items,            \* max_monitored_items_per_sub, 0 for no limit
          longest_interval,     \* the age of a sample is not counted further
          MaxId                 \* bound on the items created

ASSUME ItemsAssumption ==
  /\ longest_interval \in Nat
  /\ Requests \subseteq [queue_size : Nat, sampling_interval : (-1)..longest_interval,
                         discard_oldest : BOOLEAN]
  /\ NoValue \notin Values
  /\ tick_length \in Nat \ {0}
  /\ publishing_interval \in Nat \ {0} /\ max_queue_size \in Nat \ {0}
  /\ max_items \in Nat /\ MaxId \in Nat

VARIABLES items,        \* the items by their ids
          next_id,      \* next_monitored_item_id
          node,         \* the value of the node
          phase,        \* units of time since the last tick of the timer
          elapsed,      \* ticks since the publishing interval last elapsed
          resend_data,  \* the client has called ResendData
          panicked      \* the task of the connection has panicked

vars == <<items, next_id, node, phase, elapsed, resend_data, panicked>>

Modes == {"Disabled", "Sampling", "Reporting"}
Min(a, b) == IF a <= b THEN a ELSE b

(* sanitize_queue_size(); the sampling intervals of Requests are revised ones. *)
RevisedSize(requested) == IF requested <= 1 THEN 1 ELSE Min(requested, max_queue_size)

(* MonitoredItem::new() *)
NewItem(request, mode) ==
  [mode |-> mode, triggered |-> {}, sampling_interval |-> request.sampling_interval,
   discard_oldest |-> request.discard_oldest,
   queue_size |-> RevisedSize(request.queue_size), queue |-> <<>>,
   queue_overflow |-> FALSE, since_sample |-> 0, last |-> NoValue]

Init ==
  /\ items = <<>> /\ next_id = 1
  /\ node \in Values
  /\ phase = 0 /\ elapsed = 0 /\ resend_data = FALSE /\ panicked = FALSE
-----------------------------------------------------------------------------
(* Mutant: the queue is full only when it has more than queue_size entries. *)
IsFullLate(item) == Len(item.queue) > item.queue_size

IsFull(item) == Len(item.queue) = item.queue_size

(* Mutant: the latest notification is kept, with the overflow bit, and the new
   one is thrown away. *)
QueueWithKeepsLatest(item, notification) ==
  IF ~IsFull(item) THEN Append(item.queue, notification)
  ELSE IF item.discard_oldest THEN Append(Tail(item.queue), notification)
  ELSE [item.queue EXCEPT ![Len(item.queue)].overflow = notification.overflow]

(* The queue makes room at the end it discards from; the new notification
   always goes to the back. *)
QueueWith(item, notification) ==
  Append(IF ~IsFull(item) THEN item.queue
         ELSE IF item.discard_oldest THEN Tail(item.queue)
         ELSE SubSeq(item.queue, 1, Len(item.queue) - 1), notification)

(* "Overflow only affects queues > 1 element" *)
Overflows(item) == IsFull(item) /\ item.queue_size > 1

(* Mutant: only a queue that discards its oldest marks what it has lost. *)
MarkIfOldest(item) == Overflows(item) /\ item.discard_oldest

(* The overflow bit of the new notification. *)
Mark(item) == Overflows(item)

(* enqueue_notification_message() *)
Enqueue(item, value) ==
  [item EXCEPT !.queue = QueueWith(item, [value |-> value, overflow |-> Mark(item)]),
               !.queue_overflow = item.queue_overflow \/ Overflows(item)]

(* check_for_data_change() *)
HasChanged(item, resend) == node # NoValue /\ (resend \/ item.last # node)

(* check_value() *)
CheckValue(item, resend) ==
  LET sampled == IF HasChanged(item, resend) THEN Enqueue(item, node) ELSE item
  IN  [sampled EXCEPT !.since_sample = 0,
                      !.last = IF HasChanged(item, resend) THEN node ELSE item.last]

(* tick(): -1 samples with the publishing interval, 0 at every tick. *)
IsDue(item, publishing, resend) ==
  /\ item.mode # "Disabled"
  /\ \/ resend
     \/ item.sampling_interval = -1 /\ publishing
     \/ item.sampling_interval >= 0 /\ item.since_sample >= item.sampling_interval

(* Mutant: what was queued in an earlier tick does not count. *)
WantsReportIfChanged(item, publishing, resend) ==
  IsDue(item, publishing, resend) /\ (item.last = NoValue \/ HasChanged(item, resend))

(* tick(): the result is a change, to be reported or not. *)
WantsReport(item, publishing, resend) ==
  IsDue(item, publishing, resend)
    /\ (item.last = NoValue \/ HasChanged(item, resend) \/ item.queue # <<>>)

(* all_notifications() *)
Drained(item) == [item EXCEPT !.queue = <<>>, !.queue_overflow = FALSE]

(* tick_monitored_items(): every item is sampled if it is due; when the
   publishing interval has elapsed, what has changed is reported and triggers
   the items it is linked to, which are then sampled and reported if they are
   only being sampled. *)
TickItems(timed, publishing) ==
  LET resend     == resend_data
      Ticked(i)  == IF IsDue(timed[i], publishing, resend)
                    THEN CheckValue(timed[i], resend) ELSE timed[i]
      Reports(i) == publishing /\ WantsReport(timed[i], publishing, resend)
      triggers   == UNION {timed[i].triggered : i \in {j \in DOMAIN timed : Reports(j)}}
  IN  [i \in DOMAIN timed |->
         IF timed[i].mode = "Reporting" /\ Reports(i) THEN Drained(Ticked(i))
         ELSE IF timed[i].mode = "Sampling" /\ i \in triggers
              THEN Drained(CheckValue(Ticked(i), TRUE))
         ELSE Ticked(i)]
-----------------------------------------------------------------------------
(* The age of a sample grows by one unit of time. *)
Older(item) == [item EXCEPT !.since_sample = Min(item.since_sample + 1, longest_interval)]

Aged == [i \in DOMAIN items |-> Older(items[i])]

(* Time passes between two ticks. *)
TimePasses ==
  /\ phase + 1 < tick_length
  /\ phase' = phase + 1
  /\ items' = Aged
  /\ UNCHANGED <<next_id, node, elapsed, resend_data, panicked>>

(* The timer fires. *)
TickTimerFired ==
  LET publishing == elapsed + 1 >= publishing_interval
  IN  /\ phase + 1 = tick_length
      /\ phase' = 0
      /\ items' = TickItems(Aged, publishing)
      /\ elapsed' = IF publishing THEN 0 ELSE elapsed + 1
      /\ resend_data' = FALSE
      /\ UNCHANGED <<next_id, node, panicked>>

(* A publish request arrives between two ticks of the timer. *)
ReceivePublishRequest ==
  /\ items' = TickItems(items, FALSE)
  /\ resend_data' = FALSE
  /\ UNCHANGED <<next_id, node, phase, elapsed, panicked>>

(* The node is written, deleted or added again. *)
ChangeNode(value) ==
  /\ node' = value
  /\ UNCHANGED <<items, next_id, phase, elapsed, resend_data, panicked>>

(* Mutant: the id of a deleted item is given out again. *)
AfterReuse(id) == Cardinality(DOMAIN items) + 1

(* next_monitored_item_id += 1 *)
After(id) == id + 1

(* create_monitored_items(): the node has to exist, and there is a limit. *)
CreateMonitoredItem(request, mode) ==
  /\ next_id <= MaxId
  /\ node # NoValue
  /\ max_items = 0 \/ Cardinality(DOMAIN items) <= max_items
  /\ items' = [i \in (DOMAIN items) \union {next_id} |->
                 IF i = next_id THEN NewItem(request, mode) ELSE items[i]]
  /\ next_id' = After(next_id)
  /\ UNCHANGED <<node, phase, elapsed, resend_data, panicked>>

(* modify(): a queue that is longer than the new size is to be shrunk, but the
   number of entries to discard is the new size minus the length.  That
   underflows, which a debug build refuses and drain() refuses otherwise; the
   item already has its new size by then. *)
ModifyMonitoredItem(i, request) ==
  /\ items' = [items EXCEPT ![i].sampling_interval = request.sampling_interval,
                            ![i].queue_size = RevisedSize(request.queue_size),
                            ![i].discard_oldest = request.discard_oldest]
  /\ panicked' = (Len(items[i].queue) > RevisedSize(request.queue_size))
  /\ UNCHANGED <<next_id, node, phase, elapsed, resend_data>>

SetMonitoringMode(i, mode) ==
  /\ items' = [items EXCEPT ![i].mode = mode]
  /\ UNCHANGED <<next_id, node, phase, elapsed, resend_data, panicked>>

(* set_triggering(): links are removed first; only other items that exist are
   accepted. *)
SetTriggering(i, add, remove) ==
  LET good == (DOMAIN items) \ {i}
  IN  /\ items' = [items EXCEPT ![i].triggered =
                     (items[i].triggered \ (remove \intersect good)) \union (add \intersect good)]
      /\ UNCHANGED <<next_id, node, phase, elapsed, resend_data, panicked>>

(* delete_monitored_items(): links to the item are left where they are. *)
DeleteMonitoredItem(i) ==
  /\ items' = [j \in (DOMAIN items) \ {i} |-> items[j]]
  /\ UNCHANGED <<next_id, node, phase, elapsed, resend_data, panicked>>

(* set_resend_data(), from the method ResendData. *)
ResendData ==
  /\ resend_data' = TRUE
  /\ UNCHANGED <<items, next_id, node, phase, elapsed, panicked>>

Service ==
  \/ \E request \in Requests, mode \in Modes : CreateMonitoredItem(request, mode)
  \/ \E i \in DOMAIN items : \/ \E request \in Requests : ModifyMonitoredItem(i, request)
                             \/ \E mode \in Modes : SetMonitoringMode(i, mode)
                             \/ \E add, remove \in SUBSET (1..MaxId) : SetTriggering(i, add, remove)
                             \/ DeleteMonitoredItem(i)
  \/ ResendData

Next ==
  /\ ~panicked
  /\ \/ TimePasses \/ TickTimerFired \/ ReceivePublishRequest \/ Service
     \/ \E value \in Values \union {NoValue} : ChangeNode(value)

Spec == Init /\ [][Next]_vars
-----------------------------------------------------------------------------
Notifications == [value : Values, overflow : BOOLEAN]
ItemType ==
  [mode : Modes, triggered : SUBSET (1..MaxId), sampling_interval : (-1)..longest_interval,
   discard_oldest : BOOLEAN, queue_size : 1..max_queue_size, queue : Seq(Notifications),
   queue_overflow : BOOLEAN, since_sample : 0..longest_interval,
   last : Values \union {NoValue}]

(* Queue sizes are revised to what the server supports. *)
TypeOK ==
  /\ DOMAIN items \subseteq 1..MaxId
  /\ items \in [DOMAIN items -> ItemType]
  /\ next_id \in 1..MaxId + 1
  /\ node \in Values \union {NoValue}
  /\ phase \in 0..tick_length - 1
  /\ elapsed \in 0..publishing_interval - 1
  /\ resend_data \in BOOLEAN /\ panicked \in BOOLEAN

(* However samples by the timer, by publish requests and by triggers follow on
   each other, and however the sizes are changed in between, no tick leaves more
   in a queue than the size that the client was told (tick_monitored_items(),
   enqueue_notification_message()). *)
TicksKeepBounds ==
  [][TickTimerFired \/ ReceivePublishRequest =>
       \A i \in DOMAIN items' : Len(items'[i].queue) <= items'[i].queue_size]_vars

(* Whichever end a full queue discards from, its last entry is the value the
   next sample is compared with: a client that reads the queue ends up with the
   latest value sampled (enqueue_notification_message()). *)
NewestIsLast ==
  \A i \in DOMAIN items :
    items[i].queue # <<>> => items[i].queue[Len(items[i].queue)].value = items[i].last

(* Notifications are not lost silently: while queue_overflow says that some
   were, one that is still to be reported carries the overflow bit, and none
   does otherwise (enqueue_notification_message(), all_notifications()). *)
OverflowIsMarked ==
  \A i \in DOMAIN items :
    items[i].queue_overflow <=>
      \E k \in DOMAIN items[i].queue : items[i].queue[k].overflow

(* Links may outlive the item they point to, but the id is never given to
   another one, so that nothing is triggered that the client did not link
   (set_triggering(), create_monitored_items()). *)
LinksStayDead ==
  \A i \in DOMAIN items : items[i].triggered \subseteq (1..next_id - 1) \ {i}

(* When the publishing interval elapses, a reporting item that is sampled with
   it, or was last sampled at least its sampling interval ago, has reported all
   that was queued before, although ticks and publish requests may have sampled
   it out of turn and the node may be gone (tick(), tick_monitored_items()). *)
DueIsReported ==
  [][elapsed = publishing_interval - 1 /\ TickTimerFired =>
       \A i \in DOMAIN items :
         /\ items[i].mode = "Reporting"
         /\ items[i].since_sample + 1 >= items[i].sampling_interval
         => items'[i].queue = <<>>]_vars
=============================================================================
