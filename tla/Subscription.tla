----------------------------- MODULE Subscription -----------------------------
(***************************************************************************)
(* One subscription of a session together with the publish requests that   *)
(* wait for it: the session's task that ticks it on a timer, the client's  *)
(* publish requests and the services that touch it.                        *)
(*                                                                         *)
(* Everything here runs under the session's write lock, so each handler is *)
(* one step.  The publish request queue is its length: with a single       *)
(* subscription nothing tells two requests apart.  Clocks only go forward  *)
(* here, and no client's clock is ahead of the server's: what becomes of   *)
(* the timer otherwise is TimerPanics of module Subscriptions.             *)
(***************************************************************************)
EXTENDS SubscriptionEngine, Integers

CONSTANTS MaxKeepAliveCount,      \* ServerState::max_keep_alive_count
          DefaultKeepAliveCount,  \* ServerState::default_keep_alive_count
          MaxLifetimeCount,       \* ServerState::max_lifetime_count
          RequestedKeepAlive,     \* the keep alive counts clients ask for
          RequestedLifetime       \* the lifetime counts clients ask for

ASSUME CountsAssumption ==
  /\ MaxKeepAliveCount \in Nat
  /\ DefaultKeepAliveCount \in 1..MaxKeepAliveCount
  /\ MaxLifetimeCount = 3 * MaxKeepAliveCount
  /\ RequestedKeepAlive \subseteq Nat
  /\ RequestedLifetime \subseteq Nat

VARIABLES
  sub,       \* the Subscription
  present,   \* it is still in Subscriptions::subscriptions
  pending,   \* a monitored item holds a change that was not collected yet
  queue,     \* length of Subscriptions::publish_request_queue
  gone       \* the client has disappeared: no more requests from it

vars == <<sub, present, pending, queue, gone>>

-----------------------------------------------------------------------------
(* revise_subscription_values() *)
RevisedKeepAlive(requested) ==
  IF requested > MaxKeepAliveCount THEN MaxKeepAliveCount
  ELSE IF requested = 0 THEN DefaultKeepAliveCount
  ELSE requested

RevisedLifetime(requested, keep_alive) ==
  IF requested < 3 * keep_alive THEN 3 * keep_alive
  ELSE IF requested > MaxLifetimeCount THEN MaxLifetimeCount
  ELSE requested

Alive == present /\ sub.panic = "none"

(* Items that hold a change report it when their own sampling interval is due,
   which need not be at this tick; resend_data makes each of them report. *)
MayCollect == IF pending \/ sub.resend_data THEN BOOLEAN ELSE {FALSE}

(* Subscriptions::tick() on the subscription s with q publish requests queued:
   tick it, pair its notifications with requests, remove it if it is done.  A
   panic leaves everything where it was.  The result of a call is a set with
   one element. *)
Session(s, q, there) == [sub |-> s, queue |-> q, present |-> there]

Paired(ticked, q) ==
  LET n      == Len(ticked.notifications)
      paired == IF n < q THEN n ELSE q
      left   == [ticked EXCEPT !.notifications =
                   SubSeq(ticked.notifications, paired + 1, n)]
  IN  IF ticked.panic # "none" THEN Session(ticked, q, TRUE)
      ELSE Session(left, q - paired, ~ready_to_remove(left))

SubscriptionsTick(s, q, reason, elapsed, collected) ==
  {Paired(ticked, q) : ticked \in tick(s, reason, elapsed, collected, q > 0)}

(* enqueue_publish_request(): a full queue is ticked first, in the hope that
   this uses up a request; then the request is refused or queued.  The limit
   is the one computed on entry. *)
MaxPublishRequests == 2

ReceivePublishRequest(s, q) ==
  SubscriptionsTick(s, q, "ReceivePublishRequest", FALSE, FALSE)

MakeRoom(s, q) ==
  IF q >= MaxPublishRequests THEN ReceivePublishRequest(s, q)
                             ELSE {Session(s, q, TRUE)}

EnqueueSkipsClosed(room) ==
  IF room.sub.panic # "none" \/ room.queue >= MaxPublishRequests THEN {room}
  ELSE IF ~room.present \/ room.sub.state = "Closed"
  THEN {Session(room.sub, room.queue + 1, room.present)}
  ELSE ReceivePublishRequest(room.sub, room.queue + 1)

Enqueue(room) ==
  IF room.sub.panic # "none" \/ room.queue >= MaxPublishRequests THEN {room}
  ELSE IF ~room.present THEN {Session(room.sub, room.queue + 1, FALSE)}
  ELSE ReceivePublishRequest(room.sub, room.queue + 1)

Become(session) ==
  /\ sub' = session.sub
  /\ queue' = session.queue
  /\ present' = session.present

Init ==
  /\ \E enabled \in BOOLEAN, k \in RequestedKeepAlive, l \in RequestedLifetime :
       LET keep_alive == RevisedKeepAlive(k)
       IN  sub = NewSubscription(enabled, RevisedLifetime(l, keep_alive),
                                 keep_alive)
  /\ present = TRUE
  /\ pending = FALSE
  /\ queue = 0
  /\ gone = FALSE

(* A monitored node changes, and an item of the subscription samples it. *)
DataChange ==
  /\ Alive
  /\ sub.state \in Live
  /\ pending' = TRUE
  /\ UNCHANGED <<sub, present, queue, gone>>

(* resend_data puts the latest value of every item on its queue. *)
PendingAfterResend == pending \/ (sub.resend_data /\ sub.state \in Live)

(* One turn of the loop of spawn_subscriptions_task: drop the publish requests
   that timed out, tick, pair. *)
TimerTick(elapsed, expired) ==
  /\ Alive
  /\ \E collected \in MayCollect, held \in BOOLEAN :
       /\ \E session \in SubscriptionsTick(sub, queue - expired,
                            "TickTimerFired", elapsed, collected) :
            Become(session)
       /\ pending' = /\ PendingAfterResend
                     /\ sub'.state # "Closed"
                     /\ collected /\ Collects(sub, "TickTimerFired", elapsed)
                          => held /\ ~sub.resend_data
  /\ UNCHANGED gone

(* async_publish() and enqueue_publish_request() *)
PublishRequest ==
  /\ Alive /\ ~gone
  /\ \E room \in MakeRoom(sub, queue) :
       \E session \in Enqueue(room) : Become(session)
  /\ pending' = (PendingAfterResend /\ sub'.state # "Closed")
  /\ UNCHANGED gone

(* A service of the client that refers to the subscription: SetPublishingMode,
   ModifySubscription, and every service that only resets the lifetime counter
   (monitored item services, Republish). *)
ClientService(s) ==
  /\ Alive /\ ~gone
  /\ sub' = s
  /\ UNCHANGED <<present, pending, queue, gone>>

SetPublishingMode(enabled) ==
  ClientService(reset_lifetime_counter(
                  [sub EXCEPT !.publishing_enabled = enabled]))

ModifyKeepsCounters(k, l) ==
  LET keep_alive == RevisedKeepAlive(k)
  IN  ClientService([sub EXCEPT
        !.max_keep_alive_counter = keep_alive,
        !.max_lifetime_counter   = RevisedLifetime(l, keep_alive)])

ModifySubscription(k, l) ==
  LET keep_alive == RevisedKeepAlive(k)
      lifetime   == RevisedLifetime(l, keep_alive)
  IN  ClientService([sub EXCEPT !.max_keep_alive_counter = keep_alive,
                                !.max_lifetime_counter   = lifetime,
                                !.keep_alive_counter     = keep_alive,
                                !.lifetime_counter       = lifetime])

TouchSubscription == ClientService(reset_lifetime_counter(sub))

SetResendData == ClientService([sub EXCEPT !.resend_data = TRUE])

DeleteSubscription ==
  /\ Alive /\ ~gone
  /\ present' = FALSE
  /\ UNCHANGED <<sub, pending, queue, gone>>

ClientGone ==
  /\ Alive /\ ~gone
  /\ gone' = TRUE
  /\ UNCHANGED <<sub, present, pending, queue>>

(* The subscription is no longer there, or its task has panicked. *)
Finished ==
  /\ ~Alive
  /\ UNCHANGED vars

Next ==
  \/ DataChange
  \/ \E elapsed \in BOOLEAN, expired \in 0..queue : TimerTick(elapsed, expired)
  \/ PublishRequest
  \/ \E enabled \in BOOLEAN : SetPublishingMode(enabled)
  \/ \E k \in RequestedKeepAlive, l \in RequestedLifetime :
       ModifySubscription(k, l)
  \/ TouchSubscription
  \/ SetResendData
  \/ DeleteSubscription
  \/ ClientGone
  \/ Finished

Spec == Init /\ [][Next]_vars

(* The timer keeps firing, the publishing interval elapses again and again, and
   a publish request that is never answered times out. *)
Fairness ==
  /\ WF_vars(\E expired \in 0..queue : TimerTick(TRUE, expired))
  /\ WF_vars(\E elapsed \in BOOLEAN : TimerTick(elapsed, queue))

FairSpec == Spec /\ Fairness

(* The same with a client that, until it is gone, answers every publish
   response with a new request. *)
PublishingClient == WF_vars(queue = 0 /\ PublishRequest)

PublishingSpec == FairSpec /\ PublishingClient

-----------------------------------------------------------------------------
SubscriptionRecord ==
  [ state : States,
    max_lifetime_counter : 3..MaxLifetimeCount,
    max_keep_alive_counter : 1..MaxKeepAliveCount,
    lifetime_counter : 1..MaxLifetimeCount,
    keep_alive_counter : 1..MaxKeepAliveCount,
    first_message_sent : BOOLEAN,
    publishing_enabled : BOOLEAN,
    resend_data : BOOLEAN,
    sequence_number : 1..MaxU32,
    last_sequence_number : 0..MaxU32,
    notifications : Seq(Notification),
    panic : Panics ]

(* Types.  The ranges of the two counters say that the unsigned decrements in
   start_publishing_timer() and in row 16 never go below one, so that the
   tests for 1 in update_state() are the only way a counter ends. *)
TypeOK ==
  /\ sub \in SubscriptionRecord
  /\ present \in BOOLEAN
  /\ pending \in BOOLEAN
  /\ queue \in 0..MaxPublishRequests
  /\ gone \in BOOLEAN

(* The sanity check of enqueue_notification() never fails: although a sequence
   number is taken before it is known whether the notification will be sent,
   and is given back when it is not, the next number is always the successor
   of the last one that was sent. *)
SequenceIsContiguous ==
  /\ sub.panic # "not_sequential"
  /\ sub.panic = "none" =>
       sub.sequence_number = NextHandle(sub.last_sequence_number)

(* A subscription is late only while no publish request waits: a request that
   arrives is always used by a late subscription, and a subscription with a
   request never becomes late. *)
LateMeansStarved ==
  present /\ sub.panic = "none" /\ sub.state = "Late" => queue = 0

(* Between ticks a subscription holds no notification, except the final status
   change of a closed one that found no publish request to carry it. *)
OnlyFarewellWaits ==
  sub.notifications # <<>> =>
    /\ sub.state = "Closed"
    /\ queue = 0
    /\ sub.notifications = <<[seq |-> sub.last_sequence_number,
                              kind |-> "status_change"]>>

(* The counters never exceed what the client was promised. *)
CountersWithinLimits ==
  /\ sub.lifetime_counter <= sub.max_lifetime_counter
  /\ sub.keep_alive_counter <= sub.max_keep_alive_counter
  /\ 3 * sub.max_keep_alive_counter <= sub.max_lifetime_counter

(* What the publish queues see of a tick that found q requests is one of the
   outcomes of module TickOutcomes, on which module Subscriptions is built. *)
Phase(s, there) == IF ~there THEN "removed"
                   ELSE IF s.state = "Closed" THEN "closed" ELSE "live"

IsOutcome(s, q, after) ==
  after.sub.panic = "none" => \E outcome \in Outcomes(Phase(s, TRUE)) :
    LET req    == q > 0
        speaks == Speaks(outcome, req)
        closes == Closes(Phase(s, TRUE), outcome)
    IN  /\ after.sub.last_sequence_number =
             LastAfter(s.last_sequence_number, speaks)
        /\ after.queue = IF req /\ (speaks \/ closes) THEN q - 1 ELSE q
        /\ Phase(after.sub, after.present) =
             PhaseAfter(Phase(s, TRUE), closes, req)

(* Every tick of the state engine that does not panic, by the timer after
   requests have expired or by a publish request with its two ticks, uses up at
   most one request, and with it at most one sequence number; a subscription
   that is closed without a request waits for the next one, and leaves with it. *)
TicksAreOutcomes ==
  Alive =>
    /\ \A q \in 0..queue, elapsed \in BOOLEAN, collected \in MayCollect :
         \A after \in SubscriptionsTick(sub, q, "TickTimerFired", elapsed,
                                      collected) :
           IsOutcome(sub, q, after)
    /\ queue >= MaxPublishRequests =>
         \A room \in ReceivePublishRequest(sub, queue) :
           IsOutcome(sub, queue, room)
    /\ \A room \in MakeRoom(sub, queue) :
         (room.present /\ room.sub.panic = "none"
            /\ room.queue < MaxPublishRequests) =>
           \A after \in ReceivePublishRequest(room.sub, room.queue + 1) :
             IsOutcome(room.sub, room.queue + 1, after)

(* Data that was collected while a publish request waits and publishing is
   enabled is never thrown away: the step assigns it a sequence number. *)
ServableDataIsSent ==
  [][ \A expired \in 0..queue :
        /\ TimerTick(TRUE, expired)
        /\ pending /\ ~pending' /\ queue > expired
        /\ sub.publishing_enabled /\ sub'.panic = "none"
        => /\ sub'.last_sequence_number # sub.last_sequence_number
           /\ queue' = queue - expired - 1 ]_vars

(* A client that disappears does not leave a subscription behind. *)
AbandonedIsClosed == gone ~> ~Alive \/ sub.state = "Closed"

(* What the comment on keep_alive_counter says: "when it expires requests to
   send an empty notification as a keep alive event".  So the counter of a
   subscription in the KeepAlive state does not stay expired forever without
   a message, with publishing enabled and a client that keeps sending publish
   requests. *)
KeepAliveIsSent ==
  \A n \in 1..MaxU32 :
    ~<>[](/\ Alive /\ ~gone
          /\ sub.state = "KeepAlive" /\ sub.publishing_enabled
          /\ sub.keep_alive_counter = 1
          /\ sub.sequence_number = n)
=============================================================================
