-------------------------- MODULE SubscriptionEngine --------------------------
(***************************************************************************)
(* The publishing state engine of one server subscription, as operators on *)
(* a record that holds the fields of struct Subscription                   *)
(* (server/subscriptions/subscription.rs).                                 *)
(*                                                                         *)
(* update_state() is a table: a row is chosen from the state and the       *)
(* inputs, and every row has a fixed effect on the counters and a fixed    *)
(* action for the caller.  The rows keep the numbers the code gives them   *)
(* (OPC UA Part 4, 5.13.1.2).                                              *)
(*                                                                         *)
(* What monitored items collected is one bit (was there anything to        *)
(* report?); the content of a notification is its sequence number and its  *)
(* kind.  A panic!() of the code is recorded in the field panic.           *)
(***************************************************************************)
EXTENDS TickOutcomes, Sequences

States  == {"Closed", "Creating", "Normal", "Late", "KeepAlive"}
Live    == {"Normal", "Late", "KeepAlive"}
Reasons == {"ReceivePublishRequest", "TickTimerFired"}
Kinds   == {"data_change", "keep_alive", "status_change"}
Panics  == {"none", "not_sequential", "created_got_notification",
            "expired_got_notification"}

Notification   == [seq : 1..MaxU32, kind : Kinds]
NoNotification == [seq |-> 0, kind |-> "none"]

NewSubscription(publishing_enabled, lifetime, keep_alive) ==
  [ state                  |-> "Creating",
    max_lifetime_counter   |-> lifetime,
    max_keep_alive_counter |-> keep_alive,
    lifetime_counter       |-> lifetime,
    keep_alive_counter     |-> keep_alive,
    first_message_sent     |-> FALSE,
    publishing_enabled     |-> publishing_enabled,
    resend_data            |-> FALSE,
    sequence_number        |-> 1,
    last_sequence_number   |-> 0,
    notifications          |-> <<>>,
    panic                  |-> "none" ]

ready_to_remove(s) == s.state = "Closed" /\ s.notifications = <<>>

reset_lifetime_counter(s) ==
  [s EXCEPT !.lifetime_counter = s.max_lifetime_counter]

-----------------------------------------------------------------------------
(* The rows of update_state().  p holds the inputs: the tick reason, whether
   notifications are available, whether there is more than one, whether a
   publish request is queued and whether the publishing timer expired. *)

NormalRowSendsWithoutRequest(s, p) ==
  LET received == p.reason = "ReceivePublishRequest"
      report   == s.publishing_enabled /\ p.available
  IN  IF received                                       THEN "Normal4"
      ELSE IF p.timer /\ report                         THEN "IntervalElapsed6"
      ELSE IF p.timer /\ p.req /\ ~s.first_message_sent THEN "IntervalElapsed7"
      ELSE IF p.timer /\ ~s.first_message_sent          THEN "IntervalElapsed8"
      ELSE IF p.timer                                   THEN "IntervalElapsed9"
      ELSE "None0"

NormalRow(s, p) ==
  LET received == p.reason = "ReceivePublishRequest"
      report   == s.publishing_enabled /\ p.available
      more     == s.publishing_enabled /\ p.more
  IN  IF received /\ ~more                              THEN "Normal4"
      ELSE IF received /\ more                          THEN "Normal5"
      ELSE IF p.timer /\ p.req /\ report                THEN "IntervalElapsed6"
      ELSE IF p.timer /\ p.req /\ ~s.first_message_sent /\ ~report
                                                        THEN "IntervalElapsed7"
      ELSE IF p.timer /\ ~p.req /\ (~s.first_message_sent \/ report)
                                                        THEN "IntervalElapsed8"
      ELSE IF p.timer /\ s.first_message_sent /\ ~report
                                                        THEN "IntervalElapsed9"
      ELSE "None0"

LateRow(s, p) ==
  LET received == p.reason = "ReceivePublishRequest"
      report   == s.publishing_enabled /\ (p.available \/ p.more)
  IN  IF received /\ report       THEN "Late10"
      ELSE IF received /\ ~report THEN "Late11"
      ELSE IF p.timer             THEN "Late12"
      ELSE "None0"

KeepAliveRowIgnoresRequest(s, p) ==
  LET report == s.publishing_enabled /\ p.available
  IN  IF p.reason = "ReceivePublishRequest"              THEN "KeepAlive13"
      ELSE IF p.timer /\ report /\ p.req                 THEN "KeepAlive14"
      ELSE IF p.timer /\ s.keep_alive_counter > 1 /\ ~report
                                                         THEN "KeepAlive16"
      ELSE IF p.timer                                    THEN "KeepAlive17"
      ELSE "None0"

KeepAliveRow(s, p) ==
  LET report == s.publishing_enabled /\ p.available
      last   == s.keep_alive_counter = 1
  IN  IF p.reason = "ReceivePublishRequest"             THEN "KeepAlive13"
      ELSE IF p.timer /\ report /\ p.req                THEN "KeepAlive14"
      ELSE IF p.timer /\ p.req /\ last /\ (~s.publishing_enabled \/ report)
                                                        THEN "KeepAlive15"
      ELSE IF p.timer /\ s.keep_alive_counter > 1 /\ ~report
                                                        THEN "KeepAlive16"
      ELSE IF p.timer /\ ~p.req
                /\ (last \/ (s.keep_alive_counter > 1 /\ report))
                                                        THEN "KeepAlive17"
      ELSE "None0"

HandledState(s, p) ==
  IF s.state \in Live /\ s.lifetime_counter = 1 THEN "Closed27"
  ELSE CASE s.state = "Creating"  -> "Create3"
         [] s.state = "Normal"    -> NormalRow(s, p)
         [] s.state = "Late"      -> LateRow(s, p)
         [] s.state = "KeepAlive" -> KeepAliveRow(s, p)
         [] OTHER                 -> "None0"

(* The rows that call reset_lifetime_counter(), start_publishing_timer(),
   reset_keep_alive_counter() and that set first_message_sent. *)
ResetsLifetime  == {"Normal5", "IntervalElapsed6", "IntervalElapsed7",
                    "Late10", "Late11"}
StartsTimer     == {"IntervalElapsed6", "IntervalElapsed7",
                    "IntervalElapsed8", "IntervalElapsed9", "Late12",
                    "KeepAlive15", "KeepAlive16", "KeepAlive17"}
ResetsKeepAlive == {"IntervalElapsed9", "KeepAlive15"}
SendsMessage    == {"Normal5", "IntervalElapsed6", "IntervalElapsed7",
                    "Late10", "Late11", "KeepAlive14"}

StateAfter(s, row) ==
  CASE row = "Closed27"                               -> "Closed"
    [] row \in {"Create3", "Late10", "KeepAlive14"}   -> "Normal"
    [] row \in {"IntervalElapsed8", "KeepAlive17"}    -> "Late"
    [] row \in {"IntervalElapsed9", "Late11"}         -> "KeepAlive"
    [] OTHER                                          -> s.state

LifetimeAfterLateKeepsTimer(s, row) ==
  IF row \in ResetsLifetime THEN s.max_lifetime_counter
  ELSE IF row \in StartsTimer \ {"Late12"} THEN s.lifetime_counter - 1
  ELSE s.lifetime_counter

LifetimeAfter(s, row) ==
  LET base == IF row \in ResetsLifetime THEN s.max_lifetime_counter
                                        ELSE s.lifetime_counter
  IN  IF row \in StartsTimer THEN base - 1 ELSE base

KeepAliveAfter(s, row) ==
  IF row \in ResetsKeepAlive THEN s.max_keep_alive_counter
  ELSE IF row = "KeepAlive16" THEN s.keep_alive_counter - 1
  ELSE s.keep_alive_counter

FirstMessageSentAfter(s, row) ==
  row # "Create3" /\ (row \in SendsMessage \/ s.first_message_sent)

update_state(s, row) ==
  [s EXCEPT !.state              = StateAfter(s, row),
            !.lifetime_counter   = LifetimeAfter(s, row),
            !.keep_alive_counter = KeepAliveAfter(s, row),
            !.first_message_sent = FirstMessageSentAfter(s, row)]

UpdateStateActionForgets14(row) ==
  CASE row = "Closed27" -> "SubscriptionExpired"
    [] row = "Create3"  -> "SubscriptionCreated"
    [] row \in {"Normal5", "IntervalElapsed6", "Late10"}
                        -> "ReturnNotifications"
    [] row \in {"IntervalElapsed7", "Late11", "KeepAlive15"}
                        -> "ReturnKeepAlive"
    [] OTHER            -> "None"

UpdateStateAction(row) ==
  CASE row = "Closed27" -> "SubscriptionExpired"
    [] row = "Create3"  -> "SubscriptionCreated"
    [] row \in {"Normal5", "IntervalElapsed6", "Late10", "KeepAlive14"}
                        -> "ReturnNotifications"
    [] row \in {"IntervalElapsed7", "Late11", "KeepAlive15"}
                        -> "ReturnKeepAlive"
    [] OTHER            -> "None"

-----------------------------------------------------------------------------
(* handle_state_result() and tick(). *)

enqueue_notification(s, n) ==
  IF n.seq # NextHandle(s.last_sequence_number)
  THEN [s EXCEPT !.panic = "not_sequential"]
  ELSE [s EXCEPT !.last_sequence_number = n.seq,
                 !.notifications = Append(s.notifications, n)]

(* Take the next sequence number for a message of the given kind. *)
EnqueueNew(s, kind) ==
  enqueue_notification(
    [s EXCEPT !.sequence_number = NextHandle(s.sequence_number)],
    [seq |-> s.sequence_number, kind |-> kind])

DiscardKeepsNumber(s, n) == s

(* A notification that is not sent gives its sequence number back. *)
Discard(s, n) ==
  IF n = NoNotification THEN s ELSE [s EXCEPT !.sequence_number = n.seq]

handle_state_result(s, action, n) ==
  CASE action = "ReturnKeepAlive"     -> EnqueueNew(Discard(s, n), "keep_alive")
    [] action = "ReturnNotifications" ->
         IF n = NoNotification THEN s ELSE enqueue_notification(s, n)
    [] action = "SubscriptionCreated" ->
         IF n = NoNotification THEN s
         ELSE [s EXCEPT !.panic = "created_got_notification"]
    [] action = "SubscriptionExpired" ->
         IF n = NoNotification THEN EnqueueNew(s, "status_change")
         ELSE [s EXCEPT !.panic = "expired_got_notification"]
    [] OTHER                          -> Discard(s, n)

(* publishing_interval_elapsed: only looked at on the tick timer. *)
IntervalElapsed(s, reason, elapsed) ==
  reason = "TickTimerFired" /\ (s.state = "Creating" \/ elapsed)

(* tick_monitored_items() reports something only when the interval elapsed,
   and is not called at all while Closed or Creating. *)
Collects(s, reason, elapsed) ==
  s.state \in Live /\ IntervalElapsed(s, reason, elapsed)

(* The inputs of update_state() that a tick computes.  collected says whether
   the monitored items had something to report. *)
Params(s, reason, elapsed, collected, req) ==
  [ reason    |-> reason,
    timer     |-> IntervalElapsed(s, reason, elapsed),
    available |-> s.notifications # <<>>
                    \/ (collected /\ Collects(s, reason, elapsed)),
    more      |-> Len(s.notifications) > 1,
    req       |-> req ]

(* The row a tick takes; None0 also when update_state() is not called. *)
TickRow(s, reason, elapsed, collected, req) ==
  LET p == Params(s, reason, elapsed, collected, req)
  IN  IF p.available \/ p.timer \/ p.req THEN HandledState(s, p) ELSE "None0"

(* What tick_monitored_items() hands over, numbered with the next sequence
   number. *)
Collected(s, reason, elapsed, collected) ==
  IF collected /\ Collects(s, reason, elapsed)
  THEN [seq |-> s.sequence_number, kind |-> "data_change"]
  ELSE NoNotification

(* tick() when update_state() takes the given row and the monitored items
   handed over n. *)
TickWith(s, row, n) ==
  handle_state_result(
    update_state([s EXCEPT !.resend_data = FALSE,
                           !.sequence_number = IF n = NoNotification THEN @
                                               ELSE NextHandle(@)], row),
    UpdateStateAction(row), n)

(* The outcome of tick(), as a set with one element. *)
tick(s, reason, elapsed, collected, req) ==
  {TickWith(s, row, Collected(s, reason, elapsed, collected)) :
     row \in {TickRow(s, reason, elapsed, collected, req)}}
=============================================================================
