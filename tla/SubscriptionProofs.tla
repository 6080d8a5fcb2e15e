-------------------------- MODULE SubscriptionProofs --------------------------
(***************************************************************************)
(* Proofs of the safety invariants of Subscription for every limit, every  *)
(* requested count and every width of the sequence numbers.                *)
(*                                                                         *)
(* The argument: Sound(s, q, there) is a property of what one call of      *)
(* Subscriptions::tick() is given and returns, so one lemma about such a   *)
(* call (TickIsSound) covers the timer and both calls that a publish       *)
(* request can cause.                                                      *)
(***************************************************************************)
EXTENDS Subscription, TLAPS

Counters(s) ==
  /\ s.lifetime_counter <= s.max_lifetime_counter
  /\ s.keep_alive_counter <= s.max_keep_alive_counter
  /\ 3 * s.max_keep_alive_counter <= s.max_lifetime_counter

Expired(s) == s.state = "Closed" /\ s.lifetime_counter = 1

Contiguous(s) ==
  /\ s.panic = "none" =>
       s.sequence_number = NextHandle(s.last_sequence_number)
  /\ s.panic # "none" => s.panic = "expired_got_notification" /\ Expired(s)

Farewell(s) == <<[seq |-> s.last_sequence_number, kind |-> "status_change"]>>

Sound(s, q, there) ==
  /\ s \in SubscriptionRecord
  /\ q \in 0..MaxPublishRequests
  /\ there \in BOOLEAN
  /\ Counters(s)
  /\ Contiguous(s)
  /\ there /\ s.panic = "none" /\ s.state = "Late" => q = 0
  /\ s.notifications # <<>> =>
       s.state = "Closed" /\ q = 0 /\ s.notifications = Farewell(s)
  /\ there /\ s.panic = "none" /\ s.state = "Closed" => s.notifications # <<>>

Inv ==
  /\ Sound(sub, queue, present)
  /\ pending \in BOOLEAN
  /\ gone \in BOOLEAN

(* What update_state() needs to know about the row it takes, and what the
   caller needs to know about the message that the row asks for. *)
RowFits(s, row, req) ==
  /\ row \in StartsTimer => s.lifetime_counter > 1
  /\ row = "KeepAlive16" => s.keep_alive_counter > 1
  /\ row = "Closed27" => s.state \in Live /\ s.lifetime_counter = 1
  /\ row = "Create3" => s.state = "Creating"
  /\ row \in SendsMessage \cup {"KeepAlive15"} => req
  /\ row \in {"IntervalElapsed8", "Late12", "KeepAlive17"} => ~req
  /\ s.state = "Late" /\ req => row \in {"Closed27", "Late10", "Late11"}
  /\ s.state = "Closed" => row = "None0"

-----------------------------------------------------------------------------
(* revise_subscription_values() grants counts within the server's limits, and
   a lifetime of at least three keep alive periods. *)
LEMMA RevisedValues ==
  ASSUME NEW k \in RequestedKeepAlive, NEW l \in RequestedLifetime
  PROVE  /\ RevisedKeepAlive(k) \in 1..MaxKeepAliveCount
         /\ RevisedLifetime(l, RevisedKeepAlive(k)) \in 3..MaxLifetimeCount
         /\ 3 * RevisedKeepAlive(k) <= RevisedLifetime(l, RevisedKeepAlive(k))
<1>1. k \in Nat /\ l \in Nat
  BY CountsAssumption
<1>2. RevisedKeepAlive(k) \in 1..MaxKeepAliveCount
  BY <1>1, CountsAssumption DEF RevisedKeepAlive
<1> QED
  BY <1>1, <1>2, CountsAssumption DEF RevisedLifetime

(* The table of update_state(): the row that a tick takes fits the state. *)
LEMMA RowOfTick ==
  ASSUME NEW s \in SubscriptionRecord,
         NEW reason \in Reasons, NEW elapsed \in BOOLEAN,
         NEW collected \in BOOLEAN, NEW req \in BOOLEAN,
         reason = "ReceivePublishRequest" => req,
         s.state = "Late" /\ reason = "TickTimerFired" => ~req,
         s.notifications # <<>> => s.state = "Closed"
  PROVE  RowFits(s, TickRow(s, reason, elapsed, collected, req), req)
<1> DEFINE p   == Params(s, reason, elapsed, collected, req)
           row == TickRow(s, reason, elapsed, collected, req)
<1>1. /\ p.reason = reason
      /\ p.req = req
      /\ p.timer = IntervalElapsed(s, reason, elapsed)
      /\ p.more = (Len(s.notifications) > 1)
  BY DEF Params
<1>2. row = HandledState(s, p) \/ (row = "None0" /\ ~req)
  BY <1>1 DEF TickRow
<1> SUFFICES RowFits(s, row, req)
  OBVIOUS
<1> HIDE DEF p, row
<1>3. reason = "ReceivePublishRequest" => ~p.timer
  BY <1>1, Zenon DEF IntervalElapsed
<1>4. s.notifications = <<>> => ~(Len(s.notifications) > 1)
  OBVIOUS
<1>5. s.state \notin {"Closed"} => ~p.more
  BY <1>1, <1>4, Zenon
<1>6. /\ s.state \in States
      /\ s.lifetime_counter \in Nat \ {0} /\ s.keep_alive_counter \in Nat \ {0}
  BY CountsAssumption DEF SubscriptionRecord
<1> USE DEF RowFits, StartsTimer, SendsMessage
<1>7. CASE row = "None0" /\ (s.state = "Closed" \/ ~req)
  BY <1>7, <1>6
<1>8. CASE row = "Closed27" /\ s.state \in Live /\ s.lifetime_counter = 1
  BY <1>8 DEF Live
<1>9. CASE s.state = "Normal" /\ row = NormalRow(s, p) /\ s.lifetime_counter # 1
  BY <1>1, <1>3, <1>5, <1>6, <1>9 DEF NormalRow, Reasons
<1>10. CASE s.state = "Late" /\ row = LateRow(s, p) /\ s.lifetime_counter # 1
  BY <1>1, <1>3, <1>5, <1>6, <1>10 DEF LateRow, Reasons
<1>11. CASE s.state = "KeepAlive" /\ row = KeepAliveRow(s, p)
            /\ s.lifetime_counter # 1
  BY <1>1, <1>3, <1>5, <1>6, <1>11 DEF KeepAliveRow, Reasons
<1>12. CASE s.state = "Creating" /\ row = "Create3"
  BY <1>12
<1> QED
  BY <1>2, <1>6, <1>7, <1>8, <1>9, <1>10, <1>11, <1>12
     DEF HandledState, States, Live

(* update_state() keeps the counters within their limits and does not touch
   the numbering. *)
LEMMA UpdateStateIsTyped ==
  ASSUME NEW s \in SubscriptionRecord, Counters(s),
         NEW row, NEW req \in BOOLEAN, RowFits(s, row, req)
  PROVE  LET u == update_state(s, row)
         IN  /\ u \in SubscriptionRecord
             /\ Counters(u)
             /\ u.state = StateAfter(s, row) /\ u.lifetime_counter = LifetimeAfter(s, row)
             /\ u.sequence_number = s.sequence_number
             /\ u.last_sequence_number = s.last_sequence_number
             /\ u.notifications = s.notifications
             /\ u.panic = s.panic
<1> DEFINE u == update_state(s, row)
<1>1. StateAfter(s, row) \in States
  BY DEF StateAfter, States, SubscriptionRecord
<1>2. /\ LifetimeAfter(s, row) \in 1..MaxLifetimeCount
      /\ LifetimeAfter(s, row) <= s.max_lifetime_counter
  <2>1. /\ s.lifetime_counter \in 1..MaxLifetimeCount
        /\ s.max_lifetime_counter \in 3..MaxLifetimeCount
        /\ s.lifetime_counter <= s.max_lifetime_counter
        /\ row \in StartsTimer => s.lifetime_counter > 1
    BY Zenon DEF RowFits, Counters, SubscriptionRecord
  <2>2. MaxLifetimeCount \in Nat
    BY CountsAssumption
  <2> QED
    BY <2>1, <2>2 DEF LifetimeAfter
<1>3. /\ KeepAliveAfter(s, row) \in 1..MaxKeepAliveCount
      /\ KeepAliveAfter(s, row) <= s.max_keep_alive_counter
  BY CountsAssumption DEF KeepAliveAfter, RowFits, Counters, SubscriptionRecord
<1>4. FirstMessageSentAfter(s, row) \in BOOLEAN
  BY DEF FirstMessageSentAfter
<1>5. u \in SubscriptionRecord
  BY <1>1, <1>2, <1>3, <1>4, Zenon DEF update_state, SubscriptionRecord
<1>6. Counters(u)
  BY <1>2, <1>3 DEF update_state, SubscriptionRecord, Counters
<1> QED
  BY <1>5, <1>6 DEF update_state, SubscriptionRecord

(* NextHandle() stays within the sequence numbers. *)
LEMMA NextHandleType ==
  ASSUME NEW n \in 0..MaxU32
  PROVE  NextHandle(n) \in 1..MaxU32
BY MaxU32Assumption DEF NextHandle

(* enqueue_notification() of the expected number appends it. *)
LEMMA EnqueueIsTyped ==
  ASSUME NEW s \in SubscriptionRecord, NEW n \in Notification,
         s.notifications = <<>>,
         n.seq = NextHandle(s.last_sequence_number),
         s.sequence_number = NextHandle(n.seq)
  PROVE  LET e == enqueue_notification(s, n)
         IN  /\ e \in SubscriptionRecord
             /\ e = [s EXCEPT !.last_sequence_number = n.seq,
                              !.notifications = <<n>>]
             /\ s.panic = "none" => Contiguous(e)
<1>1. enqueue_notification(s, n) = [s EXCEPT !.last_sequence_number = n.seq,
                                             !.notifications = <<n>>]
  BY DEF enqueue_notification
<1>2. <<n>> \in Seq(Notification)
  OBVIOUS
<1>3. n.seq \in 0..MaxU32
  BY DEF Notification
<1> QED
  BY <1>1, <1>2, <1>3, Zenon DEF SubscriptionRecord, Contiguous

(* What handle_state_result() leaves behind, in terms of what it was given. *)
Handled(u, t, action, req) ==
  /\ t \in SubscriptionRecord
  /\ Counters(t)
  /\ Contiguous(t)
  /\ t.state = u.state
  /\ t.panic # "none" => t.notifications = <<>>
  /\ \/ /\ t.notifications = u.notifications
        /\ t.last_sequence_number = u.last_sequence_number
        /\ t.panic = "none" => action # "SubscriptionExpired"
     \/ /\ t.notifications = <<[seq |-> t.last_sequence_number,
                                kind |-> "status_change"]>>
        /\ t.last_sequence_number = NextHandle(u.last_sequence_number)
        /\ t.state = "Closed" /\ t.panic = "none"
        /\ action = "SubscriptionExpired"
     \/ /\ req /\ t.panic = "none" /\ Len(t.notifications) = 1
        /\ t.last_sequence_number = NextHandle(u.last_sequence_number)
        /\ action \in {"ReturnNotifications", "ReturnKeepAlive"}

(* A message that takes the next sequence number when it is sent. *)
LEMMA EnqueueNewIsTyped ==
  ASSUME NEW s \in SubscriptionRecord, NEW kind \in Kinds,
         s.notifications = <<>>, s.panic = "none",
         s.sequence_number = NextHandle(s.last_sequence_number)
  PROVE  LET e == EnqueueNew(s, kind)
         IN  /\ e \in SubscriptionRecord
             /\ Contiguous(e)
             /\ e = [s EXCEPT
                       !.sequence_number = NextHandle(s.sequence_number),
                       !.last_sequence_number = s.sequence_number,
                       !.notifications = <<[seq  |-> s.sequence_number,
                                            kind |-> kind]>>]
<1> DEFINE n == [seq |-> s.sequence_number, kind |-> kind]
           b == [s EXCEPT !.sequence_number = NextHandle(s.sequence_number)]
<1>1. s.sequence_number \in 1..MaxU32
  BY DEF SubscriptionRecord
<1>2. n \in Notification
  BY <1>1 DEF Notification
<1>3. NextHandle(s.sequence_number) \in 1..MaxU32
  BY <1>1, NextHandleType
<1>4. /\ b \in SubscriptionRecord
      /\ b.notifications = <<>>
      /\ b.last_sequence_number = s.last_sequence_number
      /\ b.sequence_number = NextHandle(n.seq)
      /\ b.panic = "none"
  BY <1>3, Zenon DEF SubscriptionRecord
<1> HIDE DEF b, n
<1>5. n.seq = NextHandle(b.last_sequence_number)
  BY <1>4 DEF n
<1>6. /\ enqueue_notification(b, n) \in SubscriptionRecord
      /\ Contiguous(enqueue_notification(b, n))
      /\ enqueue_notification(b, n) = [b EXCEPT !.last_sequence_number = n.seq,
                                                !.notifications = <<n>>]
  BY <1>2, <1>4, <1>5, EnqueueIsTyped, Zenon
<1>7. EnqueueNew(s, kind) = enqueue_notification(b, n)
  BY DEF EnqueueNew, b, n
<1> QED
  BY <1>6, <1>7 DEF b, n, SubscriptionRecord

(* The sequence number that a tick took for what the items handed over. *)
Numbered(u, n) ==
  \/ /\ n = NoNotification
     /\ u.sequence_number = NextHandle(u.last_sequence_number)
  \/ /\ n = [seq  |-> NextHandle(u.last_sequence_number),
             kind |-> "data_change"]
     /\ u.sequence_number = NextHandle(n.seq)

(* handle_state_result() keeps the numbering contiguous whatever it does with
   the notification: sends it, gives its number back, or panics. *)
LEMMA HandleStateResult ==
  ASSUME NEW u \in SubscriptionRecord, Counters(u), u.panic = "none",
         NEW n, Numbered(u, n), NEW action, NEW req \in BOOLEAN,
         action \in {"ReturnNotifications", "ReturnKeepAlive"} => req,
         action = "SubscriptionExpired" => Expired(u),
         action = "SubscriptionCreated" => n = NoNotification,
         action # "None" => u.notifications = <<>>,
         action \in {"ReturnNotifications", "ReturnKeepAlive", "None",
                     "SubscriptionCreated", "SubscriptionExpired"}
  PROVE  Handled(u, handle_state_result(u, action, n), action, req)
<1> DEFINE t == handle_state_result(u, action, n)
           d == Discard(u, n)
<1>1. u.last_sequence_number \in 0..MaxU32
  BY DEF SubscriptionRecord
<1>2. NextHandle(u.last_sequence_number) \in 1..MaxU32
  BY <1>1, NextHandleType
<1>3. n # NoNotification =>
        /\ n \in Notification
        /\ n.seq = NextHandle(u.last_sequence_number)
        /\ u.sequence_number = NextHandle(n.seq)
  BY <1>2 DEF Numbered, Notification, Kinds
<1>4. n = NoNotification => u.sequence_number = NextHandle(u.last_sequence_number)
  BY <1>2, MaxU32Assumption DEF Numbered, NoNotification
<1>5. /\ d \in SubscriptionRecord
      /\ d.sequence_number = NextHandle(d.last_sequence_number)
      /\ d.state = u.state /\ d.notifications = u.notifications
      /\ d.last_sequence_number = u.last_sequence_number
      /\ d.panic = "none" /\ Counters(d)
  BY <1>2, <1>3, <1>4, Zenon DEF Discard, SubscriptionRecord, Counters
<1> HIDE DEF d
<1>6. CASE action = "None"
  <2>1. t = d
    BY <1>6 DEF handle_state_result, d
  <2> QED
    BY <2>1, <1>5, <1>6 DEF Handled, Contiguous
<1>7. CASE action = "ReturnKeepAlive"
  <2>1. t = EnqueueNew(d, "keep_alive")
    BY <1>7 DEF handle_state_result, d
  <2>2. /\ t \in SubscriptionRecord
        /\ Contiguous(t)
        /\ t = [d EXCEPT !.sequence_number = NextHandle(d.sequence_number),
                         !.last_sequence_number = d.sequence_number,
                         !.notifications = <<[seq  |-> d.sequence_number,
                                              kind |-> "keep_alive"]>>]
    BY <2>1, <1>5, <1>7, EnqueueNewIsTyped, Zenon DEF Kinds
  <2> HIDE DEF t
  <2>3. /\ t.state = d.state /\ t.panic = d.panic
        /\ t.last_sequence_number = NextHandle(u.last_sequence_number)
        /\ Len(t.notifications) = 1
        /\ Counters(t)
    BY <2>2, <1>5 DEF Counters, SubscriptionRecord
  <2> QED
    BY <2>2, <2>3, <1>5, <1>7 DEF Handled, t
<1>8. CASE action = "ReturnNotifications" /\ n # NoNotification
  <2>1. t = enqueue_notification(u, n)
    BY <1>8, Zenon DEF handle_state_result
  <2>2. /\ t \in SubscriptionRecord
        /\ Contiguous(t)
        /\ t = [u EXCEPT !.last_sequence_number = n.seq,
                         !.notifications = <<n>>]
    BY <2>1, <1>3, <1>8, EnqueueIsTyped, Zenon
  <2> HIDE DEF t
  <2>3. /\ t.state = u.state /\ t.panic = u.panic
        /\ t.last_sequence_number = n.seq
        /\ Len(t.notifications) = 1
        /\ Counters(t)
    BY <2>2 DEF Counters, SubscriptionRecord
  <2> QED
    BY <2>2, <2>3, <1>3, <1>8 DEF Handled, t
<1>9. CASE action = "SubscriptionExpired" /\ n = NoNotification
  <2>1. t = EnqueueNew(u, "status_change")
    BY <1>9, Zenon DEF handle_state_result
  <2>2. /\ t \in SubscriptionRecord
        /\ Contiguous(t)
        /\ t = [u EXCEPT !.sequence_number = NextHandle(u.sequence_number),
                         !.last_sequence_number = u.sequence_number,
                         !.notifications = <<[seq  |-> u.sequence_number,
                                              kind |-> "status_change"]>>]
    BY <2>1, <1>4, <1>9, EnqueueNewIsTyped, Zenon DEF Kinds
  <2> HIDE DEF t
  <2>3. /\ t.state = u.state /\ t.panic = u.panic
        /\ t.last_sequence_number = u.sequence_number
        /\ t.notifications = <<[seq  |-> t.last_sequence_number,
                                kind |-> "status_change"]>>
        /\ Counters(t)
    BY <2>2 DEF Counters, SubscriptionRecord
  <2> QED
    BY <2>2, <2>3, <1>4, <1>9 DEF Handled, Expired, t
<1>10. CASE action \in {"ReturnNotifications", "SubscriptionCreated"}
            /\ n = NoNotification
  <2>1. t = u
    BY <1>10 DEF handle_state_result
  <2> HIDE DEF t
  <2> QED
    BY <2>1, <1>4, <1>10 DEF Handled, Contiguous, t
<1>11. CASE action = "SubscriptionExpired" /\ n # NoNotification
  <2>1. t = [u EXCEPT !.panic = "expired_got_notification"]
    BY <1>11 DEF handle_state_result
  <2>2. Expired(t)
    BY <2>1, <1>11 DEF Expired, SubscriptionRecord
  <2> QED
    BY <2>1, <2>2, <1>11, Zenon DEF Handled, Contiguous, Counters, SubscriptionRecord, Panics
<1> QED
  BY <1>6, <1>7, <1>8, <1>9, <1>10, <1>11

(* tick() of a subscription: what it leaves behind is described by Handled,
   and it is late only when no publish request was queued. *)
LEMMA TickIsHandled ==
  ASSUME NEW s \in SubscriptionRecord, Counters(s), Contiguous(s),
         s.panic = "none",
         s.notifications # <<>> => s.state = "Closed",
         NEW reason \in Reasons, NEW elapsed \in BOOLEAN,
         NEW collected \in BOOLEAN, NEW req \in BOOLEAN,
         reason = "ReceivePublishRequest" => req,
         s.state = "Late" /\ reason = "TickTimerFired" => ~req,
         NEW t \in tick(s, reason, elapsed, collected, req)
  PROVE  /\ t \in SubscriptionRecord /\ Counters(t) /\ Contiguous(t)
         /\ t.panic # "none" => t.notifications = <<>>
         /\ t.state = "Late" => ~req
         /\ \/ /\ t.notifications = s.notifications
               /\ t.last_sequence_number = s.last_sequence_number
               /\ s.state = "Closed" => t.state = "Closed"
               /\ t.panic = "none" /\ t.state = "Closed" => s.state = "Closed"
            \/ /\ t.notifications = Farewell(t)
               /\ t.last_sequence_number = NextHandle(s.last_sequence_number)
               /\ s.state # "Closed" /\ t.state = "Closed" /\ t.panic = "none"
            \/ /\ req /\ t.panic = "none" /\ Len(t.notifications) = 1
               /\ t.last_sequence_number = NextHandle(s.last_sequence_number)
               /\ s.state # "Closed" /\ t.state # "Closed"
<1> DEFINE row == TickRow(s, reason, elapsed, collected, req)
           n   == Collected(s, reason, elapsed, collected)
           b   == [s EXCEPT !.resend_data = FALSE,
                            !.sequence_number = IF n = NoNotification THEN @
                                                ELSE NextHandle(@)]
           u   == update_state(b, row)
<1>1. t = handle_state_result(u, UpdateStateAction(row), n)
  BY DEF tick, TickWith
<1>2. RowFits(s, row, req)
  BY RowOfTick
<1>3. \/ n = NoNotification
      \/ n = [seq |-> s.sequence_number, kind |-> "data_change"] /\ s.state # "Creating"
  BY DEF Collected, Collects, Live
<1> HIDE DEF row, n
<1>4. s.sequence_number \in 1..MaxU32
  BY DEF SubscriptionRecord
<1>5. NextHandle(s.sequence_number) \in 1..MaxU32
  BY <1>4, NextHandleType
<1>6. /\ b \in SubscriptionRecord /\ Counters(b)
      /\ b.state = s.state /\ b.notifications = s.notifications
      /\ b.panic = "none" /\ b.last_sequence_number = s.last_sequence_number
      /\ b.lifetime_counter = s.lifetime_counter
      /\ b.keep_alive_counter = s.keep_alive_counter
      /\ b.sequence_number = IF n = NoNotification THEN s.sequence_number
                             ELSE NextHandle(s.sequence_number)
  BY <1>4, <1>5, Zenon DEF SubscriptionRecord, Counters
<1> HIDE DEF b
<1>7. RowFits(b, row, req)
  BY <1>2, <1>6 DEF RowFits
<1>8. /\ u \in SubscriptionRecord /\ Counters(u)
      /\ u.state = StateAfter(b, row) /\ u.lifetime_counter = LifetimeAfter(b, row)
      /\ u.sequence_number = b.sequence_number
      /\ u.last_sequence_number = b.last_sequence_number
      /\ u.notifications = b.notifications
      /\ u.panic = b.panic
  BY <1>6, <1>7, UpdateStateIsTyped
<1> HIDE DEF u
<1>9. Numbered(u, n)
  BY <1>3, <1>6, <1>8 DEF Numbered, Contiguous
<1>10. /\ UpdateStateAction(row) \in {"ReturnNotifications", "ReturnKeepAlive",
            "None", "SubscriptionCreated", "SubscriptionExpired"}
       /\ UpdateStateAction(row) \in {"ReturnNotifications", "ReturnKeepAlive"}
            => row \in SendsMessage \cup {"KeepAlive15"}
       /\ UpdateStateAction(row) = "SubscriptionExpired" => row = "Closed27"
       /\ UpdateStateAction(row) = "SubscriptionCreated" => row = "Create3"
       /\ row = "None0" => UpdateStateAction(row) = "None"
  BY DEF UpdateStateAction, SendsMessage
<1>11. row = "Closed27" => Expired(u)
  <2>1. row = "Closed27" => StateAfter(b, row) = "Closed"
    BY DEF StateAfter
  <2>2. row = "Closed27" => LifetimeAfter(b, row) = 1
    BY <1>7 DEF LifetimeAfter, RowFits, StartsTimer, ResetsLifetime
  <2> QED
    BY <1>8, <2>1, <2>2 DEF Expired
<1>12. Handled(u, t, UpdateStateAction(row), req)
  BY <1>1, <1>2, <1>3, <1>6, <1>8, <1>9, <1>10, <1>11, HandleStateResult DEF RowFits
<1>13. StateAfter(b, row) = "Late" => ~req
  BY <1>7 DEF RowFits, StateAfter
<1>14. s.state = "Closed" =>
         StateAfter(b, row) = "Closed" /\ UpdateStateAction(row) = "None"
  BY <1>6, <1>7, <1>10 DEF RowFits, StateAfter
<1>15. StateAfter(b, row) = "Closed" => row = "Closed27" \/ s.state = "Closed"
  BY <1>6 DEF StateAfter
<1>16. row = "Closed27" => UpdateStateAction(row) = "SubscriptionExpired"
  BY DEF UpdateStateAction
<1> QED
  BY <1>6, <1>8, <1>12, <1>13, <1>14, <1>15, <1>16 DEF Handled, Farewell

(* At most one notification: there is none, or the sequence has length one. *)
LEMMA OneOrNone ==
  ASSUME NEW S, NEW notes \in Seq(S), Len(notes) \in {0, 1}
  PROVE  notes # <<>> <=> Len(notes) = 1
<1>1. Len(notes) = 0 => notes = <<>>
  OBVIOUS
<1>2. notes = <<>> => Len(notes) = 0
  OBVIOUS
<1> QED
  BY <1>1, <1>2

(* The notifications that stay behind after pairing at most one of them. *)
LEMMA PairingLeaves ==
  ASSUME NEW S, NEW notes \in Seq(S), Len(notes) \in {0, 1}, NEW q \in Nat
  PROVE  LET paired == IF Len(notes) < q THEN Len(notes) ELSE q
         IN  /\ paired \in 0..q
             /\ SubSeq(notes, paired + 1, Len(notes)) =
                  IF q = 0 THEN notes ELSE <<>>
             /\ q > 0 => paired = Len(notes)
<1>1. CASE Len(notes) = 0
  <2>1. notes = <<>>
    BY <1>1
  <2>2. SubSeq(notes, 1, 0) = <<>>
    BY <2>1
  <2> QED
    BY <1>1, <2>1, <2>2
<1>2. CASE Len(notes) = 1
  <2>1. SubSeq(notes, 1, 1) = notes
    BY <1>2
  <2>2. SubSeq(notes, 2, 1) = <<>>
    BY <1>2
  <2>3. CASE q = 0
    BY <1>2, <2>1, <2>3
  <2>4. CASE q > 0
    <3>1. (IF 1 < q THEN 1 ELSE q) = 1
      BY <2>4
    <3> QED
      BY <1>2, <2>2, <2>4, <3>1
  <2>5. q = 0 \/ q > 0
    OBVIOUS
  <2> QED
    BY <2>3, <2>4, <2>5, Zenon
<1> QED
  BY <1>1, <1>2, Zenon

(* One call of Subscriptions::tick() turns a sound session into a sound one, and
   what it does is an outcome of module TickOutcomes.  A farewell that waits may
   meet a request that has just arrived. *)
LEMMA TickIsSound ==
  ASSUME NEW s \in SubscriptionRecord, Counters(s), Contiguous(s),
         s.panic = "none",
         s.notifications # <<>> =>
           s.state = "Closed" /\ s.notifications = Farewell(s),
         s.state = "Closed" => s.notifications # <<>>,
         NEW q \in 0..MaxPublishRequests,
         NEW reason \in Reasons, NEW elapsed \in BOOLEAN,
         NEW collected \in BOOLEAN,
         reason = "ReceivePublishRequest" => q > 0,
         s.state = "Late" /\ reason = "TickTimerFired" => q = 0,
         NEW session \in SubscriptionsTick(s, q, reason, elapsed, collected)
  PROVE  /\ Sound(session.sub, session.queue, session.present)
         /\ session.present \/ session.sub.notifications = <<>>
         /\ IsOutcome(s, q, session)
<1>1. PICK t \in tick(s, reason, elapsed, collected, q > 0) :
        session = Paired(t, q)
  BY DEF SubscriptionsTick
<1>2. (q > 0) \in BOOLEAN
  OBVIOUS
<1>3. /\ t \in SubscriptionRecord /\ Counters(t) /\ Contiguous(t)
      /\ t.panic # "none" => t.notifications = <<>>
      /\ t.state = "Late" => ~(q > 0)
      /\ \/ /\ t.notifications = s.notifications
            /\ t.last_sequence_number = s.last_sequence_number
            /\ s.state = "Closed" => t.state = "Closed"
            /\ t.panic = "none" /\ t.state = "Closed" => s.state = "Closed"
         \/ /\ t.notifications = Farewell(t)
            /\ t.last_sequence_number = NextHandle(s.last_sequence_number)
            /\ s.state # "Closed" /\ t.state = "Closed" /\ t.panic = "none"
         \/ /\ q > 0 /\ t.panic = "none" /\ Len(t.notifications) = 1
            /\ t.last_sequence_number = NextHandle(s.last_sequence_number)
            /\ s.state # "Closed" /\ t.state # "Closed"
  <2> DEFINE req == q > 0
  <2>1. req \in BOOLEAN /\ (req <=> q > 0)
    OBVIOUS
  <2>2. t \in tick(s, reason, elapsed, collected, req)
    BY <1>1
  <2> HIDE DEF req
  <2> QED
    BY <2>1, <2>2, TickIsHandled DEF MaxPublishRequests
<1>4. /\ t.notifications \in Seq(Notification)
      /\ Len(t.notifications) \in {0, 1}
      /\ q = 0 /\ t.notifications # <<>> =>
           t.state = "Closed" /\ t.notifications = Farewell(t)
  <2>1. t.notifications \in Seq(Notification) /\ s.notifications \in Seq(Notification)
    BY <1>3 DEF SubscriptionRecord
  <2>2. Len(Farewell(t)) = 1 /\ Len(Farewell(s)) = 1
    BY DEF Farewell
  <2>3. Len(t.notifications) \in {0, 1}
    <3>1. CASE t.notifications = s.notifications
      <4>1. s.notifications = <<>> => Len(s.notifications) = 0
        OBVIOUS
      <4> QED
        BY <3>1, <2>2, <4>1
    <3> QED
      BY <1>3, <2>2, <3>1
  <2>4. q = 0 /\ t.notifications # <<>> =>
           t.state = "Closed" /\ t.notifications = Farewell(t)
    BY <1>3 DEF Farewell
  <2> QED
    BY <2>1, <2>3, <2>4
<1> DEFINE n      == Len(t.notifications)
           paired == IF n < q THEN n ELSE q
           rest   == SubSeq(t.notifications, paired + 1, n)
           left   == [t EXCEPT !.notifications = rest]
<1>5. /\ paired \in 0..q
      /\ rest = IF q = 0 THEN t.notifications ELSE <<>>
      /\ q > 0 => paired = Len(t.notifications)
  <2>1. q \in Nat
    BY DEF MaxPublishRequests
  <2> QED
    BY <2>1, <1>4, PairingLeaves, Zenon
<1>6. session = IF t.panic # "none" THEN Session(t, q, TRUE)
                ELSE Session(left, q - paired, ~ready_to_remove(left))
  BY <1>1 DEF Paired
<1> HIDE DEF n, paired, rest
<1>7. CASE t.panic # "none"
  BY <1>3, <1>6, <1>7, Zenon DEF Sound, Session, IsOutcome
<1>8. CASE t.panic = "none"
  <2>1. /\ left \in SubscriptionRecord /\ Counters(left) /\ Contiguous(left)
        /\ left.notifications = rest /\ left.state = t.state
        /\ left.last_sequence_number = t.last_sequence_number
    <3>1. rest \in Seq(Notification)
      BY <1>4, <1>5
    <3> QED
      BY <1>3, <1>8, <3>1, Zenon DEF SubscriptionRecord, Counters, Contiguous
  <2>2. q - paired \in 0..MaxPublishRequests /\ (q = 0 => q - paired = 0)
    BY <1>5 DEF MaxPublishRequests
  <2>3. /\ session.sub = left /\ session.queue = q - paired
        /\ session.present = ~ready_to_remove(left)
    BY <1>6, <1>8 DEF Session
  <2> HIDE DEF left
  <2>4. ready_to_remove(left) \in BOOLEAN
    BY DEF ready_to_remove
  <2>5. session.present \/ session.sub.notifications = <<>>
    BY <2>3, Zenon DEF ready_to_remove
  <2>6. session.present /\ left.state = "Closed" => left.notifications # <<>>
    BY <2>3, Zenon DEF ready_to_remove
  <2>7. Sound(session.sub, session.queue, session.present)
    BY <1>3, <1>4, <1>5, <2>1, <2>2, <2>3, <2>4, <2>6
       DEF Sound, Farewell, MaxPublishRequests
  <2>8. session.queue = IF q > 0 /\ t.notifications # <<>> THEN q - 1 ELSE q
    <3>1. t.notifications # <<>> <=> Len(t.notifications) = 1
      BY <1>4, OneOrNone
    <3>2. q \in Nat
      BY DEF MaxPublishRequests
    <3>3. CASE q = 0
      BY <2>2, <2>3, <3>3
    <3>4. CASE q > 0
      <4>1. paired = Len(t.notifications)
        BY <1>5, <3>4
      <4>2. CASE Len(t.notifications) = 1
        BY <2>3, <3>1, <3>2, <3>4, <4>1, <4>2
      <4>3. CASE Len(t.notifications) = 0
        BY <2>3, <3>1, <3>2, <4>1, <4>3
      <4> QED
        BY <1>4, <4>2, <4>3
    <3> QED
      BY <3>2, <3>3, <3>4
  <2>9. session.present <=> ~(t.state = "Closed" /\ (q > 0 \/ t.notifications = <<>>))
    <3>1. q > 0 <=> q # 0
      BY DEF MaxPublishRequests
    <3> QED
      BY <1>5, <2>1, <2>3, <3>1, Zenon DEF ready_to_remove
  <2>10. Phase(session.sub, session.present) =
           IF t.state # "Closed" THEN "live"
           ELSE IF q > 0 \/ t.notifications = <<>> THEN "removed" ELSE "closed"
    BY <2>1, <2>3, <2>9 DEF Phase
  <2>11. session.sub.last_sequence_number = t.last_sequence_number
    BY <2>1, <2>3
  <2>12. Phase(s, TRUE) = IF s.state = "Closed" THEN "closed" ELSE "live"
    BY DEF Phase
  <2>13. IsOutcome(s, q, session)
    <3> DEFINE Matches(outcome) ==
          LET req    == q > 0
              speaks == Speaks(outcome, req)
              closes == Closes(Phase(s, TRUE), outcome)
          IN  /\ session.sub.last_sequence_number =
                   LastAfter(s.last_sequence_number, speaks)
              /\ session.queue = IF req /\ (speaks \/ closes) THEN q - 1 ELSE q
              /\ Phase(session.sub, session.present) =
                   PhaseAfter(Phase(s, TRUE), closes, req)
    <3>1. CASE /\ t.notifications = s.notifications
               /\ t.last_sequence_number = s.last_sequence_number
               /\ s.state = "Closed" <=> t.state = "Closed"
      <4>1. t.notifications # <<>> <=> s.state = "Closed"
        BY <3>1
      <4>2. Matches("nothing")
        BY <3>1, <4>1, <2>8, <2>10, <2>11, <2>12, Zenon
           DEF Speaks, Closes, LastAfter, PhaseAfter
      <4>3. "nothing" \in Outcomes(Phase(s, TRUE))
        BY DEF Outcomes
      <4> QED
        BY <4>2, <4>3, Zenon DEF IsOutcome
    <3>2. CASE /\ t.notifications # <<>> /\ s.state # "Closed"
               /\ t.state = "Closed"
               /\ t.last_sequence_number = NextHandle(s.last_sequence_number)
      <4>1. Matches("expires")
        BY <3>2, <2>8, <2>10, <2>11, <2>12
           DEF Speaks, Closes, LastAfter, PhaseAfter
      <4>2. "expires" \in Outcomes(Phase(s, TRUE))
        BY <3>2, <2>12 DEF Outcomes
      <4> QED
        BY <4>1, <4>2, Zenon DEF IsOutcome
    <3>3. CASE /\ t.notifications # <<>> /\ s.state # "Closed" /\ q > 0
               /\ t.state # "Closed"
               /\ t.last_sequence_number = NextHandle(s.last_sequence_number)
      <4>1. Matches("data")
        BY <3>3, <2>8, <2>10, <2>11, <2>12, Zenon
           DEF Speaks, Closes, LastAfter, PhaseAfter
      <4>2. "data" \in Outcomes(Phase(s, TRUE))
        BY <3>3, <2>12 DEF Outcomes
      <4> QED
        BY <4>1, <4>2, Zenon DEF IsOutcome
    <3>4. Len(Farewell(t)) = 1
      BY DEF Farewell
    <3>5. Len(t.notifications) = 1 => t.notifications # <<>>
      BY <1>4, OneOrNone
    <3> QED
      BY <1>3, <1>8, <3>1, <3>2, <3>3, <3>4, <3>5
  <2> QED
    BY <2>5, <2>7, <2>13
<1> QED
  BY <1>7, <1>8

(* The two calls of a publish request: the session stays sound. *)
LEMMA RequestIsSound ==
  ASSUME Sound(sub, queue, present), Alive,
         NEW room \in MakeRoom(sub, queue), NEW session \in Enqueue(room)
  PROVE  Sound(session.sub, session.queue, session.present)
<1>1. "ReceivePublishRequest" \in Reasons /\ FALSE \in BOOLEAN
  BY DEF Reasons
<1>2. /\ Sound(room.sub, room.queue, room.present)
      /\ room.present \/ room.sub.notifications = <<>>
  <2>1. CASE queue >= MaxPublishRequests
    <3>1. room \in SubscriptionsTick(sub, queue, "ReceivePublishRequest",
                                     FALSE, FALSE)
      BY <2>1, Zenon DEF MakeRoom, ReceivePublishRequest
    <3>2. queue > 0 /\ queue \in 0..MaxPublishRequests
      BY <2>1 DEF Sound, MaxPublishRequests
    <3>3. /\ sub \in SubscriptionRecord /\ Counters(sub) /\ Contiguous(sub)
          /\ sub.panic = "none"
          /\ sub.notifications # <<>> =>
               sub.state = "Closed" /\ sub.notifications = Farewell(sub)
          /\ sub.state = "Closed" => sub.notifications # <<>>
      BY Zenon DEF Sound, Alive
    <3> QED
      BY <1>1, <3>1, <3>2, <3>3, TickIsSound, Zenon
  <2>2. CASE ~(queue >= MaxPublishRequests)
    <3>1. room = Session(sub, queue, TRUE)
      BY <2>2 DEF MakeRoom
    <3> QED
      BY <3>1 DEF Session, Sound, Alive
  <2> QED
    BY <2>1, <2>2
<1>3. CASE room.sub.panic # "none" \/ room.queue >= MaxPublishRequests
  BY <1>2, <1>3, Zenon DEF Enqueue
<1>4. CASE /\ ~(room.sub.panic # "none" \/ room.queue >= MaxPublishRequests)
           /\ ~room.present
  <2>1. session = Session(room.sub, room.queue + 1, FALSE)
    BY <1>4 DEF Enqueue
  <2>2. room.sub.notifications = <<>>
    BY <1>2, <1>4
  <2>3. room.queue + 1 \in 0..MaxPublishRequests
    BY <1>2, <1>4 DEF Sound, MaxPublishRequests
  <2> QED
    BY <1>2, <1>4, <2>1, <2>2, <2>3 DEF Sound, Session
<1>5. CASE /\ ~(room.sub.panic # "none" \/ room.queue >= MaxPublishRequests)
           /\ room.present
  <2>1. session \in SubscriptionsTick(room.sub, room.queue + 1,
                      "ReceivePublishRequest", FALSE, FALSE)
    BY <1>5, <1>2, Zenon DEF Enqueue, ReceivePublishRequest, Sound
  <2>2. room.queue + 1 \in 0..MaxPublishRequests /\ room.queue + 1 > 0
    BY <1>2, <1>5 DEF Sound, MaxPublishRequests
  <2>3. LET s == room.sub
        IN  /\ s \in SubscriptionRecord /\ Counters(s) /\ Contiguous(s)
            /\ s.panic = "none"
            /\ s.notifications # <<>> =>
                 s.state = "Closed" /\ s.notifications = Farewell(s)
            /\ s.state = "Closed" => s.notifications # <<>>
    BY <1>2, <1>5 DEF Sound
  <2> QED
    BY <1>1, <2>1, <2>2, <2>3, TickIsSound, Zenon
<1>6. room.present \in BOOLEAN
  BY <1>2 DEF Sound
<1> QED
  BY <1>3, <1>4, <1>5, <1>6

(* CreateSubscription starts from a sound session. *)
LEMMA InitIsSound == Init => Inv
<1> SUFFICES ASSUME Init PROVE Inv
  OBVIOUS
<1>1. PICK enabled \in BOOLEAN, k \in RequestedKeepAlive, l \in RequestedLifetime :
        sub = NewSubscription(enabled, RevisedLifetime(l, RevisedKeepAlive(k)),
                              RevisedKeepAlive(k))
  BY DEF Init
<1> DEFINE ka == RevisedKeepAlive(k)
           lt == RevisedLifetime(l, ka)
<1>2. ka \in 1..MaxKeepAliveCount /\ lt \in 3..MaxLifetimeCount /\ 3 * ka <= lt
  BY RevisedValues
<1>3. sub = NewSubscription(enabled, lt, ka)
  BY <1>1
<1> HIDE DEF ka, lt
<1>4. <<>> \in Seq(Notification)
  OBVIOUS
<1>5. sub \in SubscriptionRecord
  BY <1>2, <1>3, <1>4, CountsAssumption, MaxU32Assumption
     DEF NewSubscription, SubscriptionRecord, States, Panics
<1>6. Counters(sub) /\ Contiguous(sub)
  <2>1. /\ sub.lifetime_counter = lt /\ sub.max_lifetime_counter = lt
        /\ sub.keep_alive_counter = ka /\ sub.max_keep_alive_counter = ka
        /\ sub.sequence_number = 1 /\ sub.last_sequence_number = 0
        /\ sub.panic = "none"
    BY <1>3 DEF NewSubscription
  <2>2. NextHandle(0) = 1
    BY MaxU32Assumption DEF NextHandle
  <2> QED
    BY <1>2, <2>1, <2>2, CountsAssumption DEF Counters, Contiguous
<1>7. sub.notifications = <<>> /\ sub.state = "Creating"
  BY <1>3 DEF NewSubscription
<1> QED
  <2>1. /\ present = TRUE /\ queue = 0 /\ queue \in 0..MaxPublishRequests
        /\ pending = FALSE /\ gone = FALSE
    BY DEF Init, MaxPublishRequests
  <2> QED
    BY <1>5, <1>6, <1>7, <2>1, Zenon DEF Inv, Sound

(* Services that only write the settings of a subscription leave it sound. *)
LEMMA ServiceIsSound ==
  ASSUME Inv, NEW s \in SubscriptionRecord, ClientService(s), Counters(s),
         s.state = sub.state, s.notifications = sub.notifications,
         s.panic = sub.panic, s.sequence_number = sub.sequence_number,
         s.last_sequence_number = sub.last_sequence_number
  PROVE  Inv'
<1>1. sub' = s /\ s.panic = "none"
  BY DEF ClientService, Alive
<1> QED
  BY <1>1 DEF ClientService, Inv, Sound, Contiguous, Farewell

(* Every step of the session preserves the invariant. *)
LEMMA StepIsSound == Inv /\ [Next]_vars => Inv'
<1> SUFFICES ASSUME Inv, [Next]_vars PROVE Inv'
  OBVIOUS
<1>1. /\ sub \in SubscriptionRecord /\ Counters(sub) /\ Contiguous(sub)
      /\ queue \in 0..MaxPublishRequests
      /\ sub.notifications # <<>> =>
           sub.state = "Closed" /\ sub.notifications = Farewell(sub)
      /\ sub.resend_data \in BOOLEAN /\ pending \in BOOLEAN
  BY DEF Inv, Sound, SubscriptionRecord
<1>2. CASE DataChange
  BY <1>2, Zenon DEF DataChange, Inv, Sound, Farewell
<1>3. ASSUME NEW elapsed \in BOOLEAN, NEW expired \in 0..queue,
             TimerTick(elapsed, expired)
      PROVE  Inv'
  <2>1. PICK collected \in MayCollect, held \in BOOLEAN :
          /\ \E session \in SubscriptionsTick(sub, queue - expired,
                               "TickTimerFired", elapsed, collected) :
               Become(session)
          /\ pending' = /\ PendingAfterResend
                        /\ sub'.state # "Closed"
                        /\ collected /\ Collects(sub, "TickTimerFired", elapsed)
                             => held /\ ~sub.resend_data
    BY <1>3 DEF TimerTick
  <2>2. PICK session \in SubscriptionsTick(sub, queue - expired,
                            "TickTimerFired", elapsed, collected) :
          Become(session)
    BY <2>1
  <2>3. collected \in BOOLEAN
    BY Zenon DEF MayCollect
  <2>4. /\ queue - expired \in 0..MaxPublishRequests
        /\ sub.panic = "none"
        /\ sub.state = "Late" => queue - expired = 0
        /\ sub.state = "Closed" => sub.notifications # <<>>
        /\ "TickTimerFired" \in Reasons /\ "TickTimerFired" # "ReceivePublishRequest"
    BY <1>1, <1>3 DEF Inv, Sound, TimerTick, Alive, MaxPublishRequests, Reasons
  <2>5. Sound(session.sub, session.queue, session.present)
    BY <1>1, <2>2, <2>3, <2>4, TickIsSound
  <2>6. Sound(sub', queue', present')
    BY <2>2, <2>5 DEF Become
  <2>7. pending' \in BOOLEAN
    BY <2>1
  <2>8. gone' \in BOOLEAN
    BY <1>3 DEF TimerTick, Inv
  <2> QED
    BY <2>6, <2>7, <2>8 DEF Inv, Sound
<1>4. CASE PublishRequest
  <2>1. PICK room \in MakeRoom(sub, queue) :
          \E session \in Enqueue(room) : Become(session)
    BY <1>4 DEF PublishRequest
  <2>2. PICK session \in Enqueue(room) : Become(session)
    BY <2>1
  <2>3. Sound(session.sub, session.queue, session.present)
    BY <1>4, RequestIsSound DEF PublishRequest, Inv
  <2>4. pending' \in BOOLEAN /\ gone' \in BOOLEAN
    BY <1>4 DEF PublishRequest, Inv
  <2> QED
    BY <2>2, <2>3, <2>4 DEF Become, Inv, Sound
<1>5. ASSUME NEW enabled \in BOOLEAN, SetPublishingMode(enabled) PROVE Inv'
  <2> DEFINE s == reset_lifetime_counter(
                 [sub EXCEPT !.publishing_enabled = enabled])
  <2>1. ClientService(s)
    BY <1>5 DEF SetPublishingMode
  <2>2. sub.max_lifetime_counter \in 3..MaxLifetimeCount
    BY <1>1 DEF SubscriptionRecord
  <2>3. sub.max_lifetime_counter \in 1..MaxLifetimeCount
    BY <2>2, CountsAssumption
  <2>4. s \in SubscriptionRecord
    BY <1>1, <2>3, Zenon DEF reset_lifetime_counter, SubscriptionRecord
  <2>5. /\ s.lifetime_counter = sub.max_lifetime_counter
        /\ s.max_lifetime_counter = sub.max_lifetime_counter
        /\ s.keep_alive_counter = sub.keep_alive_counter
        /\ s.max_keep_alive_counter = sub.max_keep_alive_counter
        /\ s.state = sub.state /\ s.notifications = sub.notifications
        /\ s.panic = sub.panic /\ s.sequence_number = sub.sequence_number
        /\ s.last_sequence_number = sub.last_sequence_number
    BY <1>1 DEF reset_lifetime_counter, SubscriptionRecord
  <2>6. Counters(s)
    BY <1>1, <2>2, <2>5, CountsAssumption DEF Counters
  <2> HIDE DEF s
  <2> QED
    BY <2>1, <2>4, <2>5, <2>6, ServiceIsSound
<1>6. ASSUME NEW k \in RequestedKeepAlive, NEW l \in RequestedLifetime,
             ModifySubscription(k, l)
      PROVE  Inv'
  <2> DEFINE ka == RevisedKeepAlive(k)
             lt == RevisedLifetime(l, ka)
             s  == [sub EXCEPT !.max_keep_alive_counter = ka,
                               !.max_lifetime_counter   = lt,
                               !.keep_alive_counter     = ka,
                               !.lifetime_counter       = lt]
  <2>1. ka \in 1..MaxKeepAliveCount /\ lt \in 3..MaxLifetimeCount /\ 3 * ka <= lt
    BY RevisedValues
  <2>2. ClientService(s)
    BY <1>6 DEF ModifySubscription
  <2> HIDE DEF ka, lt
  <2>3. ka \in 1..MaxKeepAliveCount /\ lt \in 1..MaxLifetimeCount
    BY <2>1, CountsAssumption
  <2>4. s \in SubscriptionRecord
    BY <1>1, <2>1, <2>3, Zenon DEF SubscriptionRecord
  <2>5. /\ s.lifetime_counter = lt /\ s.max_lifetime_counter = lt
        /\ s.keep_alive_counter = ka /\ s.max_keep_alive_counter = ka
        /\ s.state = sub.state /\ s.notifications = sub.notifications
        /\ s.panic = sub.panic /\ s.sequence_number = sub.sequence_number
        /\ s.last_sequence_number = sub.last_sequence_number
    BY <1>1 DEF SubscriptionRecord
  <2>6. Counters(s)
    BY <2>1, <2>5, CountsAssumption DEF Counters
  <2> HIDE DEF s
  <2> QED
    BY <2>2, <2>4, <2>5, <2>6, ServiceIsSound
<1>7. CASE TouchSubscription
  <2> DEFINE s == reset_lifetime_counter(sub)
  <2>1. ClientService(s)
    BY <1>7 DEF TouchSubscription
  <2>2. sub.max_lifetime_counter \in 3..MaxLifetimeCount
    BY <1>1 DEF SubscriptionRecord
  <2>3. sub.max_lifetime_counter \in 1..MaxLifetimeCount
    BY <2>2, CountsAssumption
  <2>4. s \in SubscriptionRecord
    BY <1>1, <2>3, Zenon DEF reset_lifetime_counter, SubscriptionRecord
  <2>5. /\ s.lifetime_counter = sub.max_lifetime_counter
        /\ s.max_lifetime_counter = sub.max_lifetime_counter
        /\ s.keep_alive_counter = sub.keep_alive_counter
        /\ s.max_keep_alive_counter = sub.max_keep_alive_counter
        /\ s.state = sub.state /\ s.notifications = sub.notifications
        /\ s.panic = sub.panic /\ s.sequence_number = sub.sequence_number
        /\ s.last_sequence_number = sub.last_sequence_number
    BY <1>1 DEF reset_lifetime_counter, SubscriptionRecord
  <2>6. Counters(s)
    BY <1>1, <2>2, <2>5, CountsAssumption DEF Counters
  <2> HIDE DEF s
  <2> QED
    BY <2>1, <2>4, <2>5, <2>6, ServiceIsSound
<1>8. CASE SetResendData
  <2> DEFINE s == [sub EXCEPT !.resend_data = TRUE]
  <2>1. ClientService(s)
    BY <1>8 DEF SetResendData
  <2>2. /\ s \in SubscriptionRecord /\ Counters(s)
        /\ s.state = sub.state /\ s.notifications = sub.notifications
        /\ s.panic = sub.panic /\ s.sequence_number = sub.sequence_number
        /\ s.last_sequence_number = sub.last_sequence_number
    BY <1>1, Zenon DEF SubscriptionRecord, Counters
  <2> HIDE DEF s
  <2> QED
    BY <2>1, <2>2, ServiceIsSound
<1>9. CASE DeleteSubscription
  BY <1>9, Zenon DEF DeleteSubscription, Inv, Sound, Farewell
<1>10. CASE ClientGone
  BY <1>10 DEF ClientGone, Inv, Sound, Farewell
<1>11. CASE UNCHANGED vars
  BY <1>11 DEF vars, Inv, Sound, Farewell
<1> QED
  BY <1>2, <1>3, <1>4, <1>5, <1>6, <1>7, <1>8, <1>9, <1>10, <1>11
     DEF Next, Finished

-----------------------------------------------------------------------------
(* The invariant holds in every reachable state of a session. *)
THEOREM SessionIsSound == Spec => []Inv
BY InitIsSound, StepIsSound, PTL DEF Spec

(* Types: in particular neither countdown of a subscription reaches zero, so
   the unsigned decrements of start_publishing_timer() and of row 16 never
   underflow. *)
THEOREM TypeCorrect == Spec => []TypeOK
<1>1. Inv => TypeOK
  BY DEF Inv, Sound, TypeOK
<1> QED
  BY <1>1, SessionIsSound, PTL

(* The sequence numbers that a client sees have no gap, whatever notifications
   are thrown away, and the check in enqueue_notification() never fails. *)
THEOREM SequenceTheorem == Spec => []SequenceIsContiguous
<1>1. Inv => SequenceIsContiguous
  BY DEF Inv, Sound, Contiguous, SequenceIsContiguous
<1> QED
  BY <1>1, SessionIsSound, PTL

(* handle_state_result() asserts that a subscription that expires has collected
   nothing ("SubscriptionExpired got a notification").  That is not so: a value
   may change in the interval in which the lifetime ends.  This is the extent of
   it: of the three assertions of the engine no other fails, and this one only
   in the step that closes a subscription whose lifetime has run down. *)
OnlyExpiryPanics ==
  sub.panic # "none" =>
    /\ sub.panic = "expired_got_notification"
    /\ sub.state = "Closed" /\ sub.lifetime_counter = 1

(* The engine panics only when a lifetime ends in an interval with data, for any
   counts and any width of the sequence numbers. *)
THEOREM PanicTheorem == Spec => []OnlyExpiryPanics
<1>1. Inv => OnlyExpiryPanics
  BY DEF Inv, Sound, Contiguous, Expired, OnlyExpiryPanics
<1> QED
  BY <1>1, SessionIsSound, PTL

(* Whatever the table of update_state() does, the publish queues see one of the
   outcomes on which module Subscriptions is built: the two levels fit. *)
THEOREM OutcomeTheorem == Spec => []TicksAreOutcomes
<1>1. ASSUME Inv, Alive PROVE TicksAreOutcomes
  <2>1. /\ sub \in SubscriptionRecord /\ Counters(sub) /\ Contiguous(sub)
        /\ sub.panic = "none"
        /\ sub.notifications # <<>> =>
             sub.state = "Closed" /\ sub.notifications = Farewell(sub)
        /\ sub.state = "Closed" => sub.notifications # <<>>
        /\ queue \in 0..MaxPublishRequests
        /\ sub.state = "Late" => queue = 0
    BY <1>1 DEF Inv, Sound, Alive
  <2>2. /\ "ReceivePublishRequest" \in Reasons /\ "TickTimerFired" \in Reasons
        /\ "TickTimerFired" # "ReceivePublishRequest" /\ FALSE \in BOOLEAN
    BY Zenon DEF Reasons
  <2>3. ASSUME NEW q \in 0..queue, NEW elapsed \in BOOLEAN,
               NEW collected \in MayCollect,
               NEW after \in SubscriptionsTick(sub, q, "TickTimerFired",
                                               elapsed, collected)
        PROVE  IsOutcome(sub, q, after)
    <3>1. q \in 0..MaxPublishRequests /\ (sub.state = "Late" => q = 0)
      BY <2>1 DEF MaxPublishRequests
    <3>2. collected \in BOOLEAN
      BY Zenon DEF MayCollect
    <3> QED
      BY <2>1, <2>2, <2>3, <3>1, <3>2, TickIsSound
  <2>4. ASSUME queue >= MaxPublishRequests,
               NEW room \in ReceivePublishRequest(sub, queue)
        PROVE  /\ IsOutcome(sub, queue, room)
               /\ Sound(room.sub, room.queue, room.present)
    <3>1. queue > 0
      BY <2>1, <2>4 DEF MaxPublishRequests
    <3>2. room \in SubscriptionsTick(sub, queue, "ReceivePublishRequest",
                                     FALSE, FALSE)
      BY <2>4, Zenon DEF ReceivePublishRequest
    <3> QED
      BY <2>1, <2>2, <3>1, <3>2, TickIsSound, Zenon
  <2>5. ASSUME NEW room \in MakeRoom(sub, queue),
               room.present, room.sub.panic = "none",
               room.queue < MaxPublishRequests,
               NEW after \in ReceivePublishRequest(room.sub, room.queue + 1)
        PROVE  IsOutcome(room.sub, room.queue + 1, after)
    <3>1. Sound(room.sub, room.queue, room.present)
      <4>1. CASE queue >= MaxPublishRequests
        BY <2>4, <4>1 DEF MakeRoom
      <4>2. CASE ~(queue >= MaxPublishRequests)
        <5>1. room = Session(sub, queue, TRUE)
          BY <2>5, <4>2 DEF MakeRoom
        <5> QED
          BY <1>1, <5>1 DEF Session, Inv, Sound, Alive
      <4> QED
        BY <4>1, <4>2
    <3> DEFINE s == room.sub
               q == room.queue + 1
    <3>2. /\ s \in SubscriptionRecord /\ Counters(s) /\ Contiguous(s)
          /\ s.panic = "none"
          /\ s.notifications # <<>> =>
               s.state = "Closed" /\ s.notifications = Farewell(s)
          /\ s.state = "Closed" => s.notifications # <<>>
      BY <2>5, <3>1 DEF Sound
    <3>3. q \in 0..MaxPublishRequests /\ q > 0
      BY <2>5, <3>1 DEF Sound, MaxPublishRequests
    <3>4. after \in SubscriptionsTick(s, q, "ReceivePublishRequest",
                                      FALSE, FALSE)
      BY <2>5, Zenon DEF ReceivePublishRequest
    <3> HIDE DEF s, q
    <3>5. IsOutcome(s, q, after)
      BY <2>2, <3>2, <3>3, <3>4, TickIsSound, Zenon
    <3> QED
      BY <3>5 DEF s, q
  <2>6. /\ \A q \in 0..queue, elapsed \in BOOLEAN, collected \in MayCollect :
             \A after \in SubscriptionsTick(sub, q, "TickTimerFired", elapsed,
                                            collected) :
               IsOutcome(sub, q, after)
        /\ queue >= MaxPublishRequests =>
             \A room \in ReceivePublishRequest(sub, queue) :
               IsOutcome(sub, queue, room)
    BY <2>3, <2>4
  <2>7. \A room \in MakeRoom(sub, queue) :
          (room.present /\ room.sub.panic = "none"
             /\ room.queue < MaxPublishRequests) =>
            \A after \in ReceivePublishRequest(room.sub, room.queue + 1) :
              IsOutcome(room.sub, room.queue + 1, after)
    BY <2>5
  <2> QED
    BY <2>6, <2>7, Zenon DEF TicksAreOutcomes
<1>2. Inv => TicksAreOutcomes
  BY <1>1 DEF TicksAreOutcomes
<1> QED
  BY <1>2, SessionIsSound, PTL

(* A subscription is late only while the publish request queue is empty. *)
THEOREM LateTheorem == Spec => []LateMeansStarved
<1>1. Inv => LateMeansStarved
  BY Zenon DEF Inv, Sound, LateMeansStarved
<1> QED
  BY <1>1, SessionIsSound, PTL

(* Only the final status change of an expired subscription waits between two
   ticks, and only while there is no publish request. *)
THEOREM FarewellTheorem == Spec => []OnlyFarewellWaits
<1>1. Inv => OnlyFarewellWaits
  BY DEF Inv, Sound, Farewell, OnlyFarewellWaits
<1> QED
  BY <1>1, SessionIsSound, PTL

(* The countdowns stay within what revise_subscription_values() granted. *)
THEOREM CountersTheorem == Spec => []CountersWithinLimits
<1>1. Inv => CountersWithinLimits
  BY DEF Inv, Sound, Counters, CountersWithinLimits
<1> QED
  BY <1>1, SessionIsSound, PTL
-----------------------------------------------------------------------------
(* Two numbers that follow one another differ. *)
LEMMA NextHandleDiffers ==
  ASSUME NEW n \in 0..MaxU32
  PROVE  NextHandle(n) # n
BY MaxU32Assumption DEF NextHandle

(* What the items hand over to a tick that has a request, with publishing
   enabled, is enqueued under the next number: the table of update_state() has
   no row that throws it away, and the only other end is a panic. *)
LEMMA CollectedIsNumbered ==
  ASSUME NEW s \in SubscriptionRecord, Contiguous(s), s.panic = "none",
         s.publishing_enabled, s.state # "Late",
         Collects(s, "TickTimerFired", TRUE),
         NEW req, req,
         NEW t \in tick(s, "TickTimerFired", TRUE, TRUE, req), t.panic = "none"
  PROVE  t.last_sequence_number = NextHandle(s.last_sequence_number)
<1>1. PICK row \in {TickRow(s, "TickTimerFired", TRUE, TRUE, req)} :
        t = TickWith(s, row, Collected(s, "TickTimerFired", TRUE, TRUE))
  BY DEF tick
<1>2. PICK p : p = Params(s, "TickTimerFired", TRUE, TRUE, req)
  BY Zenon
<1>3. /\ p.reason # "ReceivePublishRequest" /\ p.timer /\ p.available /\ p.req
      /\ s.state \in {"Normal", "KeepAlive"}
  BY <1>2, Zenon DEF Params, Collects, IntervalElapsed, Live
<1>4. row = HandledState(s, p)
  BY <1>1, <1>2, <1>3 DEF TickRow
<1>5. row \in {"Closed27", "IntervalElapsed6", "KeepAlive14"}
  BY <1>3, <1>4 DEF HandledState, NormalRow, KeepAliveRow
<1>6. PICK n : n = [seq |-> s.sequence_number, kind |-> "data_change"]
  BY Zenon
<1>7. n # NoNotification /\ n.seq = s.sequence_number
  BY <1>6 DEF NoNotification
<1>8. PICK b : b = [s EXCEPT !.resend_data = FALSE,
                             !.sequence_number = NextHandle(@)]
  OBVIOUS
<1>9. t = handle_state_result(update_state(b, row), UpdateStateAction(row), n)
  BY <1>1, <1>6, <1>7, <1>8, Zenon DEF TickWith, Collected
<1>10. PICK u : u = update_state(b, row)
  BY Zenon
<1>11. /\ u.last_sequence_number = s.last_sequence_number
       /\ "panic" \in DOMAIN u /\ "last_sequence_number" \in DOMAIN u
       /\ "notifications" \in DOMAIN u
  BY <1>8, <1>10 DEF update_state, SubscriptionRecord
<1>12. CASE row = "Closed27"
  <2>1. t = [u EXCEPT !.panic = "expired_got_notification"]
    BY <1>7, <1>9, <1>10, <1>12 DEF UpdateStateAction, handle_state_result
  <2>2. t.panic = "expired_got_notification"
    BY <1>11, <2>1
  <2> QED
    BY <2>2
<1>13. CASE row \in {"IntervalElapsed6", "KeepAlive14"}
  <2>1. t = enqueue_notification(u, n)
    BY <1>7, <1>9, <1>10, <1>13, Zenon DEF UpdateStateAction, handle_state_result
  <2>2. n.seq = NextHandle(u.last_sequence_number)
    BY <1>7, <1>11 DEF Contiguous
  <2> QED
    BY <1>11, <2>1, <2>2 DEF enqueue_notification
<1> QED
  BY <1>5, <1>12, <1>13, Zenon

(* Pairing a tick that did not panic keeps its state and its last number. *)
LEMMA PairingKeeps ==
  ASSUME NEW t \in SubscriptionRecord, NEW q
  PROVE  /\ Paired(t, q).sub.last_sequence_number = t.last_sequence_number
         /\ Paired(t, q).sub.panic = t.panic
BY DEF Paired, Session, SubscriptionRecord

(* Data that the timer collects while a publish request waits and publishing is
   enabled is sent: the tick takes the next sequence number and uses up one
   request, unless it panics.  A pending change that disappears otherwise does
   so because the subscription expires, and that is a message too. *)
THEOREM DataTheorem == Spec => ServableDataIsSent
<1>1. ASSUME Inv, NEW expired \in 0..queue, TimerTick(TRUE, expired),
             pending, ~pending', queue > expired,
             sub.publishing_enabled, sub'.panic = "none"
      PROVE  /\ sub'.last_sequence_number # sub.last_sequence_number
             /\ queue' = queue - expired - 1
  <2>1. /\ sub \in SubscriptionRecord /\ Counters(sub) /\ Contiguous(sub)
        /\ sub.notifications # <<>> =>
             sub.state = "Closed" /\ sub.notifications = Farewell(sub)
        /\ queue \in 0..MaxPublishRequests /\ sub.panic = "none"
        /\ present /\ sub.state # "Late" /\ sub.state # "Closed"
    BY <1>1 DEF Inv, Sound, TimerTick, Alive, MaxPublishRequests
  <2>2. PICK collected \in MayCollect, held \in BOOLEAN :
          /\ \E session \in SubscriptionsTick(sub, queue - expired,
                               "TickTimerFired", TRUE, collected) :
               Become(session)
          /\ pending' = /\ PendingAfterResend
                        /\ sub'.state # "Closed"
                        /\ collected /\ Collects(sub, "TickTimerFired", TRUE)
                             => held /\ ~sub.resend_data
    BY <1>1, Zenon DEF TimerTick
  <2>3. PICK session \in SubscriptionsTick(sub, queue - expired,
                            "TickTimerFired", TRUE, collected) :
          Become(session)
    BY <2>2, Zenon
  <2>4. PICK q \in 1..MaxPublishRequests : q = queue - expired
    BY <1>1, <2>1 DEF MaxPublishRequests
  <2>5. /\ collected \in BOOLEAN
        /\ "TickTimerFired" \in Reasons
        /\ "TickTimerFired" # "ReceivePublishRequest"
    BY Zenon DEF MayCollect, Reasons
  <2>6. IsOutcome(sub, q, session)
    <3>1. q \in 0..MaxPublishRequests
      BY <2>4 DEF MaxPublishRequests
    <3>2. session \in SubscriptionsTick(sub, q, "TickTimerFired", TRUE, collected)
      BY <2>3, <2>4, Zenon
    <3> QED
      BY <2>1, <2>5, <3>1, <3>2, TickIsSound, Zenon
  <2>7. sub' = session.sub /\ queue' = session.queue /\ present' = session.present
    BY <2>3 DEF Become
  <2>8. PICK outcome \in Outcomes("live") :
          /\ sub'.last_sequence_number =
               LastAfter(sub.last_sequence_number, Speaks(outcome, TRUE))
          /\ queue' = IF Speaks(outcome, TRUE) \/ Closes("live", outcome)
                      THEN q - 1 ELSE q
          /\ Phase(sub', present') =
               PhaseAfter("live", Closes("live", outcome), TRUE)
    <3>1. Phase(sub, TRUE) = "live" /\ (q > 0) = TRUE
      BY <2>1, <2>4 DEF Phase, MaxPublishRequests
    <3> QED
      BY <1>1, <2>6, <2>7, <3>1, Zenon DEF IsOutcome
  <2>9. sub.last_sequence_number \in 0..MaxU32
    BY <2>1 DEF SubscriptionRecord
  <2>10. ASSUME Speaks(outcome, TRUE)
         PROVE  /\ sub'.last_sequence_number # sub.last_sequence_number
                /\ queue' = queue - expired - 1
    BY <2>4, <2>8, <2>9, <2>10, NextHandleDiffers DEF LastAfter
  <2>11. CASE sub'.state = "Closed"
    <3>1. Phase(sub', present') # "live"
      BY <2>11 DEF Phase
    <3>2. Closes("live", outcome)
      BY <2>8, <3>1 DEF PhaseAfter
    <3> QED
      BY <2>10, <3>2 DEF Closes, Speaks
  <2>12. CASE sub'.state # "Closed"
    <3>1. collected = TRUE /\ Collects(sub, "TickTimerFired", TRUE)
      BY <1>1, <2>2, <2>5, <2>12, Zenon DEF PendingAfterResend
    <3>2. PICK req \in BOOLEAN : req = (q > 0) /\ req
      <4>1. q > 0
        BY <2>4 DEF MaxPublishRequests
      <4> QED
        BY <4>1, Zenon
    <3>3. PICK t \in tick(sub, "TickTimerFired", TRUE, TRUE, req) :
            session = Paired(t, q)
      BY <2>3, <2>4, <3>1, <3>2, Zenon DEF SubscriptionsTick
    <3>4. t \in SubscriptionRecord
      BY <2>1, <2>5, TickIsHandled, Zenon
    <3>5. /\ t.panic = "none"
          /\ sub'.last_sequence_number = t.last_sequence_number
      BY <1>1, <2>7, <3>3, <3>4, PairingKeeps, Zenon
    <3>6. t.last_sequence_number = NextHandle(sub.last_sequence_number)
      BY <1>1, <2>1, <3>1, <3>2, <3>5, CollectedIsNumbered, Zenon
    <3>7. sub'.last_sequence_number # sub.last_sequence_number
      BY <2>9, <3>5, <3>6, NextHandleDiffers
    <3>8. Speaks(outcome, TRUE)
      BY <2>8, <3>7, Zenon DEF LastAfter
    <3> QED
      BY <2>10, <3>8
  <2> QED
    BY <2>11, <2>12
<1>2. Inv /\ [Next]_vars =>
        [ \A expired \in 0..queue :
            /\ TimerTick(TRUE, expired)
            /\ pending /\ ~pending' /\ queue > expired
            /\ sub.publishing_enabled /\ sub'.panic = "none"
            => /\ sub'.last_sequence_number # sub.last_sequence_number
               /\ queue' = queue - expired - 1 ]_vars
  BY <1>1, Zenon
<1> QED
  BY <1>2, SessionIsSound, PTL DEF Spec, ServableDataIsSent
=============================================================================
