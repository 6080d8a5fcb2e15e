----------------------------- MODULE Subscriptions -----------------------------
(***************************************************************************)
(* The publish queues of a session (server/subscriptions/subscriptions.rs): *)
(* publish requests wait for notifications, notifications are paired with   *)
(* requests in the transmission queue, become publish responses, and are    *)
(* kept for retransmission until they are acknowledged.                     *)
(*                                                                          *)
(* A subscription is reduced to what module TickOutcomes says of it: in a   *)
(* tick it hands over at most one notification, with the next sequence      *)
(* number, and only when a request is queued; or it expires, and then its   *)
(* final status change waits for a request.  Which of the three happens is  *)
(* chosen when the tick visits the subscription.                            *)
(*                                                                          *)
(* All calls run under the session's write lock.  A call of tick() is a     *)
(* series of steps, one for each turn of its loops; pc tells where the      *)
(* thread that holds the lock is, and no other call starts before it is     *)
(* "idle" again.  Sequences hold the oldest element first: the code pushes  *)
(* at the front and pops at the back.                                       *)
(***************************************************************************)
EXTENDS TickOutcomes, Integers, Sequences, FiniteSets

CONSTANTS SubIds,       \* the subscription ids the server hands out
          Priorities,   \* u8 priorities
          MaxRequests   \* bound: publish requests the client sends

ASSUME SubscriptionsAssumption ==
  /\ SubIds \subseteq Nat /\ IsFiniteSet(SubIds)
  /\ Priorities \subseteq Nat
  /\ MaxRequests \in Nat

VARIABLES
  subs,                    \* id -> [phase, priority, last]
  publish_request_queue,   \* requests, each with the results of its acks
  transmission_queue,      \* (subscription, request, sequence number)
  publish_response_queue,  \* responses not yet handed to the transport
  retransmission_queue,    \* (subscription, sequence number), unacknowledged
  requests,                \* number of requests received: ids count up
  pc,                      \* where the thread under the lock is
  todo,                    \* subscriptions that this tick has still to visit
  stale,                   \* timed out requests that are still to be answered
  caller,                  \* who called tick()
  waiting,                 \* the publish request being enqueued, or none
  published,               \* history: the last number that a response carried
  client_ahead             \* the client's clock is ahead of the server's

queues   == <<publish_request_queue, transmission_queue, publish_response_queue,
              retransmission_queue>>
tickVars == <<pc, todo, stale, caller, waiting>>
vars     == <<subs, queues, requests, tickVars, published, client_ahead>>

(* A subscription is "new" before it is created, "live", "closed" while its
   final status change waits for a publish request, then "removed"; or
   "deleted" by the client. *)
Phases   == {"new", "live", "closed", "removed", "deleted"}
Existing == {i \in SubIds : subs[i].phase \in {"live", "closed"}}

max_publish_requests == 2 * Cardinality(Existing)

NoRequest == [id |-> 0, acks |-> {}, limit |-> 0]

(* The order in which tick() visits: a stable sort by priority of the ids. *)
Before(i, j) ==
  \/ subs[i].priority < subs[j].priority
  \/ subs[i].priority = subs[j].priority /\ i <= j

Init ==
  /\ subs = [i \in SubIds |-> [phase |-> "new", priority |-> 0, last |-> 0]]
  /\ publish_request_queue = <<>>
  /\ transmission_queue = <<>>
  /\ publish_response_queue = <<>>
  /\ retransmission_queue = {}
  /\ requests = 0
  /\ pc = "idle" /\ todo = {} /\ stale = {}
  /\ caller = "timer" /\ waiting = NoRequest
  /\ published = [i \in SubIds |-> 0]
  /\ client_ahead \in BOOLEAN

-----------------------------------------------------------------------------
(* Subscriptions::tick() *)

(* Collect the ids. *)
TickBegin(who) ==
  /\ pc' = "visit"
  /\ caller' = who
  /\ todo' = Existing

(* One turn of the first loop: tick the subscription, pair what it hands over
   with the oldest request, remove it if it is done. *)
TickSubscription(i, outcome) ==
  LET req    == publish_request_queue # <<>>
      new    == Speaks(outcome, req)
      closed == Closes(subs[i].phase, outcome)
      last   == LastAfter(subs[i].last, new)
  IN  /\ pc = "visit"
      /\ i \in todo /\ \A j \in todo : Before(i, j)
      /\ todo' = todo \ {i}
      /\ IF req /\ (new \/ closed)
         THEN /\ transmission_queue' = Append(transmission_queue,
                   [sub |-> i, req |-> Head(publish_request_queue), seq |-> last])
              /\ publish_request_queue' = Tail(publish_request_queue)
         ELSE UNCHANGED <<transmission_queue, publish_request_queue>>
      /\ subs' = [subs EXCEPT
           ![i] = [@ EXCEPT !.last = last,
                            !.phase = PhaseAfter(subs[i].phase, closed, req)]]
      /\ UNCHANGED <<publish_response_queue, retransmission_queue, requests, pc,
                     stale, caller, waiting, published, client_ahead>>

(* One turn of the second loop: the oldest paired notification becomes a
   response and is kept for retransmission. *)
Transmit ==
  LET t == Head(transmission_queue)
  IN  /\ pc = "visit" /\ todo = {}
      /\ transmission_queue # <<>>
      /\ transmission_queue' = Tail(transmission_queue)
      /\ retransmission_queue' = retransmission_queue \cup {<<t.sub, t.seq>>}
      /\ publish_response_queue' = Append(publish_response_queue,
           [req |-> t.req, sub |-> t.sub, seq |-> t.seq,
            more |-> \E k \in 2..Len(transmission_queue) :
                       transmission_queue[k].sub = t.sub])
      /\ published' = [published EXCEPT ![t.sub] = t.seq]
      /\ UNCHANGED <<subs, publish_request_queue, requests, tickVars, client_ahead>>

(* remove_old_unacknowledged_notifications(): the numbers of subscriptions
   that no longer exist, then, in key order, as many as exceed the limit. *)
KeyBefore(k, l) == k[1] < l[1] \/ (k[1] = l[1] /\ k[2] < l[2])

(* Mutant: one too many is kept. *)
RemoveOldKeepsOneMore(keys) ==
  LET kept   == {k \in keys : k[1] \in Existing}
      excess == Cardinality(kept) - 2 * max_publish_requests
  IN  {k \in kept : Cardinality({l \in kept : KeyBefore(l, k)}) + 1 >= excess}

RemoveOld(keys) ==
  LET kept   == {k \in keys : k[1] \in Existing}
      excess == Cardinality(kept) - 2 * max_publish_requests
  IN  {k \in kept : Cardinality({l \in kept : KeyBefore(l, k)}) >= excess}

(* Mutant: the timer does not hand over the responses. *)
AfterTickIdle(who) == IF who = "room" THEN "admit" ELSE "idle"

(* The end of tick(): the timer goes on to take the responses, a publish
   request that wanted to make room is admitted, one that is queued is done. *)
AfterTick(who) == CASE who = "timer"   -> "take"
                    [] who = "room"    -> "admit"
                    [] who = "request" -> "idle"

TickEnd ==
  /\ pc = "visit" /\ todo = {} /\ transmission_queue = <<>>
  /\ retransmission_queue' = RemoveOld(retransmission_queue)
  /\ pc' = AfterTick(caller)
  /\ UNCHANGED <<subs, publish_request_queue, transmission_queue,
                 publish_response_queue, requests, todo, stale, caller, waiting,
                 published, client_ahead>>

-----------------------------------------------------------------------------
(* The calls of the session. *)

(* create_subscription(): ids are handed out in ascending order. *)
CreateSubscription(i, priority) ==
  /\ pc = "idle"
  /\ subs[i].phase = "new" /\ \A j \in SubIds : j < i => subs[j].phase # "new"
  /\ subs' = [subs EXCEPT ![i] = [@ EXCEPT !.phase = "live",
                                          !.priority = priority]]
  /\ UNCHANGED <<queues, requests, tickVars, published, client_ahead>>

DeleteSubscription(i) ==
  /\ pc = "idle" /\ i \in Existing
  /\ subs' = [subs EXCEPT ![i].phase = "deleted"]
  /\ UNCHANGED <<queues, requests, tickVars, published, client_ahead>>

(* modify_subscription(), as far as the order of the visits depends on it. *)
SetPriority(i, priority) ==
  /\ pc = "idle" /\ i \in Existing
  /\ subs' = [subs EXCEPT ![i].priority = priority]
  /\ UNCHANGED <<queues, requests, tickVars, published, client_ahead>>

(* What the client has received and not acknowledged. *)
Acknowledgeable ==
  {k \in retransmission_queue :
     ~\E n \in 1..Len(publish_response_queue) :
        /\ publish_response_queue[n].sub = k[1]
        /\ publish_response_queue[n].seq = k[2]}

(* Mutant: one request too many. *)
IsFullLate(q, limit) == Len(q) > limit

IsFull(q, limit) == Len(q) >= limit

(* Mutant: the new request is placed where the oldest is taken. *)
EnqueuedFirst(q, r) == <<r>> \o q

Enqueued(q, r) == Append(q, r)

(* enqueue_publish_request(), up to the check for room: a full queue is ticked
   first.  The limit is computed here, once. *)
PublishRequest(acks) ==
  /\ pc = "idle" /\ requests < MaxRequests
  /\ Existing # {}
  /\ requests' = requests + 1
  /\ waiting' = [id |-> requests + 1, acks |-> acks,
                 limit |-> max_publish_requests]
  /\ IF IsFull(publish_request_queue, max_publish_requests)
     THEN TickBegin("room")
     ELSE pc' = "admit" /\ UNCHANGED <<todo, caller>>
  /\ UNCHANGED <<subs, queues, stale, published, client_ahead>>

(* The rest of it: refuse with BadTooManyPublishRequests, or process the
   acknowledgements, queue the request and tick. *)
Admit ==
  /\ pc = "admit"
  /\ waiting' = NoRequest
  /\ IF IsFull(publish_request_queue, waiting.limit)
     THEN /\ pc' = "idle"
          /\ UNCHANGED <<queues, todo, caller>>
     ELSE /\ retransmission_queue' = retransmission_queue \
               {k \in waiting.acks : k[1] \in Existing}
          /\ publish_request_queue' = Enqueued(publish_request_queue, waiting.id)
          /\ TickBegin("request")
          /\ UNCHANGED <<transmission_queue, publish_response_queue>>
  /\ UNCHANGED <<subs, requests, stale, published, client_ahead>>

(* A firing of the subscription timer, for this session: the requests in late
   are older than their timeout. *)
TimerFired(late) ==
  /\ pc = "idle"
  /\ pc' = "expire"
  /\ stale' = late
  /\ UNCHANGED <<subs, queues, requests, todo, caller, waiting, published, client_ahead>>

(* expire_stale_publish_requests() subtracts the time stamp that the client gave
   to a request from the time of the server.  A stamp from the future makes
   to_std().unwrap() panic: the task of the connection ends, and with it the
   timer. *)
TimerPanics ==
  /\ pc = "idle"
  /\ client_ahead /\ publish_request_queue # <<>>
  /\ pc' = "panicked"
  /\ UNCHANGED <<subs, queues, requests, todo, stale, caller, waiting, published,
                 client_ahead>>

(* With stamps from the past: a fault for each, the oldest first ... *)
Without(q, k) == SubSeq(q, 1, k - 1) \o SubSeq(q, k + 1, Len(q))

(* Mutant: a request that times out is dropped. *)
WithTimeoutDropped(responses, r) == responses

WithTimeout(responses, r) ==
  Append(responses, [req |-> r, sub |-> 0, seq |-> 0, more |-> FALSE])

ExpireRequest(k) ==
  /\ pc = "expire"
  /\ publish_request_queue[k] \in stale
  /\ \A n \in 1..k - 1 : publish_request_queue[n] \notin stale
  /\ stale' = stale \ {publish_request_queue[k]}
  /\ publish_request_queue' = Without(publish_request_queue, k)
  /\ publish_response_queue' = WithTimeout(publish_response_queue,
                                           publish_request_queue[k])
  /\ UNCHANGED <<subs, transmission_queue, retransmission_queue, requests, pc,
                 todo, caller, waiting, published, client_ahead>>

(* ... and then the tick. *)
ExpireEnd ==
  /\ pc = "expire" /\ stale = {}
  /\ TickBegin("timer")
  /\ UNCHANGED <<subs, queues, requests, stale, waiting, published, client_ahead>>

(* take_publish_responses(): the responses go to the writing task. *)
TakeResponses ==
  /\ pc = "take"
  /\ pc' = "idle"
  /\ publish_response_queue' = <<>>
  /\ UNCHANGED <<subs, publish_request_queue, transmission_queue,
                 retransmission_queue, requests, todo, stale, caller,
                 waiting, published, client_ahead>>

-----------------------------------------------------------------------------
Held == {publish_request_queue[k] : k \in 1..Len(publish_request_queue)}

(* A step of the thread that holds the session's lock. *)
UnderLock ==
  \/ \E i \in SubIds : \E outcome \in Outcomes(subs[i].phase) :
                        TickSubscription(i, outcome)
  \/ Transmit
  \/ TickEnd
  \/ Admit
  \/ \E k \in 1..Len(publish_request_queue) : ExpireRequest(k)
  \/ ExpireEnd
  \/ TakeResponses

Next ==
  \/ \E i \in SubIds, p \in Priorities : CreateSubscription(i, p)
  \/ \E i \in SubIds : DeleteSubscription(i)
  \/ \E i \in SubIds, p \in Priorities : SetPriority(i, p)
  \/ PublishRequest({})
  \/ \E k \in Acknowledgeable : PublishRequest({k})
  \/ \E late \in SUBSET Held : TimerFired(late)
  \/ TimerPanics
  \/ UnderLock

Spec == Init /\ [][Next]_vars

(* A thread that holds the lock goes on; the timer keeps firing, and a request
   that stays queued is stale at some firing, because its age only grows. *)
Fairness ==
  /\ WF_vars(UnderLock)
  /\ SF_vars(TimerFired(Held))

FairSpec == Spec /\ Fairness

-----------------------------------------------------------------------------
SubRecord == [phase : Phases, priority : Priorities \cup {0}, last : 0..MaxU32]

Transmission == [sub : SubIds, req : 1..MaxRequests, seq : 1..MaxU32]

Response == [req : 1..MaxRequests, sub : SubIds \cup {0}, seq : 0..MaxU32,
             more : BOOLEAN]

TypeOK ==
  /\ subs \in [SubIds -> SubRecord]
  /\ publish_request_queue \in Seq(1..MaxRequests)
  /\ transmission_queue \in Seq(Transmission)
  /\ publish_response_queue \in Seq(Response)
  /\ retransmission_queue \subseteq SubIds \X (1..MaxU32)
  /\ requests \in 0..MaxRequests
  /\ pc \in {"idle", "visit", "admit", "expire", "take", "panicked"}
  /\ todo \subseteq Existing /\ stale \subseteq Held
  /\ caller \in {"timer", "room", "request"}
  /\ waiting \in [id : 0..MaxRequests, acks : SUBSET (SubIds \X (1..MaxU32)),
                  limit : Nat]
  /\ published \in [SubIds -> 0..MaxU32]
  /\ client_ahead \in BOOLEAN

(* The requests that are not answered yet, oldest first. *)
Pending(paired, queued) == [k \in 1..Len(paired) |-> paired[k].req] \o queued

Outstanding == Pending(transmission_queue, publish_request_queue)

(* tick() answers the oldest request first, numbers the notifications of a
   subscription without gaps and answers no request twice: the session
   implements the publish service. *)
Service == INSTANCE PublishService
             WITH Requests <- 1..MaxRequests, outstanding <- Outstanding,
                  last <- published

ImplementsService == Service!ServiceSpec

(* The queues never hold more than two requests per subscription that was
   ever created, although the limit that enqueue_publish_request() checks may
   be stale when the tick that makes room removes subscriptions. *)
Created == {i \in SubIds : subs[i].phase # "new"}

QueueIsBounded == Len(Outstanding) <= 2 * Cardinality(Created)

(* However many notifications the client leaves unacknowledged, after a tick
   the retransmission queue holds those of existing subscriptions only, at most
   four for each. *)
RetransmissionIsBounded ==
  [][pc = "visit" /\ pc' # "visit" =>
       /\ \A k \in retransmission_queue' : k[1] \in Existing
       /\ Cardinality(retransmission_queue') <= 4 * Cardinality(Existing)]_vars

(* No number is lost between Subscription::tick() and the client: the last one
   that a subscription gave out is on its way as the successor of the last one
   sent, or it was sent itself, or it is the number of the final status change
   that still waits for a request. *)
OnItsWay(i) ==
  \E k \in 1..Len(transmission_queue) : transmission_queue[k].sub = i

NoNumberIsLost ==
  /\ \A k \in 1..Len(transmission_queue) :
       LET t == transmission_queue[k]
       IN  /\ t.seq = subs[t.sub].last
           /\ t.seq = NextHandle(published[t.sub])
           /\ subs[t.sub].phase \in {"live", "removed"}
  /\ \A i \in SubIds :
       ~OnItsWay(i) /\ subs[i].phase # "deleted" =>
         IF subs[i].phase = "closed"
         THEN subs[i].last = NextHandle(published[i])
         ELSE subs[i].last = published[i]

(* The session still owes an answer to request r. *)
Unanswered(r) ==
  \/ waiting.id = r
  \/ \E k \in 1..Len(Outstanding) : Outstanding[k] = r
  \/ \E k \in 1..Len(publish_response_queue) : publish_response_queue[k].req = r

(* No publish request is dropped: it leaves the session when the timer takes
   its response, or at once with BadTooManyPublishRequests when the queue is
   full. *)
NoRequestIsDropped ==
  [][\A r \in 1..MaxRequests :
       Unanswered(r) /\ ~Unanswered(r)' =>
         \/ pc = "take" /\ \E k \in 1..Len(publish_response_queue) :
                              publish_response_queue[k].req = r
         \/ pc = "admit" /\ Len(publish_request_queue) >= waiting.limit]_vars

(* Every publish request of a client whose clock is not ahead of the server's
   is answered: with a notification, with a fault when it times out, or at once
   when it is refused (tick(), expire_stale_publish_requests()).  The client
   sends MaxRequests in all, so that a moment without any unanswered request
   comes after each one. *)
RequestIsAnswered ==
  ~client_ahead => []<>(\A r \in 1..MaxRequests : ~Unanswered(r))
=============================================================================
