# A TLA+ development for the OPC UA library

This directory holds TLA+ models of the OPC UA client and server library in
`src/lib/src`, the TLC configurations that model-check them, and proofs that
TLAPS checks. File names below are relative to `src/lib/src`. `PROJECT.json`
maps every definition to the lines it models.

## The system and its parts

An OPC UA server accepts *connections*. A connection opens a *secure channel*
and creates *sessions*, which all connections keep in one shared *session
manager*. A session owns *subscriptions*, and a subscription owns *monitored
items*, which sample nodes of the *address space* and queue what has changed.
A client sends *publish requests*, which wait until a subscription has something
to say. An answer carries one notification message with a sequence number, and
the server keeps the message until the client acknowledges it.

The reader, the writer and the timer of a connection are branches of one
`select!`, so a connection is one task. Tasks of several connections run in
parallel and meet at `parking_lot` locks.

A client's *session* is used by the application's thread and by a run loop,
which polls for publish responses, reconnects and drives two activity tasks.
Requests go through a *message queue* to the *transport*, a thread with a reader
and a writer. A call that waits for its response keeps the lock of the session
state while it waits.

| Part | Source | Status |
|---|---|---|
| publishing state machine | `server/subscriptions/subscription.rs` | modelled, proved |
| publish queues of a session | `server/subscriptions/subscriptions.rs` | modelled, proved |
| monitored items | `server/subscriptions/monitored_item.rs` | data items, proved |
| sessions, handler, transport, server task | `server/session.rs`, `server/services/session.rs`, `server/services/message_handler.rs`, `server/comms`, `server/server.rs` | control modelled, proved |
| locks | all services | modelled, proved except for two methods |
| address space, node management and view | `server/address_space`, `server/services` | structure modelled, proved |
| client session, queue, transport, subscriptions | `client` | control modelled, safety proved |
| secure channel | `core/comms/secure_channel.rs` | its keys, as the client uses them |
| chunks, events, crypto, types, generated code, configuration | | not modelled |

## Modules

**`SubscriptionEngine`** is a module of operators on one record, the fields of
`struct Subscription`: the state table (`update_state`, one operator for the
rows of each state), `handle_state_result`, `enqueue_notification` and `tick`.
Panics of the code are values of the field `panic`.

**`Subscription`** is the state machine around it: one subscription (`sub`),
the number of publish requests that wait (`queue`), whether an item has changed
(`pending`) and whether the client is gone. Its actions are the timer (which
first expires requests), a publish request (with both calls of `tick` that it
can cause), a data change, and the services that modify, touch or delete the
subscription. The code does the whole of each under the lock of the session, so
each is one action.

**`Subscriptions`** is the publish machinery of a session with several
subscriptions: request queue, transmission queue, responses and retransmission
queue. A tick visits the subscriptions one by one, so it is a sequence of
actions with a program counter. What one subscription does in its tick is the
set `Outcomes`. The variable `client_ahead`, which never changes, says whether the
client stamps its requests with times later than the server's clock; then the
timer panics as soon as it finds a request in the queue (`TimerPanics`).

**`TickOutcomes`** defines these outcomes, and joins the two levels:
`Subscriptions` lets each subscription choose one of them, and `Subscription`
shows that every tick of the state machine is one of them (`TicksAreOutcomes`).
What is shown of the queues therefore holds with the state machine in place, as
long as it does not panic.

**`PublishService`** is the abstract specification: requests wait in order, and
each is answered once, with the next number of a subscription or a time-out.
`Subscriptions` implements it (`ImplementsService`).

**`MonitoredItems`** models the data items of one subscription. A tick of the
transport's timer takes `tick_length` units of time, publish requests arrive in
any unit, and an item knows the age of its last sample in units, so that a sample
taken between two ticks is younger than a tick at the next one. `TickItems` is
`tick_monitored_items()`: sampling, reporting and triggering.

**`ServerSessions`** models connections, the shared session manager, the
handler of requests and the server task. A request takes several steps where
the code releases its locks in between: look-up, validation, service; close and
deregister. A session that is being closed has the null token, which a request
without a token has as well, so that such a session can still be found. Write
errors, the end of a connection, the abort and its poll are actions of their own.

**`Locks`** models threads that run programs over read-write locks as
`parking_lot` implements them: a writer that waits keeps new readers out.
**`ServerLocks`** gives the programs of the server: which locks each kind of
request, the timer, the session services and the clean-up take, in which order.
Session services raise audit events, for which they hold the lock of the audit
log while they take that of the address space.

**`References`** is a module of operators on the two maps of `struct
References`: forward references, and for each node the nodes it is looked up by.
**`AddressSpace`** is the state machine around it: the node map, the references,
the time of the last change as a counter, and the continuation points of one
session. Its actions are one item each of the four node management services, the
application's `add_folder_with_id()`, browse and browse next. An item that is
refused changes nothing and is not an action. A recursion of `delete()` that
does not end is the variable `aborted`.

**`ClientSession`** models a client over one connection after another. The
application, the run loop and the transport's thread have a program counter
each; `pending` is the synchronous call that waits, and with it the lock of the
session state. The poll has the session exclusively, so application and poll do
not overlap; the activity tasks need only the session state. A request is a
record with its handle and kind, and what is secured carries the pair of nonces
its keys were derived from. The server is external: it takes a request when the
writer writes it, answers in order except for publish requests, derives new keys
before it answers a renewal, and hangs up on a request under other keys. It may
refuse a publish request at once, and then does not look at the acknowledgements
in it, as the server of this library does (`subscriptions.rs:150`); they are in
`refused`. After a panic nothing moves. A host that cannot be resolved is left
out: `connect()` then returns before there is a thread to speak of.

`MC*` modules hold the constants of the instances. `*Proofs` modules hold the
theorems; `ClientSessionEffects` holds the inductive invariant of the client and
the lemmas on which `ClientSessionProofs` rests.

## Runs

| Run | What it checks |
|---|---|
| `subscription` | `SequenceIsContiguous`, `LateMeansStarved`, `OnlyFarewellWaits`, `CountersWithinLimits`, `TicksAreOutcomes`, `ServableDataIsSent`, `AbandonedIsClosed` |
| `subscription_keepalive` | violation of `KeepAliveIsSent` |
| `publish_queues` | `QueueIsBounded`, `NoNumberIsLost`, `NoRequestIsDropped`, `RetransmissionIsBounded`, `RequestIsAnswered`, refinement of `PublishService` |
| `sessions` | `SessionsAreBounded`, `LeftMeansTold`, `TokenlessIsClosing` |
| `sessions_live` | `ClosedLeaves` |
| `answer_route` | violation of `AnsweredOnItsConnection` |
| `locks` | `LocksInOrder`, `NoDeadlock`, `ProgramsEnd`, without the two methods of `locks_methods` |
| `locks_methods` | violation of `NoDeadlock` |
| `items` | `TicksKeepBounds`, `NewestIsLast`, `OverflowIsMarked`, `LinksStayDead`, `DueIsReported` |
| `address_space` | `BrowsedBothWays`, `PointsMissNothing`, `PointsInOrder`, `PointsGoOn`, `DeletedIsGone` |
| `client` | `TypeOK`, `KeysInStep`, `AcksAreKept`, `InflightIsAwaited`, `DisconnectReturns`, `CloseIsTold`, `PublishingGoesOn` |
| `client_reconnect` | violation of `SentAfterChannel` |

Each property is stated in words above its definition. Every module has a type
invariant, `TypeOK`; where it is proved it is not checked again.

### Violations and what they show

* `subscription_keepalive`: in state KeepAlive with publishing enabled, row 15
  asks for notifications. With nothing to report no row applies, the counter
  stays at one, and no keep-alive is sent.
* `answer_route`: the timer of a connection goes through the sessions of all
  connections and sends their publish responses to its own client.
* `locks_methods`: ResendData and GetMonitoredItems lock the session manager
  and sessions under the lock of the address space, against the documented
  order. A connection that holds the session manager or a session and waits for
  the address space, and the call, wait for each other for ever.
* `client_reconnect`: the run loop finds the connection lost and reconnects.
  `reset()` gives the session a new session state with a new message queue; the
  transport keeps the old queue and makes the channel to its writer there. The
  request to open the secure channel goes into the new queue, which has none,
  and panics.

### Bounds

* `subscription`: `MaxU32 = 3`, so sequence numbers wrap within a few
  messages; keep-alive counts up to 2 and lifetimes up to 6, so that the two
  counters run down at different speeds. Publish requests are bounded by the
  code itself (two for one subscription). `subscription_keepalive` has
  `MaxU32 = 2` and one choice of counts.
* `publish_queues`: two subscriptions of two priorities, five requests and
  `MaxU32 = 5`: requests compete, numbers wrap, and one subscription can fill
  the four places that the retransmission queue has for it. The constraint
  `FirstKeepsPriority` fixes the priority of one of the two; the other one's
  changes, so that all orders happen. `AheadSendsTwo` lets a client whose clock
  is ahead send two requests: the first that the timer sees stops everything.
* `sessions`: two connections, two sessions, a limit of one, so that creations
  compete for the last place; connections and sessions are symmetric. There
  are no publish requests (`MaxRequests = 0`), and the constraint `KeepsRunning`
  cuts off the abort. `sessions_live` has both, with one session, no channel
  renewal and no symmetry; the theorems cover the invariants with both and for
  any number of sessions.
* `locks`: two connections with one session each, and *without* the methods
  ResendData and GetMonitoredItems (`WithMethods = FALSE`). The server as it is
  has them, and `locks_methods` shows that it can deadlock; `locks` shows that
  the other programs do not deadlock among themselves. Two are enough for every
  circle of two; `ServerGoesOn` excludes the longer ones, for any number of
  connections.
* `items`: two items (one triggers the other), queues of one and two entries,
  two values, a publishing interval of two ticks, and ticks of two units of time,
  so that a publish request can fall into the middle of one. Sampling intervals in
  `Requests` are the revised ones. Item ids end at `MaxId`, and the age of a
  sample is not counted beyond `longest_interval`. By the constraint
  `FirstTriggers` only the first item triggers and reports; the other one is
  sampled.
* `address_space`: a root, a type and one more node, three reference types (one
  hierarchical, one aggregating, one neither), pages of one and two references,
  two continuation points, two changes after each other. The deletions are not
  bounded. Mutual references, references of two types between the same nodes,
  and circles of aggregates all happen.
* `client`: two connections, one renewal, one notification, `RetryLimit = 2`.
  The application makes no call after request handle `MaxCall = 3` and the tasks
  none after `MaxHandle = 5`; what follows of itself goes on beyond that. Opening
  the channel, the session and the subscription takes three handles and the first
  publish request the fourth, so that after a fault to it another one can be sent.
  One call, one renewal and one publish request at a time are what the lock of the
  session state allows anyway. Two constraints of `MCClientSession` keep the
  number of states down. After a renewal or a second attempt to connect,
  `OneAtATime` allows one publish request in flight, and after both
  `FirstRequests` follows the first six requests. The application creates
  at most one session and one subscription at a time. A handle is taken in the step
  that sends the request; the code takes it a moment before, which changes only
  its number. The theorems hold without the constraints and for every value of the
  bounds.

Deadlock checking is off where the system may stop: `ServerSessions` after the
end of the listener and of all connections, `MonitoredItems` after a panic
has ended the task, `ClientSession` when the application makes no more calls,
`AddressSpace` after a recursion of `delete()` that did not end, and
`Subscriptions` after a panic of the timer.

### Fairness

* `Subscription` and `Subscriptions` assume that the timer of
  the transport keeps firing: it is a `tokio` interval in a loop that ends only
  with the connection. In `Subscriptions` the timer is strongly fair because
  other work under the session lock disables it again and again. What goes on
  under a lock is weakly fair: it does not wait for anything.
  `PublishingSpec` adds a client that keeps sending requests.
* `ServerSessions` assumes that a handler that has begun goes on. Clients, the
  network and the poll are under no obligation.
* `ClientSession` assumes that the transport's thread comes to its end once its
  reader or its writer has, that a wait ends (it has a time-out), that a caller
  inside `connect()` or `disconnect()` goes on, and that the run loop handles the
  responses it has taken and drives its tasks. Nothing is assumed of the server,
  of the socket, which may take a write and never finish it, of the network or of
  the application's next call. `DisconnectReturns` therefore has a condition of
  its own, `NeverStuck`: a connection that lives writes what is in the channel of
  its writer. `PublishingGoesOn` makes an exception for a caller in
  `create_session()` that waits for the runtime of the run loop.
* `Locks` assumes strong fairness of taking a lock: `parking_lot` documents
  eventual fairness.

## Proofs

The proofs hold for every value of the constants under the named assumptions of
the modules: `NoSession` and `NoHome` are not members of the sets they extend,
`SubIds` and `SessionIds` are finite, limits are natural numbers, `MaxU32` is at
least two (with one number, a new number could not be told from the last), the
default keep-alive count is between one and the maximum, and `MaxLifetimeCount =
3 * MaxKeepAliveCount`, as the server's constants have it; nodes, reference
types and connections are finite, no connection has the name of a shared lock,
aggregating types are hierarchical, and neither the size of a page nor the
number of continuation points is zero. `Subscription` has one subscription and
so the fixed limit of two publish requests. `MaxRequests` bounds the behaviours
of `Subscriptions` and `ServerSessions`, `MaxModified` those of `AddressSpace`,
`MaxId` those of `MonitoredItems`, and the five bounds of `ClientSession` those
of the client, but the proofs hold for each value of them.

**`SubscriptionProofs`.** The invariant `Inv` says `Sound(sub, queue, present)`:
types, counters within limits, the next sequence number is the successor of the
last one, a late subscription has no request, a closed one that is still there
has something to say, and only a last status change waits. `Sound` is a property
of what one call of `tick()` gets and returns, so one lemma (`TickIsSound`)
serves the timer and both calls that a publish request causes. It is needed as a
whole, because the row that the table selects depends on the counters, and the
number that a notification gets depends on the row. `DataTheorem` follows the
data through one tick: what is collected gets the next number, which differs
from the last, and the pairing takes one request for it.
Theorems: `SessionIsSound`, `TypeCorrect`, `SequenceTheorem`, `PanicTheorem` (the
extent of the panic described below), `OutcomeTheorem` (a tick is an outcome of
`TickOutcomes`), `LateTheorem`, `FarewellTheorem`, `CountersTheorem`,
`DataTheorem`.

**`SubscriptionsProofs`.** `Inv` adds to the properties `Phasing` (queues of a
tick are empty outside it, and what is still to be visited has nothing on its
way), `Ordered` (outstanding requests are ascending, the one to be admitted is
the newest) and `Bounded` (the limit computed before a tick is one that was
allowed). Without `Phasing`, a number could be on its way twice; without
`Ordered`, the refinement mapping would not answer the oldest request first.
`RetransmissionTheorem` counts: of a finite set of keys, those with at least n
smaller ones leave n behind, because the least of them has n below it that are
not among them. `RequestTheorem` follows a request through a visit, an expiry and
an admission: each step moves it to the end of another queue, or leaves it where
it is. Theorems: `QueuesAreSound`, `QueuesTypeCorrect`, `NumbersTheorem`,
`BoundTheorem`, `RetransmissionTheorem`, `RequestTheorem`, `Refinement` (every
step maps to a step of `PublishService` or a stutter).

**`ServerSessionsProofs`.** `Inv` adds `Fresh` (ids not yet used are nowhere),
`Handling` (a handler that is under way holds a session that was created) and
`Closing` (what the handler between close and deregister knows). `Closing` is
what makes `TokenlessIsClosing` inductive. Theorems: `SessionsAreSound`,
`SessionsTypeCorrect`, `LimitTheorem`, `LeavingTheorem`, `ClosingTheorem`.

**`MonitoredItemsProofs`.** `Inv` says of every item that its queue fits unless the
task has panicked, that its last entry is the latest sample, and that the overflow bit is on an entry exactly
when `queue_overflow` says so; and that an overflow implies a queue of more than
one entry. Without the last, taking the marked entry away could leave the flag
behind. Theorems: `ItemsStayGood`, `TypesAreKept`, `QueuesAreBounded`,
`LatestIsLast`, `LossIsMarked`, `DeadLinksStayDead`, `DueItemsReport`.

**`LocksProofs`.** A program is *in order* when every step that takes a lock
comes after all the locks kept there, and it ends with none. The order
(`Before`) may be any relation in which every non-empty set of locks has a last
one. `ProgramsKeepOrder` shows that threads that run such programs stay in order
(`LocksInOrder`, which is inductive with the types): what a thread holds is what
its program has taken and not given back. `OrderPreventsDeadlock` takes, of a
set of threads that wait for each other, the last lock that any of them wants;
`OrderedProgramsGoOn` concludes that there is no such set, for any number of
threads and locks, if all programs are in order (`ProgramsInOrder`). For the
programs of `ServerLocks` without the two methods (`ServerSetting`) that is
`ServerProgramsInOrder`, for any number of connections: a program is put together
from steps, each with the locks held before and after it (`Path`), and two paths
that meet are one path (`Join`). A loop over the sessions is a recursive function;
`Each` takes the first round after which it would not be a path. `ServerKeepsOrder`
and `ServerGoesOn` put both parts together; with the methods the hypothesis is
false. `TypesAreKept` needs no hypothesis.

**`AddressSpaceProofs`.** `Inv` says that every forward reference is found by the
look-up of its target (the look-up may hold more, and after deletions of mutual
references it does), that no reference is from a node to itself, and of every
continuation point that is still valid that it has all that its node has.
`InverseAgreesWithForward` needs only the first; deletions need it too, because
they follow the look-up. `DeletionsCompose` justifies that the model deletes the
references of several nodes at once. For `PointsAlwaysGoOn` the invariant counts
what a point has given out in whole pages. Theorems: `AddressSpaceIsSound`,
`TypesAreKept`, `InverseAgreesWithForward`, `ValidPointsAreComplete`,
`OrderIsKept`, `PointsAlwaysGoOn`, `NothingMentionsDeleted`, `DeletionsAreLocal`
(the extent of what deleting a reference takes away).

**`ClientSessionEffects`, `ClientSessionProofs`.** `Inv` has a part for each thing
that the threads of the client share. `Control`, `Calling` and `Attempts` say who
is doing what: application and run loop never both; each phase of the transport's
thread has its channel, its wire and its caller; a session that was reset has no
channel and waits for nothing. `Messages` relates the entries of the queue to what
is on its way: the awaited request is the last one sent, its entry is there until
its answer is, and the handle that a renewal delays is used nowhere else. `Keys`
follows a nonce from the request through the server and back: until the client
derives its keys from the answer, nothing is sent behind the renewal, so that
nothing is secured with older keys. `Acknowledgements` says that a notification is
in one place, from the server's answer to its acknowledgement or to the refusal of
the request that carries it. None of the four safety properties is inductive
alone: keys stay in step because callers wait, callers get their own answers because handles are not used twice, and an
acknowledgement that a renewal delays is kept because the wait remembers the
request. The last three parts are shown to be kept effect by effect (a request is
sent, written, answered, read; the connection is dropped, the queue cleared, a wait
ended), and then every action by its effects. Theorems: `ClientInvariant`,
`ClientTypes`, `ClientKeys`, `ClientAcknowledges`, `ClientResponses`.

**Only model-checked.** The liveness properties `AbandonedIsClosed`,
`RequestIsAnswered`, `ClosedLeaves`, `ProgramsEnd`, `DisconnectReturns`,
`CloseIsTold` and `PublishingGoesOn`: fairness and ENABLED are out of the prover's
reach.

## Other differences between code and comments

Seen while modelling, and not the subject of a run of their own:

* A value changes in the interval in which the lifetime of a subscription ends.
  `tick()` has collected a notification by then, and `handle_state_result()`
  panics with "SubscriptionExpired got a notification" (`subscription.rs:551`),
  which it takes for impossible. It does happen in `Subscription`; `PanicTheorem`
  shows that no other of the combinations that the state machine calls impossible
  does.
* A publish request with a time stamp later than the server's clock makes the
  timer panic: `to_std().unwrap()` fails on a negative age (`subscriptions.rs:325`,
  under a TODO). The task of the connection ends, and the request is never
  answered. `RequestIsAnswered` is about clients whose clock is not ahead.
* An abort is said to take effect "after all sessions have disconnected"
  (`server.rs:422`), and the poll to break "on abort & no open connections"
  (`server.rs:494`). It signals the listener at once and only logs a warning when
  connections are open (`AbortPoll`).
* "All notifications of the items to report are sent after the publishing
  interval expires" (`subscription.rs:926`). An item looks at its queue only when
  a sample is due, and the queue is taken only when the publishing interval
  elapses in the same tick. With equal intervals and different phases that may
  never happen, and a publish request between two ticks, which also samples, moves
  the phase. `DueIsReported` covers the items for which a sample is due.
* A publish request closes a subscription whose lifetime counter is one
  (`subscription.rs:635`), although the lifetime is about missing requests.
* Subscriptions are sorted by ascending priority (`subscriptions.rs:219`).
* A full publish queue refuses the new request; the comment
  (`subscriptions.rs:133`) says the oldest is removed.
* Notifications to be dropped are chosen by subscription and number, not by age
  (`subscriptions.rs:493`).
* The end of any connection clears the sessions of all (`session.rs:82`), and
  the limit of sessions "in a single connection" is that of the server
  (`message_handler.rs:126`).
* A session created after a write error stays in the map: `process_chunk()`
  ignores the state of the transport, and the second `finish()` does nothing.
* The poll sweeps live connections once the last session has been closed, and
  keeps dead ones that ended without it (`server.rs:430`).
* "Shrink / grow the notification queue to the new threshold" and "Discard old
  notifications" (`monitored_item.rs:182`, `:184`) are comments on a queue that is
  longer than its new size; the subtraction below them is the wrong way round,
  underflows and panics (`monitored_item.rs:185`). `TicksKeepBounds` is about
  ticks, and says nothing of `modify()`.
* A continuation point is valid "only true if address space has not been modified
  since the point was made" (`continuation_point.rs:24`), but deletions do not
  set the time stamp. A valid point may therefore name what is gone;
  `PointsMissNothing` is the half that holds.
* `add_node()` inserts a *forward* reference from the new node to its parent
  (`node_management.rs:400`), while the builders insert an inverse one. With an
  aggregating type, deleting the child deletes the parent, and the test for
  duplicate browse names does not see such children.
* "Deletes a matching references between one node and the target node of the
  specified reference type" (`references.rs:205`): deleting the last reference from
  A to B also deletes all references from B to A, of whatever type
  (`references.rs:183`, `:253`), and leaves the look-up of A by B behind.
  `DeletionsAreLocal` shows that no others go.
* A circle of aggregates makes `delete()` recurse without end
  (`address_space.rs:922`).
* A reference from a node to itself, and a new node whose browse name is not in
  namespace 0, reach a panic (`references.rs:130`, `node_management.rs:349`).
* For an inverse item, `add_reference()` looks for a duplicate in the direction
  it then does not insert (`node_management.rs:450`).
* A node deleted without its references hands them to a new node of the same id.
* After a renewal that timed out the client goes on with its old keys while the
  server may have new ones; a publish response that the server sends between its
  change of keys and the client's ends the connection. `KeysInStep` says
  that nothing else brings the keys out of step.
* A publish request takes the acknowledgements out of the list
  (`client/session/session_state.rs:284`). When the server refuses it, which it does
  before it looks at them (`subscriptions.rs:150`), the client does not put them
  back (`client/session/session_state.rs:579`): the server keeps the notifications
  until they are too many. `AcksAreKept` says that no acknowledgement goes
  twice and that none is lost in any other way while the connection lives.
* `wait_for_disconnect()` polls until the writer has ended
  (`client/comms/tcp_transport.rs:384`), and a write has no time-out (`:471`). With a
  server that neither reads nor hangs up, `disconnect()` may not return; hence the
  condition of `DisconnectReturns`.
* `connect()` makes one attempt less than the retry limit says, and the first
  retry follows immediately.
* The keep-alive time of a client is computed from the lifetime count
  (`subscription_state.rs:161`); the comment at `client/session/session.rs:835`
  says the keep alive count.
* A session created while the run loop runs waits for the runtime that the loop
  holds (`client/session/session.rs:784`), and so until the loop ends.
* One item more than `max_monitored_items_per_sub` is created
  (`subscription.rs:265`).

## Not modelled

Event items and filters with dead bands; user identities and certificates;
attributes and values of nodes; clocks that are set back; the transport lock, which
other tasks only try, and the locks of diagnostics and of the configuration, under
which no other lock is taken. Subtypes of reference types are a constant of
`References`; the code reads them from the same references. Encoding,
cryptography and generated tables are computation on bytes.

*Chunks*: both writers of the library put a message into one chunk
(`message_writer.rs` passes a chunk size of zero), so a message is a chunk in
the models. What the readers do with several chunks is arithmetic on sequence
numbers and could only be driven by a peer that is not in the repository.

*Hazards that the models do not reach*: a clock that is set back makes
`to_std().unwrap()` panic (`server/subscriptions/subscription.rs:410`,
`monitored_item.rs:265`); `modify()` has changed an event item when its filter turns out to be invalid
(`monitored_item.rs:196`); a message that fails half way leaves a gap in the
sequence numbers, which are also added without a wrap
(`core/comms/message_writer.rs:78`, `chunker.rs:81`); a chunk that arrives twice
is skipped, and so is everything after a missing one
(`client/comms/tcp_transport.rs:187`); asynchronous responses are handed out in
the order of handles that wrap (`client/message_queue.rs:137`); activity tasks
that do not see the end of their connection go on beside those of the next one
(`client/session/session.rs:796`).

*The transfer of subscriptions after a reconnect*: the client panics before it
gets there (`client_reconnect`).

*Services of the client* that send one request and return its response are one
action of `ClientSession`; the mirror that the client keeps of its monitored
items is not modelled.

*Share of the code*: more than two thirds of the library's lines are generated
(the standard address space, the service types, node ids and status codes) or
are tests, types, encodings and wrappers of OpenSSL. The models stand for about
6 500 lines, most of them in `server` and `client`, where the library has
state that more than one thread or message can reach.
