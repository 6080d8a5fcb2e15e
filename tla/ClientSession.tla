--------------------------- MODULE ClientSession ---------------------------
(***************************************************************************)
(* The client's session over a secured connection: the application's       *)
(* thread, the thread of the run loop (which polls and drives the activity *)
(* tasks), and the transport's thread (one reader and one writer).  They   *)
(* meet in the message queue, under the write lock of the session state,   *)
(* which a caller keeps while it waits for a synchronous response, and in  *)
(* the keys of the secure channel.                                         *)
(*                                                                         *)
(* The server and the wire are external: the server takes a request when   *)
(* the writer writes it and answers in order, except a publish request,    *)
(* which it may hold as long as it likes.  It may also stop reading, and   *)
(* then a write does not end: it has no time-out.  Time is abstract: a     *)
(* wait may expire and an interval may elapse at any moment.               *)
(*                                                                         *)
(* Requests and responses are identified by the request handle.  Nonces    *)
(* are numbered, the server's nonce like the client's it answers, and the  *)
(* keys derived from a pair of nonces are that pair.                       *)
(***************************************************************************)
EXTENDS Integers, Sequences

CONSTANTS
    MaxCall,         \* the application makes no new call past this handle
    MaxHandle,       \* the activity tasks send nothing past this handle
    MaxAnswers,      \* publish responses the server sends
    MaxRenewals,     \* renewals of the security token
    MaxConnections,  \* attempts to connect
    RetryLimit       \* SessionRetryPolicy::retry_limit

ASSUME ClientAssumption ==
    /\ MaxCall \in Nat /\ MaxHandle \in Nat /\ MaxAnswers \in Nat /\ MaxRenewals \in Nat
    /\ MaxConnections \in Nat /\ RetryLimit \in Nat

VARIABLES
    \* The transport
    connection,      \* ConnectionState of the transport
    thread,          \* what the transport's thread is doing
    wanted,          \* a thread waits for the transport's runtime
    attempts,        \* connections asked for so far
    outgoing,        \* the channel to the writer
    to_client,       \* what the server has written and the reader not read
    \* The session state and its message queue
    shared,          \* the session and the transport use one queue
    sender,          \* the sending end of the session's queue
    inflight,        \* inflight_requests
    responses,       \* async responses not polled yet
    acks,            \* subscription_acknowledgements
    handle,          \* request_handle
    pending,         \* the synchronous wait under the session state's lock
    mailbox,         \* the channel of that wait
    batch,           \* responses taken by poll, still to be handled
    \* The session
    pc,              \* where the application and the run loop are
    retrying,        \* the application is inside connect()
    retry_count,
    session_id,      \* a session was created
    subscribed,      \* keep_alive_timeout is Some
    running,         \* run_loop has the session's runtime
    tasks,           \* the activity tasks are alive
    renewals,
    panicked,
    \* The keys
    local_nonce, keys, server_keys,
    \* The server
    held,            \* publish requests the server holds
    answers,         \* publish responses it has sent
    acked,           \* notifications acknowledged to it
    refused,         \* acknowledgements in publish requests it refused
    \* History
    handled,         \* notifications handled on this connection
    in_step          \* the channel was issued and no renewal was given up

transport_vars == <<connection, thread, wanted, attempts>>
queue_vars     == <<sender, inflight, outgoing, panicked>>
session_vars   == <<pc, retrying, retry_count, session_id, subscribed, running,
                    tasks>>
key_vars       == <<local_nonce, keys, server_keys, in_step>>
server_vars    == <<to_client, held, answers, acked, refused>>
dropped_vars   == <<sender, outgoing, to_client, server_keys, in_step, held,
                    handled>>
vars == <<transport_vars, queue_vars, session_vars, key_vars, server_vars,
          shared, responses, acks, handle, pending, mailbox, batch, renewals,
          handled>>

-----------------------------------------------------------------------------
States   == {"NotStarted", "Connecting", "Connected", "WaitingForAck",
             "Processing", "Finished"}
SyncKinds == {"open", "renew", "create", "subscribe", "read", "closesession"}
Kinds    == SyncKinds \cup {"publish", "ping", "close", "quit"}
Handles  == Nat
Numbers  == 1 .. MaxAnswers
NoKeys   == <<0, 0>>
Nonces   == 0 .. (MaxConnections + MaxRenewals)
Request  == [h : Handles, kind : Kinds, acks : SUBSET Numbers, nonce : Nonces]
NoRequest == [h |-> 0, kind |-> "quit", acks |-> {}, nonce |-> 0]
\* "data" is the nonce of the server, or the number of the notification; "again"
\* says that the client is to send another publish request.
Answer   == [h : Handles, ok : BOOLEAN, data : Numbers \cup Nonces, again : BOOLEAN]
NoAnswer == [h |-> 0, ok |-> FALSE, data |-> 0, again |-> FALSE]
NoWait   == [by |-> "none", kind |-> "quit", h |-> 0, expired |-> FALSE,
             then |-> NoRequest]

IsConnected == connection \in {"Connected", "WaitingForAck", "Processing"}
IsFinished  == connection = "Finished"

\* The write lock of the session state: a wait and a poll keep it.
LockIsFree == pending = NoWait /\ batch = {}

\* The session's own lock: poll has it exclusively, a call of the application
\* shares it.  The run loop's thread does one thing at a time.
AppIsIdle == pc["app"] = "idle" /\ pending.by # "app"
RunIsIdle == pc["run"] = "idle" /\ batch = {} /\ pending.by \notin {"poll", "task"}
AppMayCall  == pc["app"] = "idle" /\ pc["run"] = "idle" /\ batch = {}
               /\ pending.by \notin {"app", "poll"}
PollMayRun  == running /\ AppIsIdle /\ RunIsIdle

Goto(who, label) == pc' = [pc EXCEPT ![who] = label]

-----------------------------------------------------------------------------
(* The message queue and the sending of requests                           *)

\* add_request: the entry is made before the request is handed to the writer;
\* a closed channel drops the request and says so only in the log.
AddRequest(r, entries) ==
    /\ inflight' = entries \cup {[h |-> r.h, sync |-> r.kind \in SyncKinds]}
    /\ outgoing' = IF sender = "open" THEN Append(outgoing, r) ELSE outgoing
    /\ panicked' = (sender = "none")
    /\ UNCHANGED sender

WaitFor(by, r, then) ==
    [by |-> by, kind |-> r.kind, h |-> r.h, expired |-> FALSE, then |-> then]

\* A request without a caller that waits gives the lock back.
AfterSending(by, r) ==
    IF r.kind \in SyncKinds THEN WaitFor(by, r, NoRequest) ELSE NoWait

Made(h, kind, acknowledgements, nonce) ==
    [h |-> h, kind |-> kind, acks |-> acknowledgements, nonce |-> nonce]

SendNow(by, kind, acknowledgements, nonce) ==
    LET request == Made(handle + 1, kind, acknowledgements, nonce) IN
    /\ AddRequest(request, inflight)
    /\ handle' = handle + 1
    /\ pending' = AfterSending(by, request)
    /\ UNCHANGED renewals

\* async_send_request: when the token is due, the renewal is sent and waited
\* for first, and its outcome is ignored.  The nonce of the client is set
\* before the renewal is sent.
SendRequest(by, kind, acknowledgements) ==
    \/ /\ SendNow(by, kind, acknowledgements, 0)
       /\ UNCHANGED local_nonce
    \/ /\ keys # NoKeys /\ renewals < MaxRenewals
       /\ LET renewal == Made(handle + 2, "renew", {}, attempts + renewals + 1) IN
          /\ AddRequest(renewal, inflight)
          /\ pending' = WaitFor(by, renewal, Made(handle + 1, kind, acknowledgements, 0))
          /\ local_nonce' = renewal.nonce
       /\ handle' = handle + 2
       /\ renewals' = renewals + 1

\* Mutant: the acknowledgements are copied into the request, not drained.
AsyncPublishCopies(by, acknowledgements) ==
    /\ SendRequest(by, "publish", acknowledgements)
    /\ acks' = acknowledgements

\* async_publish drains the acknowledgements into the request.
AsyncPublish(by, acknowledgements) ==
    /\ SendRequest(by, "publish", acknowledgements)
    /\ acks' = {}

\* Mutant: the caller waits without a timeout.
NeverTimesOut == FALSE /\ UNCHANGED vars

\* recv_timeout gives up; the entry is still in flight.
TimesOut ==
    /\ pending # NoWait /\ ~pending.expired /\ mailbox = NoAnswer
    /\ pending' = [pending EXCEPT !.expired = TRUE]
    /\ UNCHANGED <<transport_vars, queue_vars, session_vars, key_vars,
                   server_vars, shared, responses, acks, handle, mailbox,
                   batch, renewals, handled>>

Returned(ok) ==
    /\ pending # NoWait
    /\ IF pending.expired THEN ~ok ELSE mailbox # NoAnswer /\ ok = mailbox.ok

\* Mutant: a request that timed out stays in flight.
EntriesStay == inflight

\* request_has_timed_out: the entry goes, and with it a response that came
\* after the wait had expired.
EntriesLeft ==
    IF pending.expired THEN {i \in inflight : i.h # pending.h} ELSE inflight

\* store_response: the entry decides where the response goes.
StoreResponse(a) ==
    LET mine == {i \in inflight : i.h = a.h} IN
    /\ inflight' = inflight \ mine
    /\ mailbox' = IF \E i \in mine : i.sync THEN a ELSE mailbox
    /\ responses' = IF \E i \in mine : ~i.sync THEN responses \cup {a} ELSE responses

-----------------------------------------------------------------------------
(* The transport's thread                                                  *)

Connector == CHOOSE who \in {"app", "run"} : pc[who] = "connecting"

\* Dropping the reader and the writer closes the channel of the queue and the
\* socket; what the server had for the connection is of no more use.
DropStates ==
    /\ sender' = IF shared THEN "closed" ELSE sender
    /\ outgoing' = <<>>
    /\ to_client' = <<>>
    /\ server_keys' = NoKeys
    /\ in_step' = FALSE
    /\ held' = {}
    /\ handled' = {}

\* The new thread gets the runtime when the one before it has ended.  An address
\* that does not resolve is refused before there is a thread, and is left out.
ThreadStarts ==
    /\ wanted /\ thread = "none"
    /\ wanted' = FALSE
    /\ thread' = "connecting"
    /\ connection' = "Connecting"
    /\ in_step' = FALSE
    /\ handled' = {}
    /\ UNCHANGED <<attempts, queue_vars, session_vars, local_nonce, keys,
                   server_keys, server_vars, shared, responses, acks, handle,
                   pending, mailbox, batch, renewals>>

SocketOpens ==
    /\ thread = "connecting" /\ connection = "Connecting"
    /\ connection' = "Connected"
    /\ UNCHANGED <<thread, wanted, attempts, queue_vars, session_vars, key_vars,
                   server_vars, shared, responses, acks, handle, pending,
                   mailbox, batch, renewals, handled>>

\* Under a read lock of the session state the queue the transport was given is
\* cleared and gets its channel; then the hello is written, or that fails.
SendHello ==
    /\ thread = "connecting" /\ connection = "Connected"
    /\ shared => LockIsFree
    /\ inflight' = IF shared THEN {} ELSE inflight
    /\ responses' = IF shared THEN {} ELSE responses
    /\ \/ /\ connection' = "WaitingForAck"
          /\ sender' = IF shared THEN "open" ELSE sender
          /\ UNCHANGED <<thread, pc>>
       \/ /\ thread' = "ending"
          /\ sender' = IF shared THEN "closed" ELSE sender
          /\ Goto(Connector, "failed")
          /\ UNCHANGED connection
    /\ UNCHANGED <<wanted, attempts, outgoing, panicked, retrying, retry_count,
                   session_id, subscribed, running, tasks, key_vars,
                   server_vars, shared, acks, handle, pending, mailbox, batch,
                   renewals, handled>>

Acknowledged ==
    /\ thread = "connecting" /\ connection = "WaitingForAck"
    /\ connection' = "Processing"
    /\ thread' = "looping"
    /\ Goto(Connector, "opening")
    /\ UNCHANGED <<wanted, attempts, queue_vars, retrying, retry_count,
                   session_id, subscribed, running, tasks, key_vars,
                   server_vars, shared, responses, acks, handle, pending,
                   mailbox, batch, renewals, handled>>

\* The caller is told before the state is set to finished.
ConnectFails ==
    /\ thread = "connecting" /\ connection \in {"Connecting", "WaitingForAck"}
    /\ thread' = "ending"
    /\ Goto(Connector, "failed")
    /\ IF connection = "WaitingForAck" THEN DropStates
       ELSE UNCHANGED dropped_vars
    /\ UNCHANGED <<connection, wanted, attempts, inflight, panicked, retrying,
                   retry_count, session_id, subscribed, running, tasks,
                   local_nonce, keys, answers, acked, refused, shared, responses, acks,
                   handle, pending, mailbox, batch, renewals>>

\* The socket fails or is closed by the server, or a message of the server is
\* an error.
Lost ==
    /\ thread = "looping"
    /\ thread' = "ending"
    /\ DropStates
    /\ UNCHANGED <<connection, wanted, attempts, inflight, panicked,
                   session_vars, local_nonce, keys, answers, acked, refused, shared,
                   responses, acks, handle, pending, mailbox, batch, renewals>>

SetFinished ==
    /\ thread = "ending"
    /\ connection' = "Finished"
    /\ thread' = "closing"
    /\ UNCHANGED <<wanted, attempts, queue_vars, session_vars, key_vars,
                   server_vars, shared, responses, acks, handle, pending,
                   mailbox, batch, renewals, handled>>

\* on_session_closed, under the write lock of the session state the transport
\* was given.
SessionClosed ==
    /\ thread = "closing"
    /\ shared => LockIsFree
    /\ thread' = "none"
    /\ UNCHANGED <<connection, wanted, attempts, queue_vars, session_vars,
                   key_vars, server_vars, shared, responses, acks, handle,
                   pending, mailbox, batch, renewals, handled>>

\* Mutant: the writer goes on after the request to close the channel.
NeverEndsWriter(r) == FALSE

\* The writer stops at Quit, and after the request to close the channel.
EndsWriter(r) == r.kind \in {"quit", "close"}

WriterEnds ==
    /\ thread = "looping" /\ outgoing # <<>> /\ EndsWriter(Head(outgoing))
    /\ thread' = "ending"
    /\ DropStates
    /\ UNCHANGED <<connection, wanted, attempts, inflight, panicked,
                   session_vars, local_nonce, keys, answers, acked, refused, shared,
                   responses, acks, handle, pending, mailbox, batch, renewals>>

\* External.  A message of the server carries the keys it has when it is
\* written, so the messages still waiting to be written when a channel is
\* opened go out under the new keys.
Restamped(messages, written, new_keys) ==
    [i \in DOMAIN messages |->
        IF i > written /\ messages[i].key # NoKeys
        THEN [messages[i] EXCEPT !.key = new_keys] ELSE messages[i]]

Symmetric(r) == r.kind \notin {"open", "renew"}

\* External.  What the server does with a request it can verify.  Opening a
\* channel is asymmetric, and the server derives the new keys before it answers.
\* A publish request is held, or refused when too many are: the fault goes out at
\* once, and the acknowledgements of the request have not been looked at.
ServerTakes(r) ==
    LET answer(ok) == [NoAnswer EXCEPT !.h = r.h, !.ok = ok, !.data = r.nonce]
        new_keys   == <<r.nonce, r.nonce>> IN
    \/ /\ ~Symmetric(r)
       /\ \/ \E written \in 0 .. Len(to_client) :
                /\ server_keys' = new_keys
                /\ to_client' = Append(Restamped(to_client, written, new_keys),
                                       [answer |-> answer(TRUE), key |-> NoKeys])
          \/ /\ to_client' = Append(to_client, [answer |-> answer(FALSE), key |-> NoKeys])
             /\ UNCHANGED server_keys
       /\ UNCHANGED <<held, acked, refused>>
    \/ /\ r.kind = "publish"
       /\ acked' = acked \cup r.acks
       /\ held' = held \cup {r.h}
       /\ UNCHANGED <<server_keys, to_client, refused>>
    \/ /\ r.kind = "publish"
       /\ refused' = refused \cup r.acks
       /\ to_client' = Append(to_client, [answer |-> answer(FALSE), key |-> server_keys])
       /\ UNCHANGED <<server_keys, held, acked>>
    \/ /\ Symmetric(r) /\ r.kind # "publish"
       /\ \E ok \in BOOLEAN :
             to_client' = Append(to_client, [answer |-> answer(ok), key |-> server_keys])
       /\ UNCHANGED <<server_keys, held, acked, refused>>

\* The writer stamps a request with the keys of the moment it writes it.  The
\* server hangs up on a request under keys other than its own.  The write may take
\* for ever, so nothing says that this happens (NeverStuck).
WriteRequest ==
    /\ thread = "looping" /\ outgoing # <<>> /\ ~EndsWriter(Head(outgoing))
    /\ IF Symmetric(Head(outgoing)) /\ keys # server_keys
       THEN /\ thread' = "ending"
            /\ DropStates
            /\ UNCHANGED <<acked, refused>>
       ELSE /\ outgoing' = Tail(outgoing)
            /\ ServerTakes(Head(outgoing))
            /\ UNCHANGED <<thread, sender, in_step, handled>>
    /\ UNCHANGED <<connection, wanted, attempts, inflight, panicked,
                   session_vars, local_nonce, keys, answers, shared, responses,
                   acks, handle, pending, mailbox, batch, renewals>>

\* External.  The server answers a publish request it holds: with a
\* notification, with nothing new (a keep-alive, or BadTimeout) or with a
\* fault that ends the exchange.
AnswerPublish ==
    /\ thread = "looping" /\ answers < MaxAnswers
    /\ \E h \in held, data \in {0, answers + 1}, again \in BOOLEAN :
        /\ data # 0 => again
        /\ held' = held \ {h}
        /\ to_client' = Append(to_client,
              [answer |-> [h |-> h, ok |-> TRUE, data |-> data, again |-> again],
               key |-> server_keys])
    /\ answers' = answers + 1
    /\ UNCHANGED <<transport_vars, queue_vars, session_vars, key_vars, acked,
                   refused, shared, responses, acks, handle, pending, mailbox, batch,
                   renewals, handled>>

\* The reader verifies a chunk with the current keys only; the response that
\* opens a channel is asymmetric.  A chunk that fails ends the connection.
Verifies(m) == m.key \in {NoKeys, keys}

ReadResponse ==
    /\ thread = "looping" /\ to_client # <<>>
    /\ IF Verifies(Head(to_client))
       THEN /\ to_client' = Tail(to_client)
            /\ StoreResponse(Head(to_client).answer)
            /\ UNCHANGED <<thread, sender, outgoing, server_keys, in_step, held,
                           handled>>
       ELSE /\ thread' = "ending"
            /\ DropStates
            /\ UNCHANGED <<inflight, mailbox, responses>>
    /\ UNCHANGED <<connection, wanted, attempts, panicked, session_vars,
                   local_nonce, keys, answers, acked, refused, shared, acks, handle,
                   pending, batch, renewals>>

-----------------------------------------------------------------------------
(* Connecting and opening the channel                                      *)

\* connect(): the first attempt.
Connect ==
    /\ AppMayCall /\ ~IsConnected /\ ~wanted /\ attempts < MaxConnections
    /\ Goto("app", "connecting")
    /\ retrying' = TRUE
    /\ wanted' = TRUE
    /\ attempts' = attempts + 1
    /\ UNCHANGED <<connection, thread, queue_vars, retry_count, session_id,
                   subscribed, running, tasks, key_vars, server_vars, shared,
                   responses, acks, handle, pending, mailbox, batch, renewals,
                   handled>>

\* should_retry_connect(); the interval between two attempts is left out.
GivesUp(count) == count >= RetryLimit

\* connect(): after a failure and the disconnect that follows it.
RetryOrGiveUp ==
    /\ pc["app"] = "retry"
    /\ retry_count' = retry_count + 1
    /\ \/ /\ GivesUp(retry_count')
          /\ Goto("app", "idle")
          /\ retrying' = FALSE
          /\ UNCHANGED <<wanted, attempts>>
       \/ /\ ~GivesUp(retry_count') /\ attempts < MaxConnections
          /\ Goto("app", "connecting")
          /\ wanted' = TRUE
          /\ attempts' = attempts + 1
          /\ UNCHANGED retrying
    /\ UNCHANGED <<connection, thread, queue_vars, session_id, subscribed,
                   running, tasks, key_vars, server_vars, shared, responses,
                   acks, handle, pending, mailbox, batch, renewals, handled>>

\* reset() gives the session a new session state with a new queue, and the
\* transport keeps the old ones.
Reset ==
    /\ shared' = FALSE
    /\ sender' = "none"
    /\ inflight' = {}
    /\ responses' = {}
    /\ acks' = {}
    /\ session_id' = FALSE

\* reconnect_and_activate, called by poll.
Reconnect ==
    /\ PollMayRun /\ pending = NoWait /\ ~IsConnected /\ ~wanted
    /\ ~GivesUp(retry_count) /\ attempts < MaxConnections
    /\ Reset
    /\ Goto("run", "connecting")
    /\ wanted' = TRUE
    /\ attempts' = attempts + 1
    /\ UNCHANGED <<connection, thread, outgoing, panicked, retrying,
                   retry_count, subscribed, running, tasks, key_vars,
                   server_vars, handle, pending, mailbox, batch, renewals,
                   handled>>

Caller(who) == IF who = "app" THEN "app" ELSE "poll"

OpenSecureChannel(who) ==
    /\ pc[who] = "opening" /\ LockIsFree
    /\ SendNow(Caller(who), "open", {}, attempts + renewals)
    /\ local_nonce' = attempts + renewals
    /\ UNCHANGED <<transport_vars, session_vars, keys, server_keys, in_step,
                   server_vars, shared, responses, acks, mailbox, batch,
                   handled>>

\* Mutant: the client's own nonce is not replaced by the one it sent.
DerivedFromOldNonce == <<keys[1], mailbox.data>>

\* The keys derived when the channel is opened or renewed: the nonce sent last
\* and the nonce of the response.
DerivedKeys == <<local_nonce, mailbox.data>>

\* Only the application comes here: the run loop's request to open a channel
\* panics, because its session has a queue without one (SentAfterChannel).
OpenReturns(ok) ==
    /\ pending.kind = "open" /\ Returned(ok)
    /\ pending' = NoWait
    /\ mailbox' = NoAnswer
    /\ inflight' = EntriesLeft
    /\ keys' = IF ok THEN DerivedKeys ELSE keys
    /\ in_step' = ok
    /\ retry_count' = IF ok THEN 0 ELSE retry_count
    /\ retrying' = (retrying /\ ~ok)
    /\ Goto("app", IF ok THEN "idle" ELSE "failed")
    /\ UNCHANGED <<transport_vars, sender, outgoing, panicked, session_id,
                   subscribed, running, tasks, local_nonce, server_keys,
                   server_vars, shared, responses, acks, handle, batch,
                   renewals, handled>>

\* The renewal ends, well or not, and the request it was made for is sent.
RenewReturns(ok) ==
    /\ pending.kind = "renew" /\ Returned(ok)
    /\ mailbox' = NoAnswer
    /\ keys' = IF ok THEN DerivedKeys ELSE keys
    /\ in_step' = (in_step /\ ~pending.expired)
    /\ AddRequest(pending.then, EntriesLeft)
    /\ pending' = AfterSending(pending.by, pending.then)
    /\ UNCHANGED <<transport_vars, session_vars, local_nonce, server_keys,
                   server_vars, shared, responses, acks, handle, batch,
                   renewals, handled>>

-----------------------------------------------------------------------------
(* Calls of the application                                                *)

\* A service of the application.  It has one session and one subscription at a
\* time, although create_session() would make more.
Call(kind) ==
    /\ AppMayCall /\ LockIsFree /\ keys # NoKeys /\ handle < MaxCall
    /\ kind = "create" => ~session_id
    /\ kind = "subscribe" => session_id /\ ~subscribed
    /\ SendRequest("app", kind, {})
    /\ UNCHANGED <<transport_vars, session_vars, keys, server_keys, in_step,
                   server_vars, shared, responses, acks, mailbox, batch,
                   handled>>

\* What the caller does with the outcome.
CallReturns(ok) ==
    /\ pending.kind \in {"create", "subscribe", "read", "closesession"}
    /\ Returned(ok)
    /\ pending' = NoWait
    /\ mailbox' = NoAnswer
    /\ inflight' = EntriesLeft
    /\ session_id' = (session_id \/ (ok /\ pending.kind = "create"))
    /\ subscribed' = CASE ok /\ pending.kind = "subscribe"    -> TRUE
                       [] ok /\ pending.kind = "closesession" -> FALSE
                       [] OTHER -> subscribed
    /\ pc' = CASE ok /\ pending.kind = "create"    -> [pc EXCEPT !["app"] = "spawning"]
               [] ok /\ pending.kind = "subscribe" -> [pc EXCEPT !["app"] = "publishing"]
               [] OTHER -> pc
    /\ UNCHANGED <<transport_vars, sender, outgoing, panicked, retrying,
                   retry_count, running, tasks, key_vars, server_vars, shared,
                   responses, acks, handle, batch, renewals, handled>>

\* The activity tasks are spawned on the session's runtime, behind the mutex
\* that run_loop keeps as long as it runs.
SpawnTasks ==
    /\ pc["app"] = "spawning" /\ ~running
    /\ tasks' = TRUE
    /\ Goto("app", "idle")
    /\ UNCHANGED <<transport_vars, queue_vars, retrying, retry_count,
                   session_id, subscribed, running, key_vars, server_vars,
                   shared, responses, acks, handle, pending, mailbox, batch,
                   renewals, handled>>

\* create_subscription publishes in a second turn of the lock.
PublishForNew ==
    /\ pc["app"] = "publishing" /\ LockIsFree
    /\ AsyncPublish("app", acks)
    /\ Goto("app", "idle")
    /\ UNCHANGED <<transport_vars, retrying, retry_count, session_id,
                   subscribed, running, tasks, keys, server_keys, in_step,
                   server_vars, shared, responses, mailbox, batch, handled>>

-----------------------------------------------------------------------------
(* disconnect(), called by the application or after a failed connect       *)

AfterDisconnect(who) == IF who = "app" /\ retrying THEN "retry" ELSE "idle"

Disconnect ==
    /\ AppMayCall /\ IsConnected
    /\ Goto("app", "disconnecting")
    /\ UNCHANGED <<transport_vars, queue_vars, retrying, retry_count,
                   session_id, subscribed, running, tasks, key_vars,
                   server_vars, shared, responses, acks, handle, pending,
                   mailbox, batch, renewals, handled>>

\* poll counts the failure before it disconnects, connect() after.
AfterFailure(who) ==
    /\ pc[who] = "failed"
    /\ Goto(who, IF IsConnected THEN "disconnecting" ELSE AfterDisconnect(who))
    /\ retry_count' = IF who = "run" THEN retry_count + 1 ELSE retry_count
    /\ UNCHANGED <<transport_vars, queue_vars, retrying, session_id,
                   subscribed, running, tasks, key_vars, server_vars, shared,
                   responses, acks, handle, pending, mailbox, batch, renewals,
                   handled>>

CloseSession(who) ==
    /\ pc[who] = "disconnecting"
    /\ Goto(who, "closing")
    /\ IF IsConnected /\ session_id
       THEN LockIsFree /\ SendRequest(Caller(who), "closesession", {})
       ELSE UNCHANGED <<queue_vars, handle, pending, local_nonce, renewals>>
    /\ UNCHANGED <<transport_vars, retrying, retry_count, session_id,
                   subscribed, running, tasks, keys, server_keys, in_step,
                   server_vars, shared, responses, acks, mailbox, batch,
                   handled>>

CloseSecureChannel(who) ==
    /\ pc[who] = "closing" /\ LockIsFree
    /\ SendNow(Caller(who), "close", {}, 0)
    /\ Goto(who, "quitting")
    /\ UNCHANGED <<transport_vars, retrying, retry_count, session_id,
                   subscribed, running, tasks, local_nonce, keys, server_keys, in_step,
                   server_vars, shared, responses, acks, mailbox, batch,
                   handled>>

Quit(who) ==
    /\ pc[who] = "quitting" /\ LockIsFree
    /\ outgoing' = IF sender = "open" THEN Append(outgoing, NoRequest) ELSE outgoing
    /\ panicked' = (sender = "none")
    /\ Goto(who, "finishing")
    /\ UNCHANGED <<transport_vars, sender, inflight, retrying, retry_count,
                   session_id, subscribed, running, tasks, key_vars,
                   server_vars, shared, responses, acks, handle, pending,
                   mailbox, batch, renewals, handled>>

WaitForDisconnect(who) ==
    /\ pc[who] = "finishing" /\ IsFinished
    /\ Goto(who, AfterDisconnect(who))
    /\ UNCHANGED <<transport_vars, queue_vars, retrying, retry_count,
                   session_id, subscribed, running, tasks, key_vars,
                   server_vars, shared, responses, acks, handle, pending,
                   mailbox, batch, renewals, handled>>

-----------------------------------------------------------------------------
(* The run loop and the activity tasks                                     *)

StartRunLoop ==
    /\ ~running /\ AppMayCall /\ keys # NoKeys
    /\ running' = TRUE
    /\ UNCHANGED <<transport_vars, queue_vars, pc, retrying, retry_count,
                   session_id, subscribed, tasks, key_vars, server_vars,
                   shared, responses, acks, handle, pending, mailbox, batch,
                   renewals, handled>>

\* poll gives up reconnecting, or the command to stop arrives.
RunLoopEnds ==
    /\ \/ PollMayRun /\ ~IsConnected /\ GivesUp(retry_count)
       \/ running /\ RunIsIdle
    /\ running' = FALSE
    /\ UNCHANGED <<transport_vars, queue_vars, pc, retrying, retry_count,
                   session_id, subscribed, tasks, key_vars, server_vars,
                   shared, responses, acks, handle, pending, mailbox, batch,
                   renewals, handled>>

\* async_responses: all that arrived.
Poll ==
    /\ PollMayRun /\ IsConnected /\ LockIsFree /\ responses # {}
    /\ batch' = responses
    /\ responses' = {}
    /\ UNCHANGED <<transport_vars, queue_vars, session_vars, key_vars,
                   server_vars, shared, acks, handle, pending, mailbox,
                   renewals, handled>>

\* Mutant: a response without data is acknowledged too.
AcknowledgesAll(a) == {a.data}

\* Only a response with data is acknowledged.
Acknowledgement(a) == IF a.data > 0 THEN {a.data} ELSE {}

\* The responses are handled in the order of their requests.  A notification is
\* queued to be acknowledged before the next publish request is sent for the
\* response.
HandleResponse ==
    /\ pending = NoWait
    /\ \E a \in batch :
       /\ \A b \in batch : a.h <= b.h
       /\ batch' = batch \ {a}
       /\ handled' = handled \cup Acknowledgement(a)
       /\ IF a.again THEN AsyncPublish("poll", acks \cup Acknowledgement(a))
          ELSE UNCHANGED <<queue_vars, acks, handle, pending, local_nonce,
                           renewals>>
    /\ UNCHANGED <<transport_vars, session_vars, keys, server_keys, in_step,
                   server_vars, shared, responses, mailbox>>

TaskMayRun == running /\ tasks /\ RunIsIdle

\* Mutant: the task publishes only when it has something to acknowledge.
PublishIsDueForAcks == subscribed /\ acks # {}

\* There is a keep-alive timeout; when three quarters of it have passed since
\* the last publish request is left open.
PublishIsDue == subscribed

PublishActivity ==
    /\ TaskMayRun /\ LockIsFree /\ shared /\ ~IsFinished /\ PublishIsDue
    /\ handle < MaxHandle
    /\ AsyncPublish("task", acks)
    /\ UNCHANGED <<transport_vars, session_vars, keys, server_keys, in_step,
                   server_vars, shared, responses, mailbox, batch, handled>>

\* The keep-alive read of the session; its response is ignored.
SessionActivity ==
    /\ TaskMayRun /\ LockIsFree /\ shared /\ connection = "Processing"
    /\ handle < MaxCall
    /\ SendRequest("task", "ping", {})
    /\ UNCHANGED <<transport_vars, session_vars, keys, server_keys, in_step,
                   server_vars, shared, responses, acks, mailbox, batch,
                   handled>>

TasksEnd ==
    /\ TaskMayRun /\ IsFinished
    /\ tasks' = FALSE
    /\ UNCHANGED <<transport_vars, queue_vars, pc, retrying, retry_count,
                   session_id, subscribed, running, key_vars, server_vars,
                   shared, responses, acks, handle, pending, mailbox, batch,
                   renewals, handled>>

-----------------------------------------------------------------------------
Init ==
    /\ connection = "NotStarted" /\ thread = "none" /\ wanted = FALSE
    /\ attempts = 0 /\ outgoing = <<>> /\ to_client = <<>>
    /\ shared = TRUE /\ sender = "none" /\ inflight = {} /\ responses = {}
    /\ acks = {} /\ handle = 0 /\ pending = NoWait /\ mailbox = NoAnswer
    /\ batch = {} /\ pc = [who \in {"app", "run"} |-> "idle"]
    /\ retrying = FALSE /\ retry_count = 0 /\ session_id = FALSE
    /\ subscribed = FALSE /\ running = FALSE /\ tasks = FALSE
    /\ renewals = 0 /\ panicked = FALSE
    /\ local_nonce = 0 /\ keys = NoKeys /\ server_keys = NoKeys
    /\ held = {} /\ answers = 0 /\ acked = {} /\ refused = {} /\ handled = {}
    /\ in_step = FALSE

Transport ==
    \/ ThreadStarts \/ SocketOpens \/ SendHello \/ Acknowledged \/ ConnectFails
    \/ SetFinished \/ SessionClosed \/ WriterEnds \/ WriteRequest \/ ReadResponse

Waiting ==
    \/ TimesOut
    \/ \E ok \in BOOLEAN : OpenReturns(ok) \/ RenewReturns(ok) \/ CallReturns(ok)

Disconnects(who) ==
    CloseSession(who) \/ CloseSecureChannel(who) \/ Quit(who) \/ WaitForDisconnect(who)

\* The steps a thread takes once it is inside a call.
InCall ==
    \/ Waiting
    \/ \E who \in {"app", "run"} :
          OpenSecureChannel(who) \/ AfterFailure(who) \/ Disconnects(who)
    \/ RetryOrGiveUp \/ SpawnTasks \/ PublishForNew

Application ==
    \/ Connect \/ Disconnect \/ StartRunLoop
    \/ \E kind \in {"create", "subscribe", "read"} : Call(kind)

RunLoop == Poll \/ HandleResponse \/ Reconnect \/ TasksEnd

Next ==
    /\ ~panicked
    /\ \/ Transport \/ InCall \/ Application
       \/ RunLoop \/ PublishActivity \/ SessionActivity \/ RunLoopEnds
       \/ Lost \/ AnswerPublish

Spec == Init /\ [][Next]_vars

\* The threads go on with what they have begun: the end of the transport's
\* thread, a wait (which at least expires), the opening of the channel and a
\* disconnect, a batch of responses and the publishing task.  Nothing is assumed
\* of the server, of the socket (neither reading nor writing), of the loss of
\* the connection or of the application's next call.
FairSpec ==
    /\ Spec
    /\ WF_vars(~panicked /\ (SetFinished \/ SessionClosed))
    /\ WF_vars(~panicked /\ Waiting)
    /\ WF_vars(~panicked /\ \E who \in {"app", "run"} :
                               OpenSecureChannel(who) \/ Disconnects(who))
    /\ WF_vars(~panicked /\ (HandleResponse \/ PublishActivity))

-----------------------------------------------------------------------------
(* Properties                                                              *)

\* The variables hold what the structures of the session, its queue and its
\* transport can hold.
TypeOK ==
    /\ connection \in States
    /\ thread \in {"none", "connecting", "looping", "ending", "closing"}
    /\ attempts \in 0 .. MaxConnections /\ retry_count \in 0 .. MaxConnections
    /\ outgoing \in Seq(Request)
    /\ to_client \in Seq([answer : Answer, key : Nonces \X Nonces])
    /\ sender \in {"none", "open", "closed"}
    /\ inflight \in SUBSET [h : Handles, sync : BOOLEAN]
    /\ responses \in SUBSET Answer /\ batch \in SUBSET Answer /\ mailbox \in Answer
    /\ acks \in SUBSET Numbers /\ acked \in SUBSET Numbers /\ refused \in SUBSET Numbers
    /\ handled \in SUBSET Numbers
    /\ handle \in Handles /\ renewals \in 0 .. MaxRenewals /\ answers \in 0 .. MaxAnswers
    /\ pending \in [by : {"none", "app", "poll", "task"}, kind : Kinds,
                    h : Handles, expired : BOOLEAN, then : Request]
    /\ pc \in [{"app", "run"} -> {"idle", "connecting", "opening", "failed", "retry",
                                  "spawning", "publishing", "disconnecting",
                                  "closing", "quitting", "finishing"}]
    /\ wanted \in BOOLEAN /\ shared \in BOOLEAN /\ retrying \in BOOLEAN
    /\ session_id \in BOOLEAN /\ subscribed \in BOOLEAN /\ running \in BOOLEAN
    /\ tasks \in BOOLEAN /\ panicked \in BOOLEAN /\ in_step \in BOOLEAN
    /\ local_nonce \in Nonces
    /\ keys \in Nonces \X Nonces /\ server_keys \in Nonces \X Nonces
    /\ held \subseteq Handles

\* Both ends have the same keys whenever they are used: from the moment the
\* channel is issued until the client gives up waiting for a renewal, no
\* request reaches the server under keys other than its own, and outside a
\* renewal every message on its way to the client verifies.  (While a renewal
\* is under way a message of the server can overtake the client's change of
\* keys, and the reader ends the connection.)
KeysInStep ==
    in_step /\ thread = "looping" =>
        /\ outgoing # <<>> /\ Symmetric(Head(outgoing)) => keys = server_keys
        /\ pending.kind # "renew" =>
              /\ keys = server_keys
              /\ \A i \in DOMAIN to_client : Verifies(to_client[i])

\* Where acknowledgements are: with the server or in a request it refused, waiting
\* for the next publish request, in the one that waits for a renewal, or in one on
\* its way.
Places == -2 .. Len(outgoing)
AcksAt(p) == CASE p = -2 -> acked \cup refused [] p = -1 -> acks [] p = 0 -> pending.then.acks
               [] OTHER -> outgoing[p].acks

\* A notification is acknowledged at most once, and the client itself loses no
\* acknowledgement as long as the connection lives that brought the notification:
\* its acknowledgement is in one place and never in two.  The one way to lose it on
\* a live connection is a publish request that the server refuses: the list was
\* emptied into the request, and the fault does not fill it again.
AcksAreKept ==
    /\ \A p, q \in Places : p # q => AcksAt(p) \cap AcksAt(q) = {}
    /\ thread = "looping" => \A n \in handled : \E p \in Places : n \in AcksAt(p)

\* An entry of a synchronous request is the one its caller waits for, so no
\* response goes to a caller that asked for something else and a request that
\* timed out leaves nothing behind.
InflightIsAwaited ==
    /\ \A i \in inflight : i.sync => i.h = pending.h
    /\ mailbox # NoAnswer => mailbox.h = pending.h

\* What the message queue expects of its callers: nothing is sent before the
\* queue has its channel.
SentAfterChannel == ~panicked

Outstanding ==
    \/ held # {} \/ pending.then.kind = "publish"
    \/ \E i \in DOMAIN outgoing : outgoing[i].kind = "publish"
    \/ \E a \in responses \cup batch : a.again
    \/ \E i \in DOMAIN to_client : to_client[i].answer.again

Disconnecting ==
    \E who \in {"app", "run"} :
        pc[who] \in {"disconnecting", "closing", "quitting", "finishing"}

\* The server goes on reading from the socket, so that the writer catches up with
\* its channel again and again; or the connection ends.
NeverStuck == []<>(thread = "looping" => outgoing = <<>>)

\* disconnect() returns unless the writer is stuck in a write, whatever else the
\* connection is doing: the writer is told to stop, or has stopped, and the
\* transport's thread says so.  (With a server that neither reads nor hangs up,
\* wait_for_disconnect() polls for ever.)
DisconnectReturns ==
    NeverStuck => (Disconnecting ~> ~Disconnecting \/ panicked)

\* The end of a connection is told to the session, although a caller may hold
\* the session state's lock while it waits for a response that cannot come.
CloseIsTold == thread \in {"ending", "closing"} ~> thread = "none" \/ panicked

\* With a subscription, a connection and the run loop, another publish request is
\* made although the last one was refused or answered with a fault.
PublishingGoesOn ==
    (subscribed /\ tasks /\ running /\ connection = "Processing")
        ~> (\/ Outstanding \/ connection # "Processing" \/ ~subscribed \/ ~running
            \/ ~tasks \/ handle >= MaxHandle \/ pc["app"] = "spawning" \/ panicked)
=============================================================================
