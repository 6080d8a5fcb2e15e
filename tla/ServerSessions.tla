---------------------------- MODULE ServerSessions ----------------------------
(***************************************************************************)
(* Connections and sessions of the server: the listener and its abort poll  *)
(* (server/server.rs), the tasks of a connection                            *)
(* (server/comms/tcp_transport.rs), the session services                    *)
(* (server/services/session.rs), the validation of requests                 *)
(* (server/services/message_handler.rs) and the session manager             *)
(* (server/session.rs).                                                     *)
(*                                                                          *)
(* One session manager, made in Server::new(), is shared by all connections.*)
(* A connection handles a message under the write lock of its transport,    *)
(* but it takes the locks of the manager and of a session several times on  *)
(* the way: handler[c] says where between two such critical sections the    *)
(* reader of connection c is.  The publish queues of a session (module      *)
(* Subscriptions) are reduced to the requests that have not been answered.  *)
(***************************************************************************)
EXTENDS Integers, FiniteSets

CONSTANTS Connections,  \* TCP connections that clients may make
          SessionIds,   \* session ids the server hands out
          NoSession,    \* no session
          NoHome,       \* no connection
          MaxSessions,  \* MAX_SESSIONS_PER_TRANSPORT
          MaxChannels,  \* bound: secure channels issued on a connection
          MaxRequests   \* bound: publish requests that are accepted

ASSUME SessionsAssumption ==
  /\ NoSession \notin SessionIds /\ NoHome \notin Connections
  /\ IsFiniteSet(SessionIds)
  /\ MaxSessions \in Nat /\ MaxChannels \in Nat /\ MaxRequests \in Nat

VARIABLES
  transport_state,      \* TransportState of a connection
  reader,               \* "none", "hello", "loop", "ended": the tasks of a connection
  channel,              \* [last, id]: last id handed out, id of the channel
  handler,              \* [op, session]: what the reader is in the middle of
  sessions,             \* the ids in the map of the session manager
  sessions_terminated,  \* flag of the session manager
  session,              \* id -> fields of struct Session
  pending,              \* id -> publish requests that wait in the session
  requests,             \* number of publish requests accepted so far
  sent,                 \* history: (request, connection that sent the answer)
  home,                 \* history: the connection a session is bound to
  connections,          \* the connections the server keeps a list of
  abort,                \* ServerState::is_abort()
  listener,             \* the server task: "listening" or "stopped"
  poll                  \* the abort poll: "running", "signalled", "panicked"

transportVars == <<transport_state, reader, channel, handler>>
managerVars   == <<sessions, sessions_terminated, session, home>>
publishVars   == <<pending, requests, sent>>
serverVars    == <<connections, abort, listener, poll>>
vars          == <<transportVars, managerVars, publishVars, serverVars>>

Idle      == [op |-> "none", session |-> NoSession]
Request   == [from : Connections, n : 1..MaxRequests]

(* token is FALSE once close_session has replaced it by the null node id. *)
NewSession == [channel |-> 0, activated |-> FALSE, token |-> FALSE,
               terminated |-> FALSE]

Init ==
  /\ transport_state = [c \in Connections |-> "New"]
  /\ reader = [c \in Connections |-> "none"]
  /\ channel = [c \in Connections |-> [last |-> 0, id |-> 0]]
  /\ handler = [c \in Connections |-> Idle]
  /\ sessions = {}
  /\ sessions_terminated = FALSE
  /\ session = [s \in SessionIds |-> NewSession]
  /\ home = [s \in SessionIds |-> NoHome]
  /\ pending = [s \in SessionIds |-> {}]
  /\ requests = 0
  /\ sent = {}
  /\ connections = {}
  /\ abort = FALSE
  /\ listener = "listening"
  /\ poll = "running"

-----------------------------------------------------------------------------
(* The listener and the abort poll *)

(* The listener accepts a connection: handle_connection() puts it on the list
   and starts its tasks. *)
Accept(c) ==
  /\ listener = "listening" /\ ~abort
  /\ reader[c] = "none"
  /\ transport_state' = [transport_state EXCEPT ![c] = "WaitingHello"]
  /\ reader' = [reader EXCEPT ![c] = "hello"]
  /\ connections' = connections \union {c}
  /\ UNCHANGED <<channel, handler, managerVars, publishVars, abort, listener, poll>>

(* A connection that arrives after the abort breaks the listen loop. *)
AcceptWhileAborting ==
  /\ listener = "listening" /\ abort
  /\ listener' = "stopped"
  /\ UNCHANGED <<transportVars, managerVars, publishVars, connections, abort, poll>>

Abort ==
  /\ ~abort
  /\ abort' = TRUE
  /\ UNCHANGED <<transportVars, managerVars, publishVars, connections, listener, poll>>

(* remove_dead_connections(): a transport whose lock is taken is retained. *)
StillOpen(cs) ==
  {c \in cs : handler[c].op # "none" \/ ~sessions_terminated}

(* One turn of the abort poll.  It signals as soon as it sees the abort; open
   connections only make it log a warning.  The receiver is gone with the server
   task, and then tx_abort.send(()).unwrap() panics. *)
AbortPoll ==
  /\ poll = "running"
  /\ connections' = StillOpen(connections)
  /\ poll' = CASE ~abort                   -> "running"
               [] listener = "listening"   -> "signalled"
               [] OTHER                    -> "panicked"
  /\ UNCHANGED <<transportVars, managerVars, publishVars, abort, listener>>

(* rx_abort wins the select. *)
ListenerStops ==
  /\ listener = "listening" /\ poll = "signalled"
  /\ listener' = "stopped"
  /\ UNCHANGED <<transportVars, managerVars, publishVars, connections, abort, poll>>

-----------------------------------------------------------------------------
(* The tasks of a connection *)

(* The tasks of c run and nobody holds the lock of its transport. *)
Reading(c) == reader[c] \in {"hello", "loop"} /\ handler[c].op = "none"

(* SessionManager::clear() *)
Cleared == [s \in SessionIds |->
              IF s \in sessions THEN [session[s] EXCEPT !.terminated = TRUE]
                                ELSE session[s]]

(* Mutant: the map is emptied but the sessions are not told. *)
FinishQuietly(c) ==
  IF transport_state[c] = "Finished"
  THEN UNCHANGED <<transport_state, sessions, session>>
  ELSE /\ transport_state' = [transport_state EXCEPT ![c] = "Finished"]
       /\ sessions' = {}
       /\ UNCHANGED session

(* Transport::finish(): the first call clears the sessions, later ones are
   ignored. *)
Finish(c) ==
  IF transport_state[c] = "Finished"
  THEN UNCHANGED <<transport_state, sessions, session>>
  ELSE /\ transport_state' = [transport_state EXCEPT ![c] = "Finished"]
       /\ sessions' = {}
       /\ session' = Cleared

(* Something has been written on c: the acknowledgement of its hello, or a
   publish response that its timer found. *)
HasWritten(c) == reader[c] = "loop" \/ \E x \in sent : x.by = c

(* write_bytes_task(): an IO error finishes the transport, but the writing
   and the reading loop go on. *)
WriteError(c) ==
  /\ Reading(c) /\ HasWritten(c)
  /\ Finish(c)
  /\ UNCHANGED <<reader, channel, handler, sessions_terminated, home,
                 publishVars, serverVars>>

(* One of the tasks ends (end of stream, hello timeout, bad message, closed
   secure channel): the others are dropped and the transport is finished. *)
ConnectionEnds(c) ==
  /\ Reading(c)
  /\ reader' = [reader EXCEPT ![c] = "ended"]
  /\ Finish(c)
  /\ UNCHANGED <<channel, handler, sessions_terminated, home, publishVars, serverVars>>

(* process_hello() accepts; a hello that it rejects ends the connection. *)
Hello(c) ==
  /\ Reading(c) /\ reader[c] = "hello"
  /\ transport_state' = [transport_state EXCEPT ![c] = "ProcessMessages"]
  /\ reader' = [reader EXCEPT ![c] = "loop"]
  /\ UNCHANGED <<channel, handler, managerVars, publishVars, serverVars>>

(* The reading loop is past the hello.  process_chunk() does not ask whether
   the transport has been finished. *)
Receives(c) == Reading(c) /\ reader[c] = "loop"

create_secure_channel_id(c) == channel[c].last + 1

(* open_secure_channel(), request type Issue; a renewal keeps the id.  An id
   is used up before a bad security mode is rejected. *)
OpenSecureChannel(c, rejected) ==
  LET next == create_secure_channel_id(c)
  IN  /\ Receives(c) /\ channel[c].last < MaxChannels
      /\ channel' = [channel EXCEPT ![c] =
                       [last |-> next, id |-> IF rejected THEN channel[c].id ELSE next]]
      /\ UNCHANGED <<transport_state, reader, handler, managerVars, publishVars,
                     serverVars>>

(* The subscriptions task of c: it goes through the sessions of the manager,
   whoever they belong to, and sends what their publish queues answer, a part
   of the waiting requests, through the writer of c. *)
TimerFired(c, s, answered) ==
  /\ Reading(c)
  /\ s \in sessions
  /\ pending' = [pending EXCEPT ![s] = @ \ answered]
  /\ sent' = sent \union {[request |-> r, by |-> c] : r \in answered}
  /\ UNCHANGED <<transportVars, managerVars, requests, serverVars>>

-----------------------------------------------------------------------------
(* The session services *)

(* Mutant: the limit is compared with > *)
IsFullLate == Cardinality(sessions) > MaxSessions

IsFull == Cardinality(sessions) >= MaxSessions

(* CreateSession runs under the write lock of the manager throughout.  A
   request that is refused changes nothing. *)
CreateSession(c, s) ==
  /\ Receives(c)
  /\ home[s] = NoHome
  /\ ~IsFull
  /\ sessions' = sessions \union {s}
  /\ session' = [session EXCEPT ![s].channel = channel[c].id, ![s].token = TRUE]
  /\ home' = [home EXCEPT ![s] = c]
  /\ UNCHANGED <<transportVars, sessions_terminated, publishVars, serverVars>>

(* find_session_by_token(), under the read lock of the manager: a request finds
   the session whose token it has.  The token of a session that is being closed
   is the null node id, which a request without a token has as well. *)
Found(s) == s \in sessions

(* The first critical section of ActivateSession, CloseSession and of all the
   services that need an activated session ("call"). *)
Lookup(c, s, op) ==
  /\ Receives(c) /\ Found(s)
  /\ handler' = [handler EXCEPT ![c] = [op |-> op, session |-> s]]
  /\ UNCHANGED <<transport_state, reader, channel, managerVars, publishVars, serverVars>>

In(c, s, op) == handler[c] = [op |-> op, session |-> s]
Leave(c)     == handler' = [handler EXCEPT ![c] = Idle]

(* A session that is not activated answers only on the channel that made it. *)
OnItsChannel(c, s) == session[s].activated \/ session[s].channel = channel[c].id

(* activate_session(): a good request binds the session to the channel, any
   other deactivates it. *)
ActivateSession(c, s, good) ==
  LET accepted == good /\ OnItsChannel(c, s)
  IN  /\ In(c, s, "activate") /\ Leave(c)
      /\ session' = [session EXCEPT ![s].activated = accepted,
                       ![s].channel = IF accepted THEN channel[c].id ELSE session[s].channel]
      /\ home' = [home EXCEPT ![s] = IF accepted THEN c ELSE home[s]]
      /\ UNCHANGED <<transport_state, reader, channel, sessions, sessions_terminated,
                     publishVars, serverVars>>

(* A request is answered with a fault: the session has timed out, which may
   be found at any time, is not activated, or is on another channel. *)
Reject(c) ==
  /\ \/ handler[c].op \in {"activate", "call"}
     \/ handler[c].op = "close" /\ ~OnItsChannel(c, handler[c].session)
  /\ Leave(c)
  /\ UNCHANGED <<transport_state, reader, channel, managerVars, publishVars, serverVars>>

(* close_session(), under the locks of server state and session. *)
CloseSession(c, s) ==
  /\ In(c, s, "close") /\ OnItsChannel(c, s)
  /\ session' = [session EXCEPT ![s].token = FALSE, ![s].activated = FALSE]
  /\ handler' = [handler EXCEPT ![c].op = "deregister"]
  /\ UNCHANGED <<transport_state, reader, channel, sessions, sessions_terminated,
                 home, publishVars, serverVars>>

(* Mutant: the manager looks the session up by its token, which is gone. *)
WithoutByToken(s) == IF session[s].token THEN sessions \ {s} ELSE sessions

Without(s) == sessions \ {s}

(* deregister_session(), under the write lock of the manager. *)
Deregister(c, s) ==
  /\ In(c, s, "deregister") /\ Leave(c)
  /\ sessions' = Without(s)
  /\ sessions_terminated' = (sessions' = {})
  /\ UNCHANGED <<transport_state, reader, channel, session, home, publishVars, serverVars>>

(* is_session_activated() *)
Validate(c, s) ==
  /\ In(c, s, "call")
  /\ session[s].activated /\ session[s].channel = channel[c].id
  /\ handler' = [handler EXCEPT ![c].op = "act"]
  /\ UNCHANGED <<transport_state, reader, channel, managerVars, publishVars, serverVars>>

(* A service other than publish, or a publish request that is refused. *)
Serve(c, s) ==
  /\ In(c, s, "act") /\ Leave(c)
  /\ UNCHANGED <<transport_state, reader, channel, managerVars, publishVars, serverVars>>

(* async_publish(): the request waits in the session. *)
Publish(c, s) ==
  /\ In(c, s, "act") /\ Leave(c)
  /\ requests < MaxRequests
  /\ requests' = requests + 1
  /\ pending' = [pending EXCEPT ![s] = @ \union {[from |-> c, n |-> requests']}]
  /\ UNCHANGED <<transport_state, reader, channel, managerVars, sent, serverVars>>

-----------------------------------------------------------------------------
Server == (\E c \in Connections : Accept(c)) \/ AcceptWhileAborting \/ Abort

Transport(c) ==
  \/ WriteError(c) \/ ConnectionEnds(c) \/ Hello(c)
  \/ \E rejected \in BOOLEAN : OpenSecureChannel(c, rejected)
  \/ \E s \in SessionIds : \E answered \in SUBSET pending[s] : TimerFired(c, s, answered)

(* What the reader of c does once it is in a handler. *)
Handle(c) ==
  \/ Reject(c)
  \/ \E s \in SessionIds :
       \/ \E good \in BOOLEAN : ActivateSession(c, s, good)
       \/ CloseSession(c, s) \/ Deregister(c, s)
       \/ Validate(c, s) \/ Serve(c, s) \/ Publish(c, s)

Receive(c) ==
  \E s \in SessionIds :
    \/ CreateSession(c, s)
    \/ \E op \in {"activate", "close", "call"} : Lookup(c, s, op)

Next == Server \/ AbortPoll \/ ListenerStops
        \/ \E c \in Connections : Transport(c) \/ Receive(c) \/ Handle(c)

Spec == Init /\ [][Next]_vars

(* A handler never waits for the network; a connection is not assumed to end. *)
Fairness == \A c \in Connections : WF_vars(Handle(c))

FairSpec == Spec /\ Fairness
-----------------------------------------------------------------------------
Ops == {"none", "activate", "close", "deregister", "call", "act"}

TypeOK ==
  /\ transport_state \in [Connections ->
       {"New", "WaitingHello", "ProcessMessages", "Finished"}]
  /\ reader \in [Connections -> {"none", "hello", "loop", "ended"}]
  /\ channel \in [Connections -> [last : 0..MaxChannels, id : 0..MaxChannels]]
  /\ handler \in [Connections -> [op : Ops, session : SessionIds \union {NoSession}]]
  /\ sessions \subseteq SessionIds
  /\ sessions_terminated \in BOOLEAN
  /\ session \in [SessionIds -> [channel : 0..MaxChannels, activated : BOOLEAN,
                                 token : BOOLEAN, terminated : BOOLEAN]]
  /\ home \in [SessionIds -> Connections \union {NoHome}]
  /\ pending \in [SessionIds -> SUBSET Request]
  /\ requests \in 0..MaxRequests
  /\ sent \subseteq [request : Request, by : Connections]
  /\ connections \subseteq Connections
  /\ abort \in BOOLEAN
  /\ listener \in {"listening", "stopped"}
  /\ poll \in {"running", "signalled", "panicked"}

(* The manager never holds more sessions than its limit: the test of the limit
   in handle_message() and the registration are under one lock. *)
SessionsAreBounded == Cardinality(sessions) <= MaxSessions

(* A session leaves the map of the manager only because finish() terminated
   it, and then it is marked so, or because CloseSession took its token; and a
   terminated session is never in the map again. *)
LeftMeansTold ==
  \A s \in SessionIds :
    /\ session[s].terminated => s \notin sessions
    /\ home[s] # NoHome /\ s \notin sessions =>
         session[s].terminated \/ ~session[s].token

(* A session in the map without a token, which only a request without a token
   still finds, is always about to be removed by a connection that closes it: it
   cannot be left over and count against the limit for ever (close_session(),
   deregister_session()). *)
TokenlessIsClosing ==
  \A s \in sessions :
    ~session[s].token => \E c \in Connections : In(c, s, "deregister")

(* A session that CloseSession has begun to close leaves the map. *)
ClosedLeaves ==
  \A s \in SessionIds : (s \in sessions /\ ~session[s].token) ~> (s \notin sessions)

(* "Sessions associated with this connection": the timer of a connection sends
   the answers to the publish requests of that connection. *)
AnsweredOnItsConnection == \A x \in sent : x.by = x.request.from
=============================================================================
