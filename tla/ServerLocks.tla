------------------------------ MODULE ServerLocks ------------------------------
(***************************************************************************)
(* The locks of the server and the order in which its tasks take them: the  *)
(* map of the session manager, the server state, the audit log, the address *)
(* space, and one lock for every session.                                   *)
(*                                                                          *)
(* The reader, the writer and the timer of a connection are branches of one *)
(* select (server/comms/tcp_transport.rs), so a connection is one thread.   *)
(* It has one session, and the lock of that session goes by the name of the *)
(* connection.                                                              *)
(*                                                                          *)
(* A path that returns early takes the locks of the full path up to there   *)
(* and releases them, so it waits for nothing that the full path does not   *)
(* wait for; only the full paths are listed.  For the same reason one       *)
(* service stands for all that take the same locks or fewer of them.        *)
(***************************************************************************)
EXTENDS Locks

CONSTANT WithMethods  \* whether clients call ResendData and GetMonitoredItems

(* There are finitely many connections, and the names of their locks are not
   those of the four others. *)
ASSUME ServerLocksAssumption ==
  /\ IsFiniteSet(Threads)
  /\ Threads \intersect
       {"session_manager", "server_state", "audit_log", "address_space"} = {}

ServerLockNames ==
  {"session_manager", "server_state", "audit_log", "address_space"} \union Threads

(* The session manager comes first, then the server state, the sessions and the
   address space; nothing holds two sessions.  The audit log, which the comment
   on the order does not name, is taken just before the address space. *)
ServerLockRank ==
  [l \in ServerLockNames |->
     CASE l = "session_manager" -> 1 [] l = "server_state" -> 2
       [] l \in Threads -> 3
       [] l = "audit_log" -> 4 [] l = "address_space" -> 5]

ServerLockOrder ==
  {pair \in ServerLockNames \X ServerLockNames :
     ServerLockRank[pair[1]] < ServerLockRank[pair[2]]}

Read(l)       == <<[mode |-> "R", lock |-> l]>>
Write(l)      == <<[mode |-> "W", lock |-> l]>>
TouchRead(l)  == <<[mode |-> "r", lock |-> l]>>
TouchWrite(l) == <<[mode |-> "w", lock |-> l]>>
Unlock(l)     == <<[mode |-> "U", lock |-> l]>>

(* p[s[1]] \o p[s[2]] \o ... *)
ForEach(s, p) ==
  LET upto[k \in 0..Len(s)] == IF k = 0 THEN <<>> ELSE upto[k - 1] \o p[s[k]]
  IN  upto[Len(s)]

(* A hash map yields the sessions in any order. *)
Orders == {s \in [1..Cardinality(Threads) -> Threads] :
             \A j, k \in DOMAIN s : s[j] = s[k] => j = k}

Prefixes == {SubSeq(s, 1, k) : s \in Orders, k \in 1..Cardinality(Threads)}

(* find_session_by_token(), find_session_by_id(): the sessions that a search
   for that of c reads; the last one is found. *)
Searches(c) == {s \in Prefixes : s[Len(s)] = c}

(* subscription_exists_on_other_session(): it stops at a session other than
   that of c, or goes through all. *)
OtherSearches(c) == {s \in Prefixes : s[Len(s)] # c \/ Len(s) = Cardinality(Threads)}

LookAt == [c \in Threads |-> TouchRead(c)]

Find(search) ==
  Read("session_manager") \o ForEach(search, LookAt) \o Unlock("session_manager")

(* validate_service_request(): find the session, see whether it is activated
   and whether it has timed out, serve, set the time stamp, count the request. *)
Validated(c, search, service) ==
  Find(search) \o TouchRead(c) \o TouchWrite(c)
    \o service \o TouchWrite(c) \o TouchRead(c)

(* Mutant: browse reads the address space before it locks the session. *)
BrowseBackwards(c) ==
  Read("server_state") \o Read("address_space") \o Write(c)
    \o Unlock(c) \o Unlock("address_space") \o Unlock("server_state")

(* view.rs, monitored_item.rs: browse, create and modify monitored items. *)
Browse(c) ==
  Read("server_state") \o Write(c) \o Read("address_space")
    \o Unlock("address_space") \o Unlock(c) \o Unlock("server_state")

(* attribute.rs, node_management.rs: write, add and delete nodes and references. *)
WriteNodes(c) ==
  Read("server_state") \o Read(c) \o Write("address_space")
    \o Unlock("address_space") \o Unlock(c) \o Unlock("server_state")

(* subscription.rs: create and modify a subscription. *)
CreateSubscription(c) ==
  Write("server_state") \o Write(c) \o Unlock(c) \o Unlock("server_state")

(* subscription.rs: a publish request. *)
Publish(c) == Write(c) \o Read("address_space") \o Unlock("address_space") \o Unlock(c)

(* method.rs with method_impls.rs: a method runs under the lock of the address
   space and looks for its session from there: ResendData writes to it and
   GetMonitoredItems reads it.  If the session has no such subscription, all
   sessions are asked. *)
Call(c, search, access, fallback) ==
  TouchRead(c) \o Read("server_state") \o Write("address_space")
    \o Read("session_manager") \o ForEach(search, LookAt) \o access
    \o Unlock("session_manager") \o fallback
    \o Unlock("address_space") \o Unlock("server_state")

Calls(c) ==
  {Call(c, search, access, fallback) :
     search \in Searches(c), access \in {TouchRead(c), TouchWrite(c)},
     fallback \in {<<>>} \union {Find(s) : s \in OtherSearches(c)}}

(* An audit event: a node id is taken, then raise_and_log() puts the event there
   under the lock of the audit log. *)
Audit ==
  TouchRead("address_space")
    \o Write("audit_log") \o TouchWrite("address_space") \o Unlock("audit_log")

(* message_handler.rs, session.rs *)
CreateSession ==
  Write("session_manager") \o TouchRead("server_state") \o Write("server_state")
    \o Audit \o TouchWrite("address_space")
    \o Unlock("server_state") \o Unlock("session_manager")

ActivateSession(c, search) ==
  Find(search) \o TouchWrite(c) \o Write("server_state") \o Write(c) \o Audit
    \o Unlock(c) \o Unlock("server_state") \o TouchWrite(c) \o TouchRead(c)

CloseSession(c, search) ==
  Find(search) \o Write("server_state") \o Write(c) \o Audit
    \o Unlock(c) \o Unlock("server_state")
    \o Write("session_manager") \o TouchRead(c) \o Unlock("session_manager")

(* SessionManager::clear(), called by finish(). *)
Finish(order) ==
  LET clear == [s \in Threads |-> Write(s) \o TouchWrite("address_space") \o Unlock(s)]
  IN  Write("session_manager") \o ForEach(order, clear) \o Unlock("session_manager")

(* The timer goes through all sessions. *)
Timer(order) ==
  LET tick == [s \in Threads |-> Write(s) \o TouchRead("address_space") \o Unlock(s)]
  IN  Read("session_manager") \o ForEach(order, tick) \o Unlock("session_manager")

Services(c) ==
  {Browse(c), WriteNodes(c), CreateSubscription(c), Publish(c)}
    \union IF WithMethods THEN Calls(c) ELSE {}

ServerPrograms ==
  [c \in Threads |->
     {Validated(c, search, service) : search \in Searches(c), service \in Services(c)}
       \union {CreateSession}
       \union {ActivateSession(c, search) : search \in Searches(c)}
       \union {CloseSession(c, search) : search \in Searches(c)}
       \union {Finish(order) : order \in Orders} \union {Timer(order) : order \in Orders}]
=============================================================================
