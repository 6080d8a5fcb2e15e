------------------------- MODULE ServerSessionsProofs -------------------------
(***************************************************************************)
(* The invariants of the session manager hold for any number of connections *)
(* and sessions and for every limit.                                        *)
(***************************************************************************)
EXTENDS ServerSessions, FiniteSetTheorems, TLAPS

(* An id that has not been handed out is unused; a handler is on a session
   that was handed out; a session about to be removed has lost its token. *)
Fresh    == \A s \in SessionIds : home[s] = NoHome =>
                s \notin sessions /\ session[s] = NewSession
Handling == \A c \in Connections : handler[c].op # "none" =>
                handler[c].session \in SessionIds /\ home[handler[c].session] # NoHome
Closing  == \A c \in Connections : handler[c].op = "deregister" =>
                ~session[handler[c].session].token

Inv == /\ TypeOK /\ Fresh /\ Handling /\ Closing
       /\ SessionsAreBounded /\ LeftMeansTold /\ TokenlessIsClosing

(* What an action may do to the state of the manager without touching Inv. *)
LEMMA QuietStep ==
  ASSUME Inv, UNCHANGED <<managerVars, handler>>, TypeOK'
  PROVE  Inv'
BY DEF Inv, TypeOK, Fresh, Handling, Closing, SessionsAreBounded, LeftMeansTold,
       TokenlessIsClosing, managerVars, In

(* The listener, the poll, the hello, a secure channel and the timer. *)
LEMMA ServerStep ==
  ASSUME Inv, Server \/ AbortPoll \/ ListenerStops
  PROVE  Inv'
<1>1. TypeOK' /\ UNCHANGED <<managerVars, handler>>
  <2>1. CASE Server
    BY <2>1, Zenon DEF Inv, TypeOK, Server, Accept, AcceptWhileAborting, Abort, transportVars,
                managerVars, publishVars, serverVars
  <2>2. CASE AbortPoll
    BY <2>2 DEF Inv, TypeOK, AbortPoll, StillOpen, transportVars, managerVars,
                publishVars, serverVars
  <2>3. CASE ListenerStops
    BY <2>3 DEF Inv, TypeOK, ListenerStops, transportVars, managerVars, publishVars,
                serverVars
  <2> QED BY <2>1, <2>2, <2>3, Zenon
<1> QED BY <1>1, QuietStep

(* Opening the channel leaves the session manager and the handlers alone. *)
LEMMA ChannelStep ==
  ASSUME Inv, NEW c \in Connections,
         Hello(c) \/ \E rejected \in BOOLEAN : OpenSecureChannel(c, rejected)
  PROVE  Inv'
<1>1. TypeOK' /\ UNCHANGED <<managerVars, handler>>
  <2>1. CASE Hello(c)
    BY <2>1 DEF Inv, TypeOK, Hello, transportVars, managerVars, publishVars, serverVars
  <2>2. ASSUME NEW rejected \in BOOLEAN, OpenSecureChannel(c, rejected)
        PROVE  TypeOK' /\ UNCHANGED <<managerVars, handler>>
    <3>1. channel[c].last + 1 \in 0..MaxChannels
      BY <2>2, SessionsAssumption DEF OpenSecureChannel, Inv, TypeOK
    <3>2. channel' \in [Connections -> [last : 0..MaxChannels, id : 0..MaxChannels]]
      BY <2>2, <3>1 DEF OpenSecureChannel, create_secure_channel_id, Inv, TypeOK
    <3> QED BY <2>2, <3>2 DEF Inv, TypeOK, OpenSecureChannel, transportVars, managerVars,
                               publishVars, serverVars
  <2> QED BY <2>1, <2>2
<1> QED BY <1>1, QuietStep

(* The timer sends answers and leaves the session manager and the handlers alone. *)
LEMMA TimerStep ==
  ASSUME Inv, NEW c \in Connections, NEW s \in SessionIds,
         NEW answered \in SUBSET pending[s], TimerFired(c, s, answered)
  PROVE  Inv'
<1>1. answered \subseteq Request
  BY DEF Inv, TypeOK
<1>2. pending' \in [SessionIds -> SUBSET Request]
  BY DEF Inv, TypeOK, TimerFired
<1>3. sent' \subseteq [request : Request, by : Connections]
  BY <1>1 DEF Inv, TypeOK, TimerFired
<1>4. TypeOK' /\ UNCHANGED <<managerVars, handler>>
  BY <1>2, <1>3 DEF Inv, TypeOK, TimerFired, transportVars, managerVars, publishVars,
                    serverVars
<1> QED BY <1>4, QuietStep

(* finish(): the map is emptied and every session that was in it is marked. *)
LEMMA FinishStep ==
  ASSUME Inv, NEW c \in Connections, WriteError(c) \/ ConnectionEnds(c)
  PROVE  Inv'
<1>1. /\ UNCHANGED <<channel, handler, sessions_terminated, home>>
      /\ UNCHANGED <<publishVars, serverVars>>
      /\ Finish(c) /\ reader' \in [Connections -> {"none", "hello", "loop", "ended"}]
  BY Zenon DEF WriteError, ConnectionEnds, Inv, TypeOK
<1>2. CASE transport_state[c] = "Finished"
  <2>1. TypeOK' /\ UNCHANGED <<managerVars, handler>>
    BY <1>1, <1>2 DEF Finish, Inv, TypeOK, managerVars, publishVars, serverVars
  <2> QED BY <2>1, QuietStep
<1>3. CASE transport_state[c] # "Finished"
  <2>1. sessions' = {} /\ session' = Cleared
    BY <1>1, <1>3 DEF Finish
  <2>2. \A s \in SessionIds : session[s] \in [channel : 0..MaxChannels, activated : BOOLEAN,
                                token : BOOLEAN, terminated : BOOLEAN]
    BY DEF Inv, TypeOK
  <2>3. session' \in [SessionIds -> [channel : 0..MaxChannels, activated : BOOLEAN,
                                 token : BOOLEAN, terminated : BOOLEAN]]
    BY <2>1, <2>2, Zenon DEF Cleared
  <2>4. TypeOK'
    BY <1>1, <1>3, <2>1, <2>3, ZenonT(30) DEF Finish, Inv, TypeOK, publishVars, serverVars
  <2>5. \A s \in SessionIds : session'[s].token = session[s].token
                              /\ (s \notin sessions => session'[s] = session[s])
                              /\ (s \in sessions => session'[s].terminated)
    BY <2>1, <2>2, Zenon DEF Cleared
  <2>6. Fresh' /\ Handling' /\ LeftMeansTold' /\ TokenlessIsClosing'
    BY <1>1, <2>1, <2>5 DEF Inv, Fresh, Handling, LeftMeansTold, TokenlessIsClosing
  <2>7. Closing'
    BY <1>1, <2>5 DEF Inv, Closing, Handling
  <2>8. SessionsAreBounded'
    BY <2>1, FS_EmptySet, SessionsAssumption DEF SessionsAreBounded
  <2> QED BY <2>4, <2>6, <2>7, <2>8 DEF Inv
<1> QED BY <1>2, <1>3

(* A new session: the limit is tested under the lock that registers it. *)
LEMMA CreateStep ==
  ASSUME Inv, NEW c \in Connections, NEW s \in SessionIds, CreateSession(c, s)
  PROVE  Inv'
<1>1. s \notin sessions /\ session[s] = NewSession
  BY DEF CreateSession, Inv, Fresh
<1>2. /\ sessions' = sessions \union {s}
      /\ UNCHANGED <<handler, sessions_terminated>>
      /\ home' = [home EXCEPT ![s] = c]
      /\ \A t \in SessionIds : t # s => session'[t] = session[t]
      /\ session'[s] = [session[s] EXCEPT !.channel = channel[c].id, !.token = TRUE]
  BY DEF CreateSession, Inv, TypeOK, transportVars
<1>3. session'[s].token /\ ~session'[s].terminated
  BY <1>1, <1>2 DEF NewSession
<1>4. TypeOK'
  <2>1. channel[c].id \in 0..MaxChannels
    BY DEF Inv, TypeOK
  <2> DEFINE Record == [channel : 0..MaxChannels, activated : BOOLEAN,
                        token : BOOLEAN, terminated : BOOLEAN]
             created == [session[s] EXCEPT !.channel = channel[c].id, !.token = TRUE]
  <2>2. session \in [SessionIds -> Record]
    BY DEF Inv, TypeOK
  <2>3. created \in Record
    <3>1. session[s] \in Record
      BY <2>2
    <3> QED BY <2>1, <3>1, Zenon
  <2>4. session' = [session EXCEPT ![s] = created]
    BY <2>2, Zenon DEF CreateSession
  <2>5. session' \in [SessionIds -> Record]
    <3> HIDE DEF Record, created
    <3> QED BY <2>2, <2>3, <2>4
  <2> QED BY <1>2, <2>5 DEF CreateSession, Inv, TypeOK, transportVars, publishVars, serverVars
<1>5. SessionsAreBounded'
  <2>1. IsFiniteSet(sessions)
    BY SessionsAssumption, FS_Subset DEF Inv, TypeOK
  <2>2. Cardinality(sessions) \in Nat /\ Cardinality(sessions') = Cardinality(sessions) + 1
    BY <1>1, <1>2, <2>1, FS_CardinalityType, FS_AddElement
  <2>3. ~(Cardinality(sessions) >= MaxSessions)
    BY DEF CreateSession, IsFull
  <2> QED BY <2>2, <2>3, SessionsAssumption DEF SessionsAreBounded
<1>6. \A t \in SessionIds : t # s => home'[t] = home[t]
  BY <1>2 DEF Inv, TypeOK
<1>7. home'[s] = c /\ c # NoHome /\ home[s] = NoHome
  BY <1>2, SessionsAssumption DEF Inv, TypeOK, CreateSession
<1>8. Fresh' /\ LeftMeansTold'
  <2>1. Fresh'
    BY <1>2, <1>6, <1>7 DEF Inv, Fresh
  <2>2. ASSUME NEW t \in SessionIds
        PROVE  /\ session'[t].terminated => t \notin sessions'
               /\ home'[t] # NoHome /\ t \notin sessions' =>
                    session'[t].terminated \/ ~session'[t].token
    <3>1. CASE t = s
      BY <1>2, <1>3, <3>1, Zenon
    <3>2. CASE t # s
      BY <1>2, <1>6, <3>2 DEF Inv, LeftMeansTold
    <3> QED BY <3>1, <3>2
  <2> QED BY <2>1, <2>2 DEF LeftMeansTold
<1>9. TokenlessIsClosing'
  BY <1>2, <1>3, Zenon DEF Inv, TypeOK, TokenlessIsClosing, In
<1>10. Handling' /\ Closing'
  BY <1>2, <1>6, <1>7 DEF Inv, Handling, Closing
<1> QED BY <1>4, <1>5, <1>8, <1>9, <1>10 DEF Inv

(* A handler moves on, or returns, and leaves the manager alone; only the
   removal of a session ends the handler that removes it. *)
LEMMA HandlerStep ==
  ASSUME Inv, NEW c \in Connections, UNCHANGED managerVars, TypeOK',
         handler[c].op # "deregister",
         \A d \in Connections : d # c => handler'[d] = handler[d],
         handler'[c].op # "deregister",
         handler'[c].op # "none" => /\ handler'[c].session \in SessionIds
                                    /\ home[handler'[c].session] # NoHome
  PROVE  Inv'
<1>1. Fresh' /\ LeftMeansTold' /\ SessionsAreBounded'
  BY DEF Inv, Fresh, LeftMeansTold, SessionsAreBounded, managerVars
<1>2. Handling' /\ Closing'
  BY DEF Inv, Handling, Closing, managerVars
<1>3. TokenlessIsClosing'
  <2> SUFFICES ASSUME NEW s \in sessions', ~session'[s].token
               PROVE  \E d \in Connections : handler'[d] = [op |-> "deregister", session |-> s]
    BY Zenon DEF TokenlessIsClosing, In
  <2>1. PICK d \in Connections : handler[d] = [op |-> "deregister", session |-> s]
    BY DEF Inv, TokenlessIsClosing, In, managerVars
  <2>2. d # c
    BY <2>1
  <2> QED BY <2>1, <2>2
<1> QED BY <1>1, <1>2, <1>3 DEF Inv

(* A handler that has found a session holds one that was created. *)
LEMMA LookupStep ==
  ASSUME Inv, NEW c \in Connections, NEW s \in SessionIds,
         NEW op \in {"activate", "close", "call"}, Lookup(c, s, op)
  PROVE  Inv'
<1>1. handler' = [handler EXCEPT ![c] = [op |-> op, session |-> s]]
      /\ UNCHANGED managerVars /\ handler[c].op = "none" /\ s \in sessions
  BY DEF Lookup, Receives, Reading, Found
<1>2. TypeOK'
  BY <1>1 DEF Lookup, Inv, TypeOK, Ops, managerVars, publishVars, serverVars
<1>3. handler'[c] = [op |-> op, session |-> s]
      /\ \A d \in Connections : d # c => handler'[d] = handler[d]
  BY <1>1, Zenon DEF Inv, TypeOK
<1>4. home[s] # NoHome
  BY <1>1 DEF Inv, Fresh
<1> QED BY <1>1, <1>2, <1>3, <1>4, HandlerStep

(* The steps that validate, serve, queue or reject a request. *)
LEMMA CallStep ==
  ASSUME Inv, NEW c \in Connections,
         Reject(c) \/ \E s \in SessionIds : Validate(c, s) \/ Serve(c, s) \/ Publish(c, s)
  PROVE  Inv'
<1>1. Idle \in [op : Ops, session : SessionIds \union {NoSession}] /\ Idle.op = "none"
  BY DEF Idle, Ops
<1>2. CASE Reject(c)
  <2>1. handler[c].op # "deregister" /\ handler' = [handler EXCEPT ![c] = Idle]
        /\ UNCHANGED managerVars
    BY <1>2, Zenon DEF Reject, Leave
  <2>2. TypeOK'
    BY <1>1, <1>2, <2>1 DEF Reject, Inv, TypeOK, managerVars, publishVars, serverVars
  <2>3. handler'[c] = Idle /\ \A d \in Connections : d # c => handler'[d] = handler[d]
    BY <2>1 DEF Inv, TypeOK
  <2> QED BY <1>1, <2>1, <2>2, <2>3, HandlerStep
<1>3. ASSUME NEW s \in SessionIds, Serve(c, s) \/ Publish(c, s)
      PROVE  Inv'
  <2>1. handler[c].op # "deregister" /\ handler' = [handler EXCEPT ![c] = Idle]
        /\ UNCHANGED managerVars
    BY <1>3 DEF Serve, Publish, Leave, In
  <2>2. handler'[c] = Idle /\ \A d \in Connections : d # c => handler'[d] = handler[d]
    BY <2>1 DEF Inv, TypeOK
  <2>3. pending' \in [SessionIds -> SUBSET Request] /\ requests' \in 0..MaxRequests
    <3>1. CASE Serve(c, s)
      BY <3>1, Zenon DEF Serve, Inv, TypeOK, publishVars
    <3>2. CASE Publish(c, s)
      <4>1. requests + 1 \in 1..MaxRequests
        BY <3>2, SessionsAssumption DEF Publish, Inv, TypeOK
      <4>2. [from |-> c, n |-> requests'] \in Request
        BY <3>2, <4>1, Zenon DEF Publish, Request
      <4> QED BY <3>2, <4>1, <4>2 DEF Publish, Inv, TypeOK
    <3> QED BY <1>3, <3>1, <3>2
  <2>4. TypeOK'
    BY <1>1, <1>3, <2>1, <2>3 DEF Serve, Publish, Inv, TypeOK, managerVars, publishVars,
                                  serverVars
  <2> QED BY <1>1, <2>1, <2>2, <2>4, HandlerStep, Zenon
<1>4. ASSUME NEW s \in SessionIds, Validate(c, s)
      PROVE  Inv'
  <2>1. handler[c] = [op |-> "call", session |-> s]
        /\ handler' = [handler EXCEPT ![c].op = "act"] /\ UNCHANGED managerVars
    BY <1>4 DEF Validate, In
  <2>2. handler'[c] = [op |-> "act", session |-> s]
        /\ \A d \in Connections : d # c => handler'[d] = handler[d]
    BY <2>1 DEF Inv, TypeOK
  <2>3. TypeOK'
    BY <1>4, <2>1 DEF Validate, Inv, TypeOK, Ops, managerVars, publishVars, serverVars
  <2>4. home[s] # NoHome
    BY <2>1 DEF Inv, Handling
  <2> QED BY <2>1, <2>2, <2>3, <2>4, HandlerStep
<1> QED BY <1>2, <1>3, <1>4

(* activate_session() changes a session whose token it does not touch. *)
LEMMA ActivateStep ==
  ASSUME Inv, NEW c \in Connections, NEW s \in SessionIds, NEW good \in BOOLEAN,
         ActivateSession(c, s, good)
  PROVE  Inv'
<1> DEFINE accepted == good /\ OnItsChannel(c, s)
<1>1. /\ handler[c] = [op |-> "activate", session |-> s]
      /\ handler' = [handler EXCEPT ![c] = Idle]
      /\ session' = [session EXCEPT ![s].activated = accepted,
                       ![s].channel = IF accepted THEN channel[c].id ELSE session[s].channel]
      /\ home' = [home EXCEPT ![s] = IF accepted THEN c ELSE home[s]]
      /\ UNCHANGED <<transport_state, reader, channel, sessions, sessions_terminated>>
      /\ UNCHANGED <<publishVars, serverVars>>
  BY DEF ActivateSession, In, Leave
<1>2. accepted \in BOOLEAN
  BY DEF OnItsChannel, Inv, TypeOK
<1> HIDE DEF accepted
<1>3. session' \in [SessionIds -> [channel : 0..MaxChannels, activated : BOOLEAN,
                                  token : BOOLEAN, terminated : BOOLEAN]]
  <2>1. (IF accepted THEN channel[c].id ELSE session[s].channel) \in 0..MaxChannels
    BY DEF Inv, TypeOK
  <2> DEFINE new == IF accepted THEN channel[c].id ELSE session[s].channel
  <2>2. session' = [session EXCEPT ![s].activated = accepted, ![s].channel = new]
    BY <1>1, Zenon
  <2>3. new \in 0..MaxChannels
    BY <2>1
  <2> HIDE DEF new
  <2> DEFINE Record == [channel : 0..MaxChannels, activated : BOOLEAN,
                        token : BOOLEAN, terminated : BOOLEAN]
             changed == [session[s] EXCEPT !.activated = accepted, !.channel = new]
  <2>4. session \in [SessionIds -> Record]
    BY DEF Inv, TypeOK
  <2>5. changed \in Record
    <3>1. session[s] \in Record
      BY <2>4
    <3> QED BY <1>2, <2>3, <3>1, Zenon
  <2>6. session' = [session EXCEPT ![s] = changed]
    BY <2>2, <2>4, Zenon
  <2>7. session' \in [SessionIds -> Record]
    <3> HIDE DEF Record, changed
    <3> QED BY <2>4, <2>5, <2>6
  <2> QED BY <2>7
<1>4. Idle \in [op : Ops, session : SessionIds \union {NoSession}] /\ Idle.op = "none"
  BY DEF Idle, Ops
<1>5. handler'[c] = Idle /\ \A d \in Connections : d # c => handler'[d] = handler[d]
  BY <1>1, Zenon DEF Inv, TypeOK
<1>6. TypeOK'
  BY <1>1, <1>3, <1>4 DEF Inv, TypeOK, publishVars, serverVars
<1>7. \A t \in SessionIds : /\ t # s => session'[t] = session[t]
                            /\ session'[t].token = session[t].token
                            /\ session'[t].terminated = session[t].terminated
  BY <1>1 DEF Inv, TypeOK
<1>8. home[s] # NoHome /\ \A t \in SessionIds : (home'[t] = NoHome <=> home[t] = NoHome)
  <2>1. home[s] # NoHome
    BY <1>1 DEF Inv, Handling
  <2>2. home'[s] # NoHome
    BY <1>1, <2>1, SessionsAssumption DEF Inv, TypeOK
  <2>3. \A t \in SessionIds : t # s => home'[t] = home[t]
    BY <1>1 DEF Inv, TypeOK
  <2> QED BY <2>1, <2>2, <2>3
<1>9. Fresh' /\ LeftMeansTold' /\ SessionsAreBounded'
  BY <1>1, <1>7, <1>8, ZenonT(30) DEF Inv, Fresh, LeftMeansTold, SessionsAreBounded
<1>10. Handling' /\ Closing'
  BY <1>4, <1>5, <1>7, <1>8 DEF Inv, Handling, Closing
<1>11. TokenlessIsClosing'
  <2> SUFFICES ASSUME NEW t \in sessions', ~session'[t].token
               PROVE  \E d \in Connections : handler'[d] = [op |-> "deregister", session |-> t]
    BY Zenon DEF TokenlessIsClosing, In
  <2>1. PICK d \in Connections : handler[d] = [op |-> "deregister", session |-> t]
    BY <1>1, <1>7 DEF Inv, TypeOK, TokenlessIsClosing, In
  <2>2. d # c
    BY <1>1, <2>1
  <2> QED BY <1>5, <2>1, <2>2
<1> QED BY <1>6, <1>9, <1>10, <1>11 DEF Inv

(* close_session() takes the token, and its handler goes on to remove the
   session. *)
LEMMA CloseStep ==
  ASSUME Inv, NEW c \in Connections, NEW s \in SessionIds, CloseSession(c, s)
  PROVE  Inv'
<1>1. /\ handler[c] = [op |-> "close", session |-> s]
      /\ handler' = [handler EXCEPT ![c].op = "deregister"]
      /\ session' = [session EXCEPT ![s].token = FALSE, ![s].activated = FALSE]
      /\ UNCHANGED <<transport_state, reader, channel, sessions, sessions_terminated, home>>
      /\ UNCHANGED <<publishVars, serverVars>>
  BY DEF CloseSession, In
<1>2. TypeOK'
  <2>1. handler' \in [Connections -> [op : Ops, session : SessionIds \union {NoSession}]]
    BY <1>1, Zenon DEF Inv, TypeOK, Ops
  <2> DEFINE Record == [channel : 0..MaxChannels, activated : BOOLEAN,
                        token : BOOLEAN, terminated : BOOLEAN]
             closed == [session[s] EXCEPT !.token = FALSE, !.activated = FALSE]
  <2>2. session \in [SessionIds -> Record]
    BY DEF Inv, TypeOK
  <2>3. closed \in Record
    <3>1. session[s] \in Record
      BY <2>2
    <3> QED BY <3>1, Zenon
  <2>4. session' = [session EXCEPT ![s] = closed]
    BY <1>1, <2>2, Zenon
  <2>5. session' \in [SessionIds -> Record]
    <3> HIDE DEF Record, closed
    <3> QED BY <2>2, <2>3, <2>4
  <2> QED BY <1>1, <2>1, <2>5 DEF Inv, TypeOK, publishVars, serverVars
<1>3. handler'[c] = [op |-> "deregister", session |-> s]
      /\ \A d \in Connections : d # c => handler'[d] = handler[d]
  BY <1>1 DEF Inv, TypeOK
<1>4. \A t \in SessionIds : /\ t # s => session'[t] = session[t]
                            /\ session'[t].terminated = session[t].terminated
  BY <1>1 DEF Inv, TypeOK
<1>5. ~session'[s].token
  BY <1>1 DEF Inv, TypeOK
<1>6. home[s] # NoHome
  BY <1>1 DEF Inv, Handling
<1>7. Fresh' /\ LeftMeansTold' /\ SessionsAreBounded'
  BY <1>1, <1>4, <1>5, <1>6, Zenon DEF Inv, Fresh, LeftMeansTold, SessionsAreBounded
<1>8. Handling' /\ Closing'
  <2>1. Handling'
    BY <1>1, <1>3, <1>6 DEF Inv, Handling
  <2>2. ASSUME NEW d \in Connections, handler'[d].op = "deregister"
        PROVE  ~session'[handler'[d].session].token
    <3>1. CASE d = c
      BY <1>3, <1>5, <3>1
    <3>2. CASE d # c
      <4>1. handler[d].session \in SessionIds /\ ~session[handler[d].session].token
            /\ handler'[d] = handler[d]
        BY <1>3, <2>2, <3>2 DEF Inv, Handling, Closing
      <4> QED BY <1>4, <1>5, <4>1
    <3> QED BY <3>1, <3>2
  <2> QED BY <2>1, <2>2 DEF Closing
<1>9. TokenlessIsClosing'
  <2> SUFFICES ASSUME NEW t \in sessions', ~session'[t].token
               PROVE  \E d \in Connections : handler'[d] = [op |-> "deregister", session |-> t]
    BY Zenon DEF TokenlessIsClosing, In
  <2>1. CASE t = s
    BY <1>3, <2>1, Zenon
  <2>2. CASE t # s
    <3>1. PICK d \in Connections : handler[d] = [op |-> "deregister", session |-> t]
      BY <1>1, <1>4, <2>2 DEF Inv, TypeOK, TokenlessIsClosing, In
    <3>2. d # c
      BY <1>1, <3>1
    <3> QED BY <1>3, <3>1, <3>2, Zenon
  <2> QED BY <2>1, <2>2
<1> QED BY <1>2, <1>7, <1>8, <1>9 DEF Inv

(* deregister_session(): the session that leaves has lost its token. *)
LEMMA DeregisterStep ==
  ASSUME Inv, NEW c \in Connections, NEW s \in SessionIds, Deregister(c, s)
  PROVE  Inv'
<1>1. /\ handler[c] = [op |-> "deregister", session |-> s]
      /\ handler' = [handler EXCEPT ![c] = Idle]
      /\ sessions' = sessions \ {s}
      /\ sessions_terminated' \in BOOLEAN
      /\ UNCHANGED <<transport_state, reader, channel, session, home>>
      /\ UNCHANGED <<publishVars, serverVars>>
  BY DEF Deregister, In, Leave, Without
<1>2. Idle \in [op : Ops, session : SessionIds \union {NoSession}] /\ Idle.op = "none"
  BY Zenon DEF Idle, Ops
<1>3. TypeOK'
  BY <1>1, <1>2, Zenon DEF Inv, TypeOK, publishVars, serverVars
<1>4. handler'[c] = Idle /\ \A d \in Connections : d # c => handler'[d] = handler[d]
  BY <1>1 DEF Inv, TypeOK
<1>5. ~session[s].token
  BY <1>1 DEF Inv, Closing
<1>6. Fresh' /\ LeftMeansTold'
  BY <1>1, <1>5, Zenon DEF Inv, Fresh, LeftMeansTold
<1>7. Handling' /\ Closing'
  BY <1>1, <1>2, <1>4 DEF Inv, Handling, Closing
<1>8. SessionsAreBounded'
  <2>1. IsFiniteSet(sessions)
    BY SessionsAssumption, FS_Subset DEF Inv, TypeOK
  <2>2. Cardinality(sessions') <= Cardinality(sessions)
        /\ Cardinality(sessions) \in Nat /\ Cardinality(sessions') \in Nat
    BY <1>1, <2>1, FS_Subset, FS_CardinalityType, Zenon
  <2> QED BY <2>2, SessionsAssumption DEF Inv, SessionsAreBounded
<1>9. TokenlessIsClosing'
  <2> SUFFICES ASSUME NEW t \in sessions', ~session'[t].token
               PROVE  \E d \in Connections : handler'[d] = [op |-> "deregister", session |-> t]
    BY Zenon DEF TokenlessIsClosing, In
  <2>1. PICK d \in Connections : handler[d] = [op |-> "deregister", session |-> t]
    BY <1>1 DEF Inv, TokenlessIsClosing, In
  <2>2. d # c
    BY <1>1, <2>1
  <2> QED BY <1>4, <2>1, <2>2, Zenon
<1> QED BY <1>3, <1>6, <1>7, <1>8, <1>9, Zenon DEF Inv
-----------------------------------------------------------------------------
(* A server that has just started satisfies the invariant. *)
LEMMA InitHolds == Init => Inv
<1> SUFFICES ASSUME Init PROVE Inv
  BY Zenon
<1>1. TypeOK
  <2>1. Idle \in [op : Ops, session : SessionIds \union {NoSession}]
    BY DEF Idle, Ops
  <2>2. NewSession \in [channel : 0..MaxChannels, activated : BOOLEAN,
                       token : BOOLEAN, terminated : BOOLEAN]
    BY SessionsAssumption DEF NewSession
  <2>3. /\ channel \in [Connections -> [last : 0..MaxChannels, id : 0..MaxChannels]]
        /\ requests \in 0..MaxRequests
    BY SessionsAssumption DEF Init
  <2>4. /\ handler \in [Connections -> [op : Ops, session : SessionIds \union {NoSession}]]
        /\ session \in [SessionIds -> [channel : 0..MaxChannels, activated : BOOLEAN,
                                       token : BOOLEAN, terminated : BOOLEAN]]
    BY <2>1, <2>2 DEF Init
  <2> QED BY <2>3, <2>4, Zenon DEF Init, TypeOK
<1>2. Fresh /\ Handling /\ Closing /\ LeftMeansTold /\ TokenlessIsClosing
  BY SessionsAssumption DEF Init, Fresh, Handling, Closing, LeftMeansTold,
                            TokenlessIsClosing, Idle, NewSession
<1>3. SessionsAreBounded
  BY FS_EmptySet, SessionsAssumption DEF Init, SessionsAreBounded
<1> QED BY <1>1, <1>2, <1>3 DEF Inv

(* Every step of a connection, of the poll and of the server task keeps it. *)
LEMMA StepHolds == Inv /\ [Next]_vars => Inv'
<1> SUFFICES ASSUME Inv, [Next]_vars PROVE Inv'
  OBVIOUS
<1>1. CASE UNCHANGED vars
  BY <1>1, QuietStep DEF vars, transportVars, managerVars, publishVars, serverVars, Inv, TypeOK
<1>2. CASE Server \/ AbortPoll \/ ListenerStops
  BY <1>2, ServerStep, ZenonT(30)
<1>3. ASSUME NEW c \in Connections, Transport(c)
      PROVE  Inv'
  BY <1>3, FinishStep, ChannelStep, TimerStep, Zenon DEF Transport
<1>4. ASSUME NEW c \in Connections, Receive(c)
      PROVE  Inv'
  BY <1>4, CreateStep, LookupStep, Zenon DEF Receive
<1>5. ASSUME NEW c \in Connections, Handle(c)
      PROVE  Inv'
  BY <1>5, CallStep, ActivateStep, CloseStep, DeregisterStep DEF Handle
<1> QED BY <1>1, <1>2, <1>3, <1>4, <1>5 DEF Next

(* The inductive invariant of connections and sessions. *)
THEOREM SessionsAreSound == Spec => []Inv
BY InitHolds, StepHolds, PTL DEF Spec

(* Transports, handlers, the manager and the server task keep their types. *)
THEOREM SessionsTypeCorrect == Spec => []TypeOK
<1>1. Inv => TypeOK
  BY DEF Inv
<1> QED BY <1>1, SessionsAreSound, PTL

(* However many connections create sessions at the same time, the manager
   never holds more than MAX_SESSIONS_PER_TRANSPORT. *)
THEOREM LimitTheorem == Spec => []SessionsAreBounded
<1>1. Inv => SessionsAreBounded
  BY DEF Inv
<1> QED BY <1>1, SessionsAreSound, PTL

(* Every session that has left the map was terminated by finish() or closed by
   CloseSession, and no terminated session is in the map. *)
THEOREM LeavingTheorem == Spec => []LeftMeansTold
<1>1. Inv => LeftMeansTold
  BY DEF Inv
<1> QED BY <1>1, SessionsAreSound, PTL

(* Every session in the map that cannot be found any more is about to be
   removed by the handler that closed it. *)
THEOREM ClosingTheorem == Spec => []TokenlessIsClosing
<1>1. Inv => TokenlessIsClosing
  BY DEF Inv
<1> QED BY <1>1, SessionsAreSound, PTL
=============================================================================
