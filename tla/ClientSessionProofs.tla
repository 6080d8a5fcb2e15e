-------------------------- MODULE ClientSessionProofs --------------------------
(***************************************************************************)
(* Theorems about the client's session, for every number of calls,         *)
(* answers, renewals and connections: one lemma per action that it keeps   *)
(* the inductive invariant of ClientSessionEffects, and the four safety    *)
(* properties of ClientSession that follow from it.                        *)
(***************************************************************************)
EXTENDS ClientSessionEffects

-----------------------------------------------------------------------------
(* Requests sent by the session                                            *)

\* What the sender of a request waits for afterwards.
SentBy(by, kind, as) ==
    \/ pending' = NoWait /\ kind \notin SyncKinds
    \/ /\ pending' # NoWait /\ pending'.by = by /\ pending'.kind = kind /\ kind \in SyncKinds
       /\ pending'.then = NoRequest
    \/ /\ pending' # NoWait /\ pending'.by = by /\ pending'.kind = "renew"
       /\ pending'.then.kind = kind /\ pending'.then.acks = as /\ pending'.then.nonce = 0

\* The kinds of requests that SendRequest is called with.
SentKinds == {"create", "subscribe", "read", "closesession", "publish", "ping"}

\* A request sent by SendRequest, behind a renewal or not, keeps the queue and
\* the keys in order.
LEMMA Sending ==
    ASSUME Good, pending = NoWait,
           NEW by \in {"app", "poll", "task"}, NEW kind \in SentKinds,
           NEW as \in SUBSET Numbers, kind # "publish" => as = {},
           SendRequest(by, kind, as), SendsOnly
    PROVE  /\ Messages' /\ Keys' /\ SentTypes /\ SentBy(by, kind, as)
           /\ panicked' = (sender = "none")
<1> TypeOK /\ Control /\ Messages /\ Keys
  BY Zenon DEF Good, Inv
<1>1. /\ kind \in Kinds \ {"quit", "renew"} /\ kind # "open" /\ kind \in Kinds
      /\ 0 \in Nonces /\ local_nonce \in Nonces
  BY ClientAssumption DEF SentKinds, Kinds, SyncKinds, TypeOK, Nonces
<1>2. /\ UNCHANGED <<to_client, mailbox, held>>
      /\ UNCHANGED <<keys, server_keys, in_step, thread>>
  BY Zenon DEF SendsOnly
<1>3. CASE SendNow(by, kind, as, 0) /\ local_nonce' = local_nonce
  <2>1. local_nonce' \in Nonces
    BY <1>1, <1>3, Zenon
  <2>2. PICK r : SentAtOnce(r, by, kind, as)
    BY <1>1, <1>2, <1>3, <2>1, SentNow, Zenon
  <2>3. /\ r.kind = kind /\ Sends(r, inflight) /\ SentTypes /\ panicked' = (sender = "none")
        /\ pending' = NoWait \/ (pending'.by = by /\ pending'.kind = kind /\ kind \in SyncKinds)
        /\ pending'.then = NoRequest
    BY <2>2, Zenon DEF SentAtOnce
  <2>4. Symmetric(r) /\ r.kind # "open"
    BY <1>1, <2>3, Zenon DEF Symmetric
  <2>5. Messages'
    BY <2>3, MessagesSent, Zenon DEF GoodMessages
  <2>6. Keys'
    BY <1>2, <2>3, <2>4, KeysSent, Zenon DEF GoodKeys
  <2>7. SentBy(by, kind, as)
    <3>1. (kind \in SyncKinds => pending' # NoWait) /\ (kind \notin SyncKinds => pending' = NoWait)
      BY <2>3, Zenon DEF Sends
    <3> QED BY <2>3, <3>1, Zenon DEF SentBy
  <2> QED BY <2>3, <2>5, <2>6, <2>7, Zenon
<1>4. CASE SendRenewal(by, kind, as)
  <2>1. PICK r : SentRenewal(r, by, kind, as)
    BY <1>1, <1>2, <1>4, RenewalSent, Zenon
  <2>2. /\ r.kind = "renew" /\ local_nonce' = r.nonce /\ Sends(r, inflight) /\ SentTypes
        /\ panicked' = (sender = "none") /\ pending'.by = by /\ pending'.kind = "renew"
        /\ pending'.then.kind = kind /\ pending'.then.acks = as /\ pending'.then.nonce = 0
    BY <2>1, Zenon DEF SentRenewal
  <2>3. Messages'
    BY <2>2, MessagesSent, Zenon DEF GoodMessages
  <2>4. Keys'
    BY <1>2, <2>2, KeysSent, Zenon DEF GoodKeys
  <2>5. pending' # NoWait
    BY <2>2 DEF NoWait
  <2> QED BY <2>2, <2>3, <2>4, <2>5, Zenon DEF SentBy
<1> QED BY <1>3, <1>4, Zenon DEF SendRequest, SendRenewal

\* A publish request drains the acknowledgements, also when a renewal comes
\* first: they go into it, with those of the response that was just handled.
LEMMA AcksPublished ==
    ASSUME Good, pending = NoWait,
           NEW by \in {"app", "poll", "task"}, NEW A \in SUBSET Numbers,
           AsyncPublish(by, acks \cup A), SendsOnly,
           sender = "open" \/ thread # "looping" \/ acks \cup A = {},
           \A n \in A : n <= answers /\ ~OnWire(n) /\ ~Carried(n) /\ ~Received(n)',
           batch' \subseteq batch, UNCHANGED <<acked, refused, answers, responses>>,
           handled' = handled \cup A
    PROVE  GoodAcks'
<1> SUFFICES ASSUME TypeOK, Messages, Acknowledgements PROVE Acknowledgements'
  BY Zenon DEF Good, Inv, GoodAcks
<1>1. PICK as \in SUBSET Numbers : as = acks \cup A
  BY Zenon DEF TypeOK
<1>2. /\ outgoing \in Seq(Request) /\ local_nonce \in Nonces
      /\ 0 \in Nonces /\ pending.then.acks = {} /\ acks' = {}
      /\ "publish" \in Kinds \ {"quit", "renew"} /\ "publish" \in Kinds
  BY ClientAssumption DEF TypeOK, Nonces, NoWait, NoRequest, Kinds, AsyncPublish
<1>3. UNCHANGED <<to_client, mailbox, held>> /\ UNCHANGED thread
  BY Zenon DEF SendsOnly
<1>4. SendRequest(by, "publish", as)
  BY <1>1, Zenon DEF AsyncPublish
<1>5. /\ Places = {-2, -1, 0} \cup DOMAIN outgoing /\ AcksAt(-2) = acked \cup refused
      /\ \A p \in DOMAIN outgoing : AcksAt(p) = outgoing[p].acks
      /\ DOMAIN outgoing = 1 .. Len(outgoing) /\ Len(outgoing) \in Nat
  BY <1>2, AcksAtPlaces, Zenon
<1>6. ASSUME NEW r \in Request, outgoing' \in Seq(Request),
             outgoing' = IF sender = "open" THEN Append(outgoing, r) ELSE outgoing
      PROVE  /\ Places' = {-2, -1, 0} \cup DOMAIN outgoing' /\ Places \subseteq Places'
             /\ AcksAt(-2)' = acked \cup refused /\ AcksAt(-1)' = {} /\ AcksAt(0)' = pending'.then.acks
             /\ \A p \in DOMAIN outgoing : AcksAt(p)' = AcksAt(p)
             /\ \A p \in Places' \ Places : p = Len(outgoing) + 1 /\ AcksAt(p)' = r.acks
             /\ sender = "open" => Len(outgoing) + 1 \in Places'
  <2>1. /\ Places' = {-2, -1, 0} \cup DOMAIN outgoing'
        /\ AcksAt(-2)' = acked \cup refused /\ AcksAt(-1)' = {} /\ AcksAt(0)' = pending'.then.acks
        /\ \A p \in DOMAIN outgoing' : AcksAt(p)' = outgoing'[p].acks
    BY <1>2, <1>6, AcksAtPlacesAfter, Zenon
  <2>2. CASE sender = "open"
    <3>1. outgoing' = Append(outgoing, r)
      BY <1>6, <2>2, Zenon
    <3>2. /\ DOMAIN outgoing' = 1 .. Len(outgoing) + 1 /\ outgoing'[Len(outgoing) + 1] = r
          /\ \A p \in DOMAIN outgoing : outgoing'[p] = outgoing[p]
      BY <1>2, <3>1, Appended
    <3> QED BY <1>5, <2>1, <3>2
  <2>3. CASE sender # "open"
    <3>1. outgoing' = outgoing
      BY <1>6, <2>3, Zenon
    <3> QED BY <1>5, <2>1, <2>3, <3>1, Zenon
  <2> QED BY <2>2, <2>3, Zenon
<1>7. CASE SendNow(by, "publish", as, 0) /\ local_nonce' = local_nonce
  <2>1. local_nonce' \in Nonces
    BY <1>2, <1>7, Zenon
  <2>2. PICK r : SentAtOnce(r, by, "publish", as)
    BY <1>2, <1>3, <1>7, <2>1, SentNow, Zenon
  <2>3. /\ r \in Request /\ outgoing' \in Seq(Request) /\ pending'.then.acks = {} /\ r.acks = as
        /\ outgoing' = IF sender = "open" THEN Append(outgoing, r) ELSE outgoing
    BY <2>2, NoRequestIsRequest, Zenon DEF SentAtOnce, SentTypes
  <2>4. PICK w \in Nat : w = Len(outgoing) + 1
    BY <1>5
  <2>5. w \notin Places
    BY <1>5, <2>4
  <2>6. w \in Places' => AcksAt(w)' = r.acks
    BY <1>6, <2>3, <2>5, Zenon
  <2>7. sender = "open" => w \in Places'
    BY <1>6, <2>3, <2>4, Zenon
  <2>8. /\ w \notin Places \ {-1, 0} /\ Places \subseteq Places'
        /\ w \in Places' => AcksAt(w)' = acks \cup A
        /\ thread # "looping" \/ acks \cup A = {} \/ w \in Places'
    BY <1>6, <2>2, <2>3, <2>5, <2>6, <2>7, <1>1, ZenonT(30)
  <2>9. \A p \in Places' : p # w => AcksAt(p)' = IF p \in Places \ {-1, 0} THEN AcksAt(p) ELSE {}
    BY <1>5, <1>6, <2>3, <2>4, Zenon
  <2> QED BY <1>2, <1>3, <2>8, <2>9, AcksDrained, Zenon DEF GoodAcks
<1>8. CASE SendRenewal(by, "publish", as)
  <2>1. PICK r : SentRenewal(r, by, "publish", as)
    BY <1>2, <1>3, <1>8, RenewalSent, Zenon
  <2>2. /\ r \in Request /\ outgoing' \in Seq(Request) /\ pending'.then.acks = as /\ r.acks = {}
        /\ outgoing' = IF sender = "open" THEN Append(outgoing, r) ELSE outgoing
    BY <2>1, Zenon DEF SentRenewal, SentTypes
  <2>3. /\ 0 \notin Places \ {-1, 0} /\ Places \subseteq Places'
        /\ AcksAt(0)' = acks \cup A /\ 0 \in Places'
    BY <1>5, <1>6, <1>1, <2>2, Zenon
  <2>4. \A p \in Places' : p # 0 => AcksAt(p)' = IF p \in Places \ {-1, 0} THEN AcksAt(p) ELSE {}
    BY <1>5, <1>6, <2>2, Zenon
  <2> QED BY <1>2, <1>3, <2>3, <2>4, AcksDrained, Zenon DEF GoodAcks
<1> QED BY <1>4, <1>7, <1>8, Zenon DEF SendRequest, SendRenewal

\* A request other than a publish request moves no acknowledgement.
LEMMA AcksUnmoved ==
    ASSUME Good, pending = NoWait,
           NEW by \in {"app", "poll", "task"}, NEW kind \in SentKinds,
           SendRequest(by, kind, {}), SendsOnly,
           UNCHANGED <<acks, acked, refused, answers, responses, batch, handled>>
    PROVE  GoodAcks'
<1> SUFFICES ASSUME TypeOK, Messages, Acknowledgements PROVE Acknowledgements'
  BY Zenon DEF Good, Inv, GoodAcks
<1>1. /\ kind \in Kinds \ {"quit", "renew"} /\ kind # "open" /\ kind \in Kinds
      /\ 0 \in Nonces /\ local_nonce \in Nonces /\ {} \in SUBSET Numbers
  BY ClientAssumption DEF SentKinds, Kinds, SyncKinds, TypeOK, Nonces
<1>2. UNCHANGED <<to_client, mailbox, held>> /\ UNCHANGED thread
  BY Zenon DEF SendsOnly
<1>3. CASE SendNow(by, kind, {}, 0) /\ local_nonce' = local_nonce
  <2>1. local_nonce' \in Nonces
    BY <1>1, <1>3, Zenon
  <2>2. PICK r : SentAtOnce(r, by, kind, {})
    BY <1>1, <1>2, <1>3, <2>1, SentNow, Zenon
  <2>3. /\ r \in Request /\ r.acks = {} /\ pending'.then.acks = {}
        /\ outgoing' = IF sender = "open" THEN Append(outgoing, r) ELSE outgoing
    BY <2>2, NoRequestIsRequest, ZenonT(30) DEF SentAtOnce
  <2> QED BY <1>2, <2>3, AcksUndisturbed, Zenon DEF GoodAcks
<1>4. CASE SendRenewal(by, kind, {})
  <2>1. PICK r : SentRenewal(r, by, kind, {})
    BY <1>1, <1>2, <1>4, RenewalSent, Zenon
  <2>2. /\ r \in Request /\ r.acks = {} /\ pending'.then.acks = {}
        /\ outgoing' = IF sender = "open" THEN Append(outgoing, r) ELSE outgoing
    BY <2>1, Zenon DEF SentRenewal
  <2> QED BY <1>2, <2>2, AcksUndisturbed, Zenon DEF GoodAcks
<1> QED BY <1>3, <1>4, Zenon DEF SendRequest, SendRenewal

-----------------------------------------------------------------------------
(* Steps that leave the queue alone, and the places of the callers         *)

\* A step that neither sends nor receives.
Rests ==
    /\ UNCHANGED <<outgoing, to_client, inflight, handle, pending, mailbox, held, responses,
                   batch, acks, acked, refused, answers, local_nonce, keys, server_keys>>
    /\ in_step' => in_step
    /\ handled' = handled \/ handled' = {}
    /\ thread' = thread \/ thread' # "looping" \/ thread = "connecting"

\* The queue and the wire are as they were.
LEMMA MessagesKept ==
    ASSUME Good, UNCHANGED <<outgoing, to_client, inflight, handle, pending, mailbox, held>>
    PROVE  GoodMessages'
<1> SUFFICES ASSUME Messages PROVE Messages'
  BY Zenon DEF Good, Inv, GoodMessages
<1>1. WaitIsOwn' /\ EntriesAreOwn'
  BY Zenon DEF Messages, WaitIsOwn, EntriesAreOwn, Waits, Unused
<1>2. /\ \A k \in DOMAIN outgoing' : RequestOK(k)'
      /\ \A j \in DOMAIN to_client' : AnswerOK(j)'
  BY ZenonT(30) DEF Messages, RequestOK, AnswerOK, Waits, Symmetric
<1> QED BY <1>1, <1>2, ZenonT(30) DEF Messages

\* It leaves messages, keys and acknowledgements in order.
LEMMA Resting ==
    ASSUME Good, Rests
    PROVE  GoodMessages' /\ GoodKeys' /\ GoodAcks'
<1> SUFFICES ASSUME Inv PROVE Messages' /\ Keys' /\ Acknowledgements'
  BY Zenon DEF Good, GoodMessages, GoodKeys, GoodAcks
<1>1. Messages'
  BY MessagesKept, Zenon DEF Inv, Rests, GoodMessages
<1>2. thread = "connecting" => ~in_step /\ handled = {} /\ mailbox = NoAnswer
  BY Zenon DEF Inv, Control
<1>3. Keys'
  BY <1>2, KeysKept, Zenon DEF Inv, Rests, GoodKeys
<1>4. Acknowledgements'
  BY <1>2, AcksKept, Zenon DEF Inv, Rests, GoodAcks
<1> QED BY <1>1, <1>3, <1>4, Zenon

Labels == {"idle", "connecting", "opening", "failed", "retry", "spawning", "publishing",
           "disconnecting", "closing", "quitting", "finishing"}

\* Where the threads are after one has moved.
LEMMA Moved ==
    ASSUME Good, NEW who \in {"app", "run"}, NEW label \in Labels, Goto(who, label)
    PROVE  /\ pc'[who] = label /\ pc' \in [{"app", "run"} -> Labels]
           /\ \A other \in {"app", "run"} : other # who => pc'[other] = pc[other]
<1> TypeOK
  BY Zenon DEF Good, Inv
<1> QED BY Zenon DEF TypeOK, Goto, Labels

\* The thread that waits for a connection.
LEMMA ConnectorWaits ==
    ASSUME Good, thread = "connecting"
    PROVE  Connector \in {"app", "run"} /\ pc[Connector] = "connecting"
<1> Control
  BY Zenon DEF Good, Inv
<1>1. \E who \in {"app", "run"} : pc[who] = "connecting"
  BY Zenon DEF Control
<1> QED BY <1>1, Zenon DEF Connector

-----------------------------------------------------------------------------
(* The transport's thread                                                  *)

\* What is left of a connection that was dropped is typed.
LEMMA DroppedTypes ==
    ASSUME Good, DropStates
    PROVE  /\ outgoing' \in Seq(Request) /\ to_client' \in Seq([answer : Answer, key : Nonces \X Nonces])
           /\ held' \subseteq Handles /\ handled' \in SUBSET Numbers /\ in_step' \in BOOLEAN
           /\ sender' \in {"none", "open", "closed"} /\ server_keys' \in Nonces \X Nonces
<1> TypeOK
  BY Zenon DEF Good, Inv
<1>1. outgoing' \in Seq(Request) /\ to_client' \in Seq([answer : Answer, key : Nonces \X Nonces])
  BY DEF DropStates
<1>2. held' \subseteq Handles /\ handled' \in SUBSET Numbers
  BY Zenon DEF DropStates
<1>3. in_step' \in BOOLEAN
  BY Zenon DEF DropStates
<1>4. sender' \in {"none", "open", "closed"}
  BY Zenon DEF DropStates, TypeOK
<1>5. server_keys' \in Nonces \X Nonces
  BY ClientAssumption DEF DropStates, NoKeys, Nonces
<1> QED BY <1>1, <1>2, <1>3, <1>4, <1>5, Zenon

\* ThreadStarts keeps the invariant.
LEMMA ThreadStartsStep ==
    ASSUME Good, ~panicked, ThreadStarts
    PROVE  Good'
<1> SUFFICES ASSUME Inv PROVE Inv'
  BY Zenon DEF Good
<1> USE DEF transport_vars, queue_vars, session_vars, key_vars, server_vars
<1>1. TypeOK'
  <2>1. wanted' \in BOOLEAN /\ in_step' \in BOOLEAN /\ handled' \in SUBSET Numbers
    BY Zenon DEF ThreadStarts
  <2>2. thread' = "connecting" /\ connection' \in States
    BY Zenon DEF ThreadStarts, States
  <2>3. UNCHANGED <<attempts, queue_vars, session_vars, local_nonce, keys,
                   server_keys, server_vars, shared, responses, acks, handle,
                   pending, mailbox, batch, renewals>>
    BY Zenon DEF ThreadStarts
  <2> QED BY <2>1, <2>2, <2>3 DEF Inv, TypeOK
<1>2. Control'
  BY ZenonT(30) DEF Inv, Control, ThreadStarts
<1>3. Calling' /\ Attempts'
  BY DEF Inv, Calling, Attempts, ThreadStarts, Waits, Purpose
<1>4. Messages' /\ Keys' /\ Acknowledgements'
  BY Resting, ZenonT(30) DEF Rests, ThreadStarts, GoodMessages, GoodKeys, GoodAcks
<1> QED BY <1>1, <1>2, <1>3, <1>4, ZenonT(30) DEF Inv

\* Acknowledged keeps the invariant.
LEMMA AcknowledgedStep ==
    ASSUME Good, ~panicked, Acknowledged
    PROVE  Good'
<1> SUFFICES ASSUME Inv PROVE Inv'
  BY Zenon DEF Good
<1> USE DEF transport_vars, queue_vars, session_vars, key_vars, server_vars
<1>1. /\ pc' \in [{"app", "run"} -> Labels] /\ pc'[Connector] = "opening"
      /\ \A other \in {"app", "run"} : other # Connector => pc'[other] = pc[other]
      /\ Connector \in {"app", "run"} /\ pc[Connector] = "connecting"
  BY ConnectorWaits, Moved, ZenonT(30) DEF Inv, Acknowledged, Labels
<1>2. TypeOK'
  BY <1>1 DEF Inv, TypeOK, Acknowledged, States, Labels
<1>3. Control'
  BY <1>1, ZenonT(30) DEF Inv, Control, Acknowledged
<1>4. Calling' /\ Attempts'
  <2>1. Calling'
    BY <1>1, ZenonT(30) DEF Inv, Calling, Acknowledged, Waits, Purpose
  <2>2. Attempts'
    BY <1>1, ZenonT(30) DEF Inv, Attempts, Acknowledged
  <2> QED BY <2>1, <2>2
<1>5. Messages' /\ Keys' /\ Acknowledgements'
  BY Resting, ZenonT(30) DEF Rests, Acknowledged, GoodMessages, GoodKeys, GoodAcks
<1> QED BY <1>2, <1>3, <1>4, <1>5, Zenon DEF Inv

\* SocketOpens keeps the invariant.
LEMMA SocketOpensStep ==
    ASSUME Good, ~panicked, SocketOpens
    PROVE  Good'
<1> SUFFICES ASSUME Inv PROVE Inv'
  BY Zenon DEF Good
<1> USE DEF transport_vars, queue_vars, session_vars, key_vars, server_vars
<1>1. TypeOK'
  BY DEF Inv, TypeOK, SocketOpens, States
<1>2. Control'
  BY ZenonT(30) DEF Inv, Control, SocketOpens
<1>3. Calling' /\ Attempts'
  <2>1. Calling'
    BY ZenonT(30) DEF Inv, Calling, SocketOpens, Waits, Purpose
  <2>2. Attempts'
    BY ZenonT(30) DEF Inv, Attempts, SocketOpens
  <2> QED BY <2>1, <2>2
<1>4. Messages' /\ Keys' /\ Acknowledgements'
  BY Resting, ZenonT(30) DEF Rests, SocketOpens, GoodMessages, GoodKeys, GoodAcks
<1> QED BY <1>1, <1>2, <1>3, <1>4, Zenon DEF Inv

\* SetFinished keeps the invariant.
LEMMA SetFinishedStep ==
    ASSUME Good, ~panicked, SetFinished
    PROVE  Good'
<1> SUFFICES ASSUME Inv PROVE Inv'
  BY Zenon DEF Good
<1> USE DEF transport_vars, queue_vars, session_vars, key_vars, server_vars
<1>1. TypeOK'
  BY DEF Inv, TypeOK, SetFinished, States
<1>2. Control'
  BY ZenonT(30) DEF Inv, Control, SetFinished
<1>3. Calling' /\ Attempts'
  <2>1. Calling'
    BY ZenonT(30) DEF Inv, Calling, SetFinished, Waits, Purpose
  <2>2. Attempts'
    BY ZenonT(30) DEF Inv, Attempts, SetFinished
  <2> QED BY <2>1, <2>2
<1>4. Messages' /\ Keys' /\ Acknowledgements'
  BY Resting, ZenonT(30) DEF Rests, SetFinished, GoodMessages, GoodKeys, GoodAcks
<1> QED BY <1>1, <1>2, <1>3, <1>4, Zenon DEF Inv

\* SessionClosed keeps the invariant.
LEMMA SessionClosedStep ==
    ASSUME Good, ~panicked, SessionClosed
    PROVE  Good'
<1> SUFFICES ASSUME Inv PROVE Inv'
  BY Zenon DEF Good
<1> USE DEF transport_vars, queue_vars, session_vars, key_vars, server_vars
<1>1. TypeOK'
  BY DEF Inv, TypeOK, SessionClosed, States
<1>2. mailbox = NoAnswer
  <2>1. pending = NoWait
    BY ZenonT(30) DEF Inv, Calling, SessionClosed, LockIsFree
  <2> QED BY <2>1, NobodyWaits, Zenon DEF Inv
<1>3. Control'
  BY <1>2, ZenonT(30) DEF Inv, Control, SessionClosed
<1>4. Calling' /\ Attempts'
  <2>1. Calling'
    BY ZenonT(30) DEF Inv, Calling, SessionClosed, Waits, Purpose
  <2>2. Attempts'
    BY ZenonT(30) DEF Inv, Attempts, SessionClosed
  <2> QED BY <2>1, <2>2
<1>5. Messages' /\ Keys' /\ Acknowledgements'
  BY Resting, Zenon DEF Rests, SessionClosed, GoodMessages, GoodKeys, GoodAcks
<1> QED BY <1>1, <1>3, <1>4, <1>5, Zenon DEF Inv

\* Lost: what was on the wire is gone, and the waits are left to expire.
LEMMA LostStep ==
    ASSUME Good, ~panicked, Lost
    PROVE  Good'
<1> SUFFICES ASSUME Inv PROVE Inv'
  BY Zenon DEF Good
<1> USE DEF transport_vars, queue_vars, session_vars, key_vars, server_vars
<1>1. Drops
  BY ZenonT(30) DEF Lost, DropStates, Drops
<1>2. TypeOK'
  <2>1. /\ outgoing' \in Seq(Request) /\ to_client' \in Seq([answer : Answer, key : Nonces \X Nonces])
        /\ held' \subseteq Handles /\ handled' \in SUBSET Numbers /\ in_step' \in BOOLEAN
        /\ sender' \in {"none", "open", "closed"} /\ server_keys' \in Nonces \X Nonces
    BY DroppedTypes, Zenon DEF Lost, Inv
  <2>2. thread' = "ending"
    BY Zenon DEF Lost
  <2>3. UNCHANGED <<connection, wanted, attempts, inflight, panicked,
                   session_vars, local_nonce, keys, answers, acked, refused, shared,
                   responses, acks, handle, pending, mailbox, batch, renewals>>
    BY Zenon DEF Lost
  <2> QED BY <2>1, <2>2, <2>3 DEF Inv, TypeOK
<1>3. Control'
  BY ZenonT(30) DEF Inv, Control, Lost, DropStates
<1>4. Calling' /\ Attempts'
  <2>1. Calling'
    BY ZenonT(30) DEF Inv, Calling, Lost, Waits, Purpose
  <2>2. Attempts'
    BY ZenonT(30) DEF Inv, Attempts, Lost
  <2> QED BY <2>1, <2>2
<1>5. Messages' /\ Keys' /\ Acknowledgements'
  BY <1>1, MessagesDropped, KeysDropped, AcksDropped, Zenon DEF Inv, GoodMessages, GoodKeys, GoodAcks
<1> QED BY <1>2, <1>3, <1>4, <1>5, Zenon DEF Inv

\* WriterEnds drops the connection like Lost.
LEMMA WriterEndsStep ==
    ASSUME Good, ~panicked, WriterEnds
    PROVE  Good'
<1> SUFFICES ASSUME Inv PROVE Inv'
  BY Zenon DEF Good
<1>1. Lost
  BY ZenonT(30) DEF WriterEnds, Lost
<1> QED BY <1>1, LostStep, Zenon DEF Good

\* ConnectFails keeps the invariant.
LEMMA ConnectFailsStep ==
    ASSUME Good, ~panicked, ConnectFails
    PROVE  Good'
<1> SUFFICES ASSUME Inv PROVE Inv'
  BY Zenon DEF Good
<1> USE DEF transport_vars, queue_vars, session_vars, key_vars, server_vars
<1>1. /\ pc' \in [{"app", "run"} -> Labels] /\ pc'[Connector] = "failed"
      /\ \A other \in {"app", "run"} : other # Connector => pc'[other] = pc[other]
      /\ Connector \in {"app", "run"} /\ pc[Connector] = "connecting"
  BY ConnectorWaits, Moved, ZenonT(30) DEF Inv, ConnectFails, Labels
<1>2. TypeOK'
  <2>1. /\ outgoing' \in Seq(Request) /\ to_client' \in Seq([answer : Answer, key : Nonces \X Nonces])
        /\ held' \subseteq Handles /\ handled' \in SUBSET Numbers /\ in_step' \in BOOLEAN
        /\ sender' \in {"none", "open", "closed"} /\ server_keys' \in Nonces \X Nonces
    <3>1. CASE DropStates
      BY <3>1, DroppedTypes, ZenonT(30) DEF Inv
    <3>2. CASE UNCHANGED dropped_vars
      BY <3>2, Zenon DEF dropped_vars, Inv, TypeOK
    <3> QED BY <3>1, <3>2, Zenon DEF ConnectFails
  <2>2. thread' = "ending"
    BY Zenon DEF ConnectFails
  <2>3. UNCHANGED <<connection, wanted, attempts, inflight, panicked, retrying,
                   retry_count, session_id, subscribed, running, tasks,
                   local_nonce, keys, answers, acked, refused, shared, responses, acks,
                   handle, pending, mailbox, batch, renewals>>
    BY Zenon DEF ConnectFails
  <2> QED BY <1>1, <2>1, <2>2, <2>3 DEF Inv, TypeOK, Labels
<1>3. Control'
  BY <1>1, Zenon DEF Inv, Control, ConnectFails, DropStates, dropped_vars
<1>4. Calling' /\ Attempts'
  <2>1. Calling'
    BY <1>1, ZenonT(30) DEF Inv, Calling, ConnectFails, Waits, Purpose
  <2>2. Attempts'
    BY <1>1, ZenonT(30) DEF Inv, Attempts, ConnectFails
  <2> QED BY <2>1, <2>2
<1>5. Messages' /\ Keys' /\ Acknowledgements'
  <2>1. CASE connection = "WaitingForAck"
    <3>1. Drops
      BY <2>1, Zenon DEF ConnectFails, DropStates, Drops
    <3> QED BY <3>1, MessagesDropped, KeysDropped, AcksDropped, Zenon DEF Inv, GoodMessages, GoodKeys, GoodAcks
  <2>2. CASE connection # "WaitingForAck"
    <3>1. Rests
      BY <2>2, ZenonT(30) DEF ConnectFails, dropped_vars, Rests
    <3> QED BY <3>1, Resting, Zenon DEF GoodMessages, GoodKeys, GoodAcks
  <2> QED BY <2>1, <2>2, Zenon
<1> QED BY <1>2, <1>3, <1>4, <1>5, Zenon DEF Inv

\* SendHello clears the queue under the lock, so no wait loses its entry.
LEMMA SendHelloStep ==
    ASSUME Good, ~panicked, SendHello
    PROVE  Good'
<1> SUFFICES ASSUME Inv PROVE Inv'
  BY Zenon DEF Good
<1> USE DEF transport_vars, queue_vars, session_vars, key_vars, server_vars
<1>1. /\ Connector \in {"app", "run"} /\ pc[Connector] = "connecting"
      /\ pc' \in [{"app", "run"} -> Labels]
      /\ \/ pc' = pc /\ thread' = thread /\ connection' = "WaitingForAck"
            /\ sender' = IF shared THEN "open" ELSE sender
         \/ /\ pc'[Connector] = "failed" /\ thread' = "ending" /\ connection' = connection
            /\ \A other \in {"app", "run"} : other # Connector => pc'[other] = pc[other]
            /\ sender' = IF shared THEN "closed" ELSE sender
  <2>1. Connector \in {"app", "run"} /\ pc[Connector] = "connecting" /\ pc \in [{"app", "run"} -> Labels]
    BY ConnectorWaits, Zenon DEF Inv, SendHello, TypeOK, Labels
  <2>2. CASE Goto(Connector, "failed")
    <3>1. /\ pc'[Connector] = "failed" /\ pc' \in [{"app", "run"} -> Labels]
          /\ \A other \in {"app", "run"} : other # Connector => pc'[other] = pc[other]
      BY <2>1, <2>2, Moved, Zenon DEF Inv, Labels
    <3> QED BY <2>1, <3>1, Zenon DEF SendHello
  <2>3. CASE ~Goto(Connector, "failed")
    BY <2>1, <2>3, ZenonT(30) DEF SendHello
  <2> QED BY <2>2, <2>3, ZenonT(30)
<1>2. TypeOK'
  <2>1. /\ inflight' \in SUBSET [h : Handles, sync : BOOLEAN] /\ responses' \in SUBSET Answer
        /\ connection' \in States /\ thread' \in {"none", "connecting", "looping", "ending", "closing"}
        /\ sender' \in {"none", "open", "closed"}
    BY <1>1, Zenon DEF Inv, TypeOK, SendHello, States
  <2>2. UNCHANGED <<wanted, attempts, outgoing, panicked, retrying, retry_count,
                   session_id, subscribed, running, tasks, key_vars,
                   server_vars, shared, acks, handle, pending, mailbox, batch,
                   renewals, handled>>
    BY ZenonT(30) DEF SendHello
  <2> QED BY <1>1, <2>1, <2>2, SMTT(30) DEF Inv, TypeOK, Labels
<1>3. Control'
  BY <1>1, Zenon DEF Inv, Control, SendHello
<1>4. Calling' /\ Attempts'
  <2>1. Calling'
    BY <1>1, ZenonT(30) DEF Inv, Calling, SendHello, Waits, Purpose
  <2>2. Attempts'
    BY <1>1, ZenonT(30) DEF Inv, Attempts, SendHello
  <2> QED BY <2>1, <2>2
<1>5. Messages' /\ Keys' /\ Acknowledgements'
  <2>1. CASE shared
    <3>1. /\ Clears /\ responses' = {} /\ thread' # "looping" /\ in_step' = in_step
          /\ UNCHANGED <<outgoing, pending, acked, refused, answers, to_client, batch, handled>>
          /\ UNCHANGED <<outgoing, to_client, mailbox, local_nonce, keys, server_keys>>
          /\ UNCHANGED acks
      BY <1>1, <2>1, Zenon DEF SendHello, Clears, LockIsFree
    <3>2. Keys'
      BY <3>1, KeysKept, Zenon DEF Inv, GoodKeys
    <3>3. Acknowledgements'
      BY <3>1, AcksCleared, Zenon DEF Inv, GoodAcks
    <3> QED BY <3>1, <3>2, <3>3, MessagesCleared, ZenonT(30) DEF Inv, GoodMessages
  <2>2. CASE ~shared
    <3>1. Rests
      BY <1>1, <2>2, Zenon DEF SendHello, Rests
    <3> QED BY <3>1, Resting, Zenon DEF GoodMessages, GoodKeys, GoodAcks
  <2> QED BY <2>1, <2>2, Zenon
<1> QED BY <1>2, <1>3, <1>4, <1>5, Zenon DEF Inv

\* WriteRequest: the server hangs up, or takes the request.
LEMMA WriteRequestStep ==
    ASSUME Good, ~panicked, WriteRequest
    PROVE  Good'
<1> SUFFICES ASSUME Inv PROVE Inv'
  BY Zenon DEF Good
<1> USE DEF transport_vars, queue_vars, session_vars, key_vars, server_vars
<1> DEFINE r == Head(outgoing)
<1>1. CASE Symmetric(r) /\ keys # server_keys
  <2>1. Lost
    BY <1>1, Zenon DEF WriteRequest, Lost
  <2> QED BY <2>1, LostStep, Zenon DEF Good
<1>2. CASE ~(Symmetric(r) /\ keys # server_keys)
  <2>1. /\ Takes /\ thread = "looping"
        /\ UNCHANGED <<thread, sender, in_step, handled>>
        /\ UNCHANGED <<connection, wanted, attempts, inflight, panicked,
                   session_vars, local_nonce, keys, answers, shared, responses,
                   acks, handle, pending, mailbox, batch, renewals>>
    BY <1>2, Zenon DEF WriteRequest, Takes
  <2>2. outgoing \in Seq(Request) /\ outgoing # <<>>
    BY <2>1, Zenon DEF Inv, TypeOK, Takes
  <2>3. outgoing' \in Seq(Request) /\ Head(outgoing) = outgoing[1] /\ Head(outgoing) \in Request
    BY <2>1, <2>2, Taken, Zenon DEF Takes
  <2>4. to_client' \in Seq(Message) /\ held' \subseteq Handles /\ acked' \in SUBSET Numbers
        /\ refused' \in SUBSET Numbers /\ server_keys' \in Nonces \X Nonces
    <3>1. /\ outgoing[1].h \in Handles /\ outgoing[1].acks \in SUBSET Numbers
          /\ outgoing[1].nonce \in Nonces
      BY <2>3, Zenon DEF Request
    <3>2. /\ held \subseteq Handles /\ acked \in SUBSET Numbers /\ refused \in SUBSET Numbers
          /\ server_keys \in Nonces \X Nonces
      BY Zenon DEF Inv, TypeOK
    <3>3. to_client' \in Seq(Message)
      BY <2>1, WireAfterTaking, ZenonT(30) DEF Inv
    <3>4. \/ /\ held' = held \cup {outgoing[1].h} /\ acked' = acked \cup outgoing[1].acks
             /\ UNCHANGED refused
          \/ /\ UNCHANGED <<held, acked>>
             /\ refused' = refused \cup outgoing[1].acks \/ UNCHANGED refused
      BY <2>1, WireAfterTaking, ZenonT(30) DEF Inv
    <3>5. server_keys' = <<outgoing[1].nonce, outgoing[1].nonce>> \/ UNCHANGED server_keys
      BY <2>1, WireAfterTaking, ZenonT(30) DEF Inv
    <3> QED BY <3>1, <3>2, <3>3, <3>4, <3>5
  <2>5. TypeOK'
    BY <2>1, <2>3, <2>4, SMTT(30) DEF Inv, TypeOK, Message
  <2>6. Control'
    BY <2>1, <2>2, Zenon DEF Inv, Control
  <2>7. Calling' /\ Attempts'
    <3>1. Calling'
      BY <2>1, ZenonT(30) DEF Inv, Calling, Waits, Purpose
    <3>2. Attempts'
      BY <2>1, ZenonT(30) DEF Inv, Attempts
    <3> QED BY <3>1, <3>2
  <2>8. Messages'
    BY <2>1, MessagesTaken, Zenon DEF Inv, GoodMessages
  <2>9. Keys'
    <3>1. pending.kind = "open" => ~in_step
      <4>1. pending.kind = "open" => Waits /\ Purpose = "open"
        BY DEF Waits, NoWait, Purpose
      <4>2. pending.kind = "open" => pending.by = "app"
        BY <4>1, Zenon DEF Inv, Calling, TypeOK
      <4> QED BY <4>1, <4>2, Zenon DEF Inv, Calling, Control
    <3> QED BY <1>2, <2>1, <3>1, KeysTaken, Zenon DEF Inv, GoodKeys
  <2>10. Acknowledgements'
    BY <2>1, AcksTaken, Zenon DEF Inv, GoodAcks
  <2> QED BY <2>5, <2>6, <2>7, <2>8, <2>9, <2>10, ZenonT(30) DEF Inv
<1> QED BY <1>1, <1>2, ZenonT(30)

\* ReadResponse: the chunk does not verify, or the response is stored.
LEMMA ReadResponseStep ==
    ASSUME Good, ~panicked, ReadResponse
    PROVE  Good'
<1> SUFFICES ASSUME Inv PROVE Inv'
  BY Zenon DEF Good
<1> USE DEF transport_vars, queue_vars, session_vars, key_vars, server_vars
<1>1. CASE ~Verifies(Head(to_client))
  <2>1. Lost
    BY <1>1, ZenonT(30) DEF ReadResponse, Lost
  <2> QED BY <2>1, LostStep, Zenon DEF Good
<1>2. CASE Verifies(Head(to_client))
  <2> DEFINE a == Head(to_client).answer
  <2>1. /\ Reads /\ thread = "looping" /\ StoreResponse(a)
        /\ UNCHANGED <<thread, sender, outgoing, server_keys, in_step, held, handled>>
        /\ UNCHANGED <<connection, wanted, attempts, panicked, session_vars,
                   local_nonce, keys, answers, acked, refused, shared, acks, handle,
                   pending, batch, renewals>>
    BY <1>2, ZenonT(30) DEF ReadResponse, Reads
  <2>2. to_client \in Seq(Message) /\ to_client # <<>>
    BY <2>1, Zenon DEF Inv, TypeOK, Reads, Message
  <2>3. to_client' \in Seq(Message) /\ Head(to_client) \in Message
    BY <2>1, <2>2, Taken, Zenon DEF Reads
  <2>4. a \in Answer
    BY <2>3, Zenon DEF Message
  <2> HIDE DEF a
  <2>5. /\ inflight' \subseteq inflight /\ mailbox' \in {a, mailbox}
        /\ responses' \in {responses, responses \cup {a}}
        /\ inflight = {} => responses' = responses
    BY <2>1, ZenonT(30) DEF StoreResponse
  <2>6. TypeOK'
    <3>1. inflight' \in SUBSET [h : Handles, sync : BOOLEAN] /\ mailbox' \in Answer
          /\ responses' \in SUBSET Answer
      BY <2>4, <2>5, ZenonT(30) DEF Inv, TypeOK
    <3>2. to_client' \in Seq([answer : Answer, key : Nonces \X Nonces])
      BY <2>3, ZenonT(30) DEF Message
    <3> QED BY <2>1, <3>1, <3>2 DEF Inv, TypeOK
  <2>7. Control'
    BY <2>1, Zenon DEF Inv, Control
  <2>8. Calling' /\ Attempts'
    <3>1. Calling'
      BY <2>1, <2>5, ZenonT(30) DEF Inv, Calling, Waits, Purpose
    <3>2. Attempts'
      BY <2>1, <2>5, ZenonT(30) DEF Inv, Attempts
    <3> QED BY <3>1, <3>2
  <2>9. Messages'
    BY <2>1, MessagesRead, Zenon DEF Inv, GoodMessages
  <2>10. Keys'
    BY <2>1, KeysRead, Zenon DEF Inv, GoodKeys
  <2>11. Acknowledgements'
    BY <2>1, AcksRead, ZenonT(30) DEF Inv, GoodAcks
  <2> QED BY <2>6, <2>7, <2>8, <2>9, <2>10, <2>11, Zenon DEF Inv
<1> QED BY <1>1, <1>2, ZenonT(30)

\* AnswerPublish keeps the invariant.
LEMMA AnswerPublishStep ==
    ASSUME Good, ~panicked, AnswerPublish
    PROVE  Good'
<1> SUFFICES ASSUME Inv PROVE Inv'
  BY Zenon DEF Good
<1> USE DEF transport_vars, queue_vars, session_vars, key_vars, server_vars
<1>1. /\ thread = "looping"
      /\ UNCHANGED <<transport_vars, queue_vars, session_vars, key_vars, acked, refused,
                   shared, responses, acks, handle, pending, mailbox, batch,
                   renewals, handled>>
  BY Zenon DEF AnswerPublish
<1>2. Answers
  BY Zenon DEF AnswerPublish, Answers
<1>3. TypeOK'
  <2>1. to_client' \in Seq([answer : Answer, key : Nonces \X Nonces])
    BY <1>2, WireAfterAnswer, ZenonT(30) DEF Inv, Message
  <2>2. held' \subseteq Handles
    BY <1>2, ZenonT(30) DEF Answers, Inv, TypeOK
  <2>3. answers' \in 0 .. MaxAnswers
    BY <1>2, ClientAssumption DEF Answers, Inv, TypeOK
  <2> QED BY <1>1, <2>1, <2>2, <2>3 DEF Inv, TypeOK
<1>4. Control'
  BY <1>1, Zenon DEF Inv, Control
<1>5. Calling' /\ Attempts'
  <2>1. Calling'
    BY <1>1, ZenonT(30) DEF Inv, Calling, Waits, Purpose
  <2>2. Attempts'
    BY <1>1, ZenonT(30) DEF Inv, Attempts
  <2> QED BY <2>1, <2>2
<1>6. Messages'
  BY <1>2, MessagesAnswered, Zenon DEF Inv, GoodMessages
<1>7. Keys'
  BY <1>1, <1>2, KeysAnswered, Zenon DEF Inv, GoodKeys
<1>8. Acknowledgements'
  BY <1>1, <1>2, AcksAnswered, ZenonT(30) DEF Inv, GoodAcks
<1> QED BY <1>3, <1>4, <1>5, <1>6, <1>7, <1>8, Zenon DEF Inv

-----------------------------------------------------------------------------
(* The ends of a wait                                                      *)

\* TimesOut keeps the invariant.
LEMMA TimesOutStep ==
    ASSUME Good, ~panicked, TimesOut
    PROVE  Good'
<1> SUFFICES ASSUME Inv PROVE Inv'
  BY Zenon DEF Good
<1> USE DEF transport_vars, queue_vars, session_vars, key_vars, server_vars
<1>1. /\ pending # NoWait /\ pending' = [pending EXCEPT !.expired = TRUE]
      /\ UNCHANGED <<transport_vars, queue_vars, session_vars, key_vars,
                   server_vars, shared, responses, acks, handle, mailbox,
                   batch, renewals, handled>>
  BY Zenon DEF TimesOut
<1>2. pending \in Wait
  BY Zenon DEF Inv, TypeOK, Wait
<1>3. /\ pending' \in Wait /\ pending'.by = pending.by /\ pending'.kind = pending.kind
      /\ pending'.h = pending.h /\ pending'.then = pending.then /\ pending'.expired = TRUE
  BY <1>1, <1>2, Zenon DEF Wait
<1>4. pending' # NoWait
  BY <1>3 DEF NoWait
<1>5. TypeOK'
  BY <1>1, <1>3 DEF Inv, TypeOK, Wait
<1>6. Control'
  BY <1>1, ZenonT(30) DEF Inv, Control
<1>7. Calling' /\ Attempts'
  <2>1. Calling'
    BY <1>1, <1>3, <1>4, ZenonT(30) DEF Inv, Calling, Waits, Purpose
  <2>2. Attempts'
    BY <1>1, <1>3, <1>4, ZenonT(30) DEF Inv, Attempts
  <2> QED BY <2>1, <2>2
<1>8. Messages'
  BY <1>1, MessagesExpired, Zenon DEF Inv, GoodMessages
<1>9. Keys'
  BY <1>1, <1>3, KeysKept, ZenonT(30) DEF Inv, GoodKeys
<1>10. Acknowledgements'
  BY <1>1, <1>3, AcksKept, ZenonT(30) DEF Inv, GoodAcks
<1> QED BY <1>5, <1>6, <1>7, <1>8, <1>9, <1>10, Zenon DEF Inv

\* The request to open the channel is the application's, which stands there.
LEMMA OpensForApp ==
    ASSUME Good, ~panicked, pending.kind = "open"
    PROVE  /\ Waits /\ pending.by = "app" /\ pc["app"] = "opening" /\ pc["run"] = "idle"
           /\ batch = {} /\ shared
<1> Inv
  BY Zenon DEF Good
<1>1. Waits /\ Purpose = "open"
  BY DEF Waits, NoWait, Purpose
<1>2. pending.by = "app"
  BY <1>1, Zenon DEF Inv, Calling, TypeOK
<1> QED BY <1>1, <1>2, Zenon DEF Inv, Calling, Waits

\* A wait that returned well has its answer, and the connection was there.
LEMMA ReturnedWell ==
    ASSUME Good, NEW ok \in BOOLEAN, Returned(ok)
    PROVE  /\ Waits /\ (pending.expired \/ mailbox # NoAnswer)
           /\ ok => ~pending.expired /\ mailbox.ok /\ mailbox # NoAnswer
                    /\ thread \notin {"none", "connecting"}
<1> Inv
  BY Zenon DEF Good
<1>1. Waits /\ (pending.expired \/ mailbox # NoAnswer)
  BY Zenon DEF Returned, Waits
<1>2. ok => ~pending.expired /\ mailbox.ok /\ mailbox # NoAnswer
  BY Zenon DEF Returned
<1> QED BY <1>1, <1>2, Zenon DEF Inv, Control

\* The keys derived from the answer to the request that asked for them.
LEMMA DerivedTypes ==
    ASSUME Good, NEW ok \in BOOLEAN, Returned(ok), Renewing
    PROVE  (IF ok THEN DerivedKeys ELSE keys) \in Nonces \X Nonces
<1> Inv
  BY Zenon DEF Good
<1>1. ok => mailbox.data = local_nonce
  BY ReturnedWell, Zenon DEF Inv, Keys, NonceReceived
<1> QED BY <1>1, Zenon DEF DerivedKeys, Inv, TypeOK

\* OpenReturns keeps the invariant.
LEMMA OpenReturnsStep ==
    ASSUME Good, ~panicked, NEW ok \in BOOLEAN, OpenReturns(ok)
    PROVE  Good'
<1> SUFFICES ASSUME Inv PROVE Inv'
  BY Zenon DEF Good
<1> USE DEF transport_vars, queue_vars, session_vars, key_vars, server_vars
<1>1. /\ pending' = NoWait /\ mailbox' = NoAnswer /\ inflight' = EntriesLeft
      /\ in_step' = ok /\ keys' = IF ok THEN DerivedKeys ELSE keys
      /\ retry_count' = IF ok THEN 0 ELSE retry_count
      /\ retrying' = (retrying /\ ~ok)
      /\ UNCHANGED <<transport_vars, sender, outgoing, panicked, session_id,
                   subscribed, running, tasks, local_nonce, server_keys,
                   server_vars, shared, responses, acks, handle, batch,
                   renewals, handled>>
      /\ pending.kind = "open" /\ Returned(ok)
  BY Zenon DEF OpenReturns
<1>2. /\ Waits /\ (pending.expired \/ mailbox # NoAnswer)
      /\ ok => thread \notin {"none", "connecting"}
  BY <1>1, ReturnedWell, Zenon
<1>3. /\ Waits /\ pending.by = "app" /\ pc["app"] = "opening" /\ pc["run"] = "idle"
      /\ batch = {} /\ shared
  BY <1>1, OpensForApp, ZenonT(30)
<1>4. /\ pc'["app"] \in {"idle", "failed"} /\ pc' \in [{"app", "run"} -> Labels]
      /\ pc'["run"] = "idle"
  BY <1>3, Moved, ZenonT(30) DEF Inv, OpenReturns, Labels
<1>5. TypeOK'
  <2>1. inflight' \in SUBSET [h : Handles, sync : BOOLEAN] /\ mailbox' \in Answer
    BY <1>1, <1>2, EntriesLeftAreOthers, ClientAssumption, SMTT(30) DEF Inv, TypeOK, NoAnswer, Answer, Handles, Nonces
  <2>2. pending' \in Wait
    BY <1>1, NoRequestIsRequest, Zenon DEF Wait, NoWait, Kinds, Handles
  <2>3. keys' \in Nonces \X Nonces
    BY <1>1, DerivedTypes, Zenon DEF Renewing
  <2>4. in_step' \in BOOLEAN /\ retrying' \in BOOLEAN
    BY <1>1, ZenonT(30)
  <2>5. retry_count' \in 0 .. MaxConnections
    BY <1>1, ClientAssumption DEF Inv, TypeOK
  <2>6. StateTypes'
    BY <1>1, <1>4, <2>1, <2>2, <2>3, <2>4, <2>5, TypesInParts, ZenonT(30) DEF StateTypes, Labels
  <2>7. QueueTypes'
    BY <1>1, <1>4, <2>1, <2>2, <2>3, <2>4, <2>5, TypesInParts, ZenonT(30) DEF QueueTypes, Wait
  <2>8. NumberTypes'
    BY <1>1, <1>4, <2>1, <2>2, <2>3, <2>4, <2>5, TypesInParts, ZenonT(30) DEF NumberTypes
  <2> QED BY <2>6, <2>7, <2>8, TypesInParts, ZenonT(30)
<1>6. Control'
  BY <1>1, <1>2, <1>3, <1>4, ZenonT(30) DEF Inv, Control
<1>7. Calling'
  BY <1>1, <1>3, <1>4, ZenonT(30) DEF Inv, Calling, Waits, Purpose, NoWait
<1>8. Attempts'
  BY <1>1, <1>3, <1>4 DEF Inv, Attempts, TypeOK
<1>9. Messages'
  BY <1>1, <1>2, MessagesEnded, Zenon DEF Inv, Ends, GoodMessages
<1>10. Keys'
  BY KeysOpened, Zenon DEF Inv, GoodKeys
<1>11. Acknowledgements'
  <2>1. pending'.then.acks = pending.then.acks
    BY <1>1, ZenonT(30) DEF Inv, Calling, NoWait
  <2> QED BY <1>1, <2>1, AcksKept, Zenon DEF Inv, GoodAcks
<1> QED BY <1>5, <1>6, <1>7, <1>8, <1>9, <1>10, <1>11, ZenonT(30) DEF Inv

\* CallReturns keeps the invariant.
LEMMA CallReturnsStep ==
    ASSUME Good, ~panicked, NEW ok \in BOOLEAN, CallReturns(ok)
    PROVE  Good'
<1> SUFFICES ASSUME Inv PROVE Inv'
  BY Zenon DEF Good
<1> USE DEF transport_vars, queue_vars, session_vars, key_vars, server_vars
<1>1. /\ pending.kind \in {"create", "subscribe", "read", "closesession"} /\ Returned(ok)
      /\ pending' = NoWait /\ mailbox' = NoAnswer /\ inflight' = EntriesLeft
      /\ session_id' = (session_id \/ (ok /\ pending.kind = "create"))
      /\ UNCHANGED <<transport_vars, sender, outgoing, panicked, retrying,
                   retry_count, running, tasks, key_vars, server_vars, shared,
                   responses, acks, handle, batch, renewals, handled>>
  BY Zenon DEF CallReturns
<1>2. Waits /\ (pending.expired \/ mailbox # NoAnswer)
  BY <1>1, ReturnedWell, ZenonT(30)
<1>3. /\ pending.by = "app" /\ pc["run"] = "idle" /\ batch = {} /\ shared
      /\ pending.kind # "closesession" => pc["app"] = "idle"
  <2>1. Purpose = pending.kind
    BY <1>1, Zenon DEF Purpose
  <2>2. pending.by = "app"
    BY <1>1, <1>2, <2>1, Zenon DEF Inv, Calling, TypeOK
  <2> QED BY <1>1, <1>2, <2>1, <2>2, ZenonT(30) DEF Inv, Calling, Waits
<1>4. /\ pc' \in [{"app", "run"} -> Labels] /\ pc'["run"] = "idle"
      /\ pc'["app"] = pc["app"] \/ (pc["app"] = "idle" /\ pc'["app"] \in {"spawning", "publishing"})
  <2>1. pc \in [{"app", "run"} -> Labels]
    BY Zenon DEF Inv, TypeOK, Labels
  <2>2. \/ pc' = pc
        \/ pending.kind # "closesession" /\ pc' = [pc EXCEPT !["app"] = "spawning"]
        \/ pending.kind # "closesession" /\ pc' = [pc EXCEPT !["app"] = "publishing"]
    BY ZenonT(30) DEF CallReturns
  <2> QED BY <1>3, <2>1, <2>2, ZenonT(30) DEF Labels
<1>5. TypeOK'
  <2>1. inflight' \in SUBSET [h : Handles, sync : BOOLEAN] /\ mailbox' \in Answer
    BY <1>1, <1>2, EntriesLeftAreOthers, ClientAssumption, SMTT(30) DEF Inv, TypeOK, NoAnswer, Answer, Handles, Nonces
  <2>2. pending' \in Wait
    BY <1>1, NoRequestIsRequest, Zenon DEF Wait, NoWait, Kinds, Handles
  <2>3. session_id' \in BOOLEAN
    BY <1>1, Zenon
  <2>4. subscribed' \in BOOLEAN
    BY Zenon DEF CallReturns, Inv, TypeOK
  <2>5. StateTypes'
    BY <1>1, <1>4, <2>1, <2>2, <2>3, <2>4, TypesInParts, ZenonT(30) DEF StateTypes, Labels
  <2>6. QueueTypes'
    BY <1>1, <1>4, <2>1, <2>2, <2>3, <2>4, TypesInParts, ZenonT(30) DEF QueueTypes, Wait
  <2>7. NumberTypes'
    BY <1>1, <1>4, <2>1, <2>2, <2>3, <2>4, TypesInParts, ZenonT(30) DEF NumberTypes
  <2> QED BY <2>5, <2>6, <2>7, TypesInParts, Zenon
<1>6. Control'
  BY <1>1, <1>2, <1>3, <1>4, ZenonT(30) DEF Inv, Control
<1>7. Calling'
  BY <1>1, <1>3, <1>4, ZenonT(30) DEF Inv, Calling, Waits, Purpose, NoWait
<1>8. Attempts'
  BY <1>1, <1>3, <1>4, ZenonT(30) DEF Inv, Attempts, TypeOK
<1>9. Messages'
  BY <1>1, <1>2, MessagesEnded, Zenon DEF Inv, Ends, GoodMessages
<1>10. Keys'
  <2>1. ~Renewing /\ ~Renewing'
    BY <1>1, Zenon DEF Renewing, NoWait
  <2> QED BY <1>1, <2>1, KeysUndisturbed, Zenon DEF Inv, GoodKeys
<1>11. Acknowledgements'
  <2>1. pending'.then.acks = pending.then.acks
    BY <1>1, Zenon DEF Inv, Calling, NoWait
  <2> QED BY <1>1, <2>1, AcksKept, ZenonT(30) DEF Inv, GoodAcks
<1> QED BY <1>5, <1>6, <1>7, <1>8, <1>9, <1>10, <1>11, Zenon DEF Inv

\* RenewReturns sends the delayed request with the handle kept for it.
LEMMA RenewReturnsStep ==
    ASSUME Good, ~panicked, NEW ok \in BOOLEAN, RenewReturns(ok)
    PROVE  Good'
<1> SUFFICES ASSUME Inv PROVE Inv'
  BY Zenon DEF Good
<1> USE DEF transport_vars, queue_vars, session_vars, key_vars, server_vars
<1>1. PICK next : next = pending.then
  BY Zenon
<1>2. /\ pending.kind = "renew" /\ Returned(ok) /\ mailbox' = NoAnswer
      /\ keys' = IF ok THEN DerivedKeys ELSE keys
      /\ in_step' = (in_step /\ ~pending.expired)
      /\ pending' = AfterSending(pending.by, next)
      /\ UNCHANGED <<transport_vars, session_vars, local_nonce, server_keys,
                   server_vars, shared, responses, acks, handle, batch,
                   renewals, handled>>
  BY <1>1, Zenon DEF RenewReturns
<1>3. /\ inflight' = EntriesLeft \cup {[h |-> next.h, sync |-> next.kind \in SyncKinds]}
      /\ outgoing' = IF sender = "open" THEN Append(outgoing, next) ELSE outgoing
      /\ panicked' = (sender = "none") /\ sender' = sender
  BY <1>1, Zenon DEF RenewReturns, AddRequest
<1>4. Waits /\ (pending.expired \/ mailbox # NoAnswer)
  BY <1>2, ReturnedWell, Zenon
<1>5. /\ next \in Request /\ next.kind \in SentKinds /\ next.nonce = 0
      /\ next.kind # "publish" => next.acks = {}
      /\ next.h \in 1 .. handle /\ Unused(next.h)
      /\ pending.by \in {"app", "poll", "task"} /\ shared /\ pc["run"] = "idle"
  <2>1. pending \in Wait
    BY Zenon DEF Inv, TypeOK, Wait
  <2>2. next \in Request /\ pending.by \in {"none", "app", "poll", "task"}
    BY <1>1, <2>1, Zenon DEF Wait
  <2>3. /\ next.kind \in SentKinds /\ next.nonce = 0 /\ (next.kind # "publish" => next.acks = {})
        /\ pending.by # "none" /\ shared /\ pc["run"] = "idle"
    BY <1>1, <1>2, <1>4, Zenon DEF Inv, Calling, Waits, SentKinds
  <2>4. next.h \in 1 .. handle /\ Unused(next.h)
    BY <1>1, <1>2, Zenon DEF Inv, Messages, WaitIsOwn
  <2> QED BY <2>2, <2>3, <2>4, ZenonT(30)
<1>6. EntriesLeft \subseteq inflight /\ \A i \in EntriesLeft : ~i.sync
  BY <1>4, EntriesLeftAreOthers, Zenon DEF Inv
<1>7. \/ pending' = NoWait /\ next.kind \notin SyncKinds
      \/ /\ next.kind \in SyncKinds /\ pending' \in Wait /\ pending' # NoWait /\ pending'.by = pending.by
         /\ pending'.kind = next.kind /\ pending'.h = next.h /\ pending'.then = NoRequest
  <2>1. CASE next.kind \notin SyncKinds
    BY <1>2, <2>1, ZenonT(30) DEF AfterSending
  <2>2. CASE next.kind \in SyncKinds
    <3>1. pending' = [by |-> pending.by, kind |-> next.kind, h |-> next.h, expired |-> FALSE,
                      then |-> NoRequest]
      BY <1>2, <2>2, Zenon DEF AfterSending, WaitFor
    <3>2. next.kind \in Kinds /\ next.h \in Handles
      BY <1>5, Zenon DEF Request
    <3> QED BY <1>5, <2>2, <3>1, <3>2, NoRequestIsRequest, WaitMade, SMTT(30)
  <2> QED BY <2>1, <2>2, Zenon
<1>8. Sends(next, EntriesLeft)
  <2>1. handle \in Nat /\ handle' = handle
    BY <1>2, Zenon DEF Inv, TypeOK, Handles
  <2>2. next.kind \notin {"quit", "open", "renew"}
    BY <1>5, Zenon DEF SentKinds
  <2>3. handle' \in Nat /\ handle <= handle' /\ next.h \in 1 .. handle'
    BY <1>5, <2>1
  <2>4. UNCHANGED <<to_client, held>>
    BY <1>2, Zenon
  <2> QED BY <1>2, <1>3, <1>5, <1>6, <1>7, <2>2, <2>3, <2>4, ZenonT(30) DEF Sends
<1>9. /\ pending'.then = NoRequest /\ pending' \in Wait
      /\ pending'.by = "none" \/ (pending'.by = pending.by /\ Purpose' = Purpose)
      /\ pending'.kind # "renew"
  <2>1. CASE pending' = NoWait
    BY <2>1, NoRequestIsRequest, Zenon DEF NoWait, Wait, Kinds, Handles
  <2>2. CASE pending' # NoWait
    <3>1. pending'.kind = next.kind /\ pending'.by = pending.by /\ pending'.then = NoRequest
          /\ pending' \in Wait
      BY <1>7, <2>2, ZenonT(30)
    <3> QED BY <1>1, <1>2, <1>5, <3>1, ZenonT(30) DEF Purpose, SentKinds
  <2> QED BY <2>1, <2>2, Zenon
<1>10. TypeOK'
  <2>1. outgoing \in Seq(Request) /\ inflight \in SUBSET [h : Handles, sync : BOOLEAN]
    BY Zenon DEF Inv, TypeOK
  <2>2. outgoing' \in Seq(Request) /\ inflight' \in SUBSET [h : Handles, sync : BOOLEAN]
    BY <1>3, <1>5, <1>6, <2>1, QueueIsTyped, ZenonT(30)
  <2>3. mailbox' \in Answer
    BY <1>2, ClientAssumption DEF NoAnswer, Answer, Handles, Nonces
  <2>4. keys' \in Nonces \X Nonces
    BY <1>2, DerivedTypes, Zenon DEF Renewing
  <2>5. in_step' \in BOOLEAN /\ panicked' \in BOOLEAN
    BY <1>2, <1>3, Zenon
  <2>6. StateTypes'
    BY <1>2, <1>3, <1>9, <2>2, <2>3, <2>4, <2>5, TypesInParts, ZenonT(30) DEF StateTypes, Labels
  <2>7. QueueTypes'
    BY <1>2, <1>3, <1>9, <2>2, <2>3, <2>4, <2>5, TypesInParts, ZenonT(30) DEF QueueTypes, Wait
  <2>8. NumberTypes'
    BY <1>2, <1>3, <1>9, <2>2, <2>3, <2>4, <2>5, TypesInParts, ZenonT(30) DEF NumberTypes
  <2> QED BY <2>6, <2>7, <2>8, TypesInParts, Zenon
<1>11. Control'
  BY <1>2, <1>3, Zenon DEF Inv, Control
<1>12. Calling' /\ Attempts'
  <2>1. Calling'
    BY <1>2, <1>3, <1>4, <1>5, <1>7, <1>9, ZenonT(30) DEF Inv, Calling, Waits, NoWait
  <2> QED BY <1>2, <2>1, Zenon DEF Inv, Attempts
<1>13. Messages'
  BY <1>8, MessagesSent, Zenon DEF Inv, GoodMessages
<1>14. Keys'
  BY <1>1, <1>8, KeysRenewed, Zenon DEF Inv, GoodKeys
<1>15. Acknowledgements'
  <2>1. pending'.then.acks = {}
    BY <1>9, NoRequestIsRequest, ZenonT(30)
  <2>2. sender = "open" \/ thread # "looping"
    BY <1>5, Zenon DEF Inv, Control
  <2> QED BY <1>1, <1>2, <1>3, <1>5, <2>1, <2>2, AcksRenewed, ZenonT(30) DEF Inv, GoodAcks
<1> QED BY <1>10, <1>11, <1>12, <1>13, <1>14, <1>15, ZenonT(30) DEF Inv

-----------------------------------------------------------------------------
(* Steps of the callers that send nothing                                  *)

\* Connect keeps the invariant.
LEMMA ConnectStep ==
    ASSUME Good, ~panicked, Connect
    PROVE  Good'
<1> SUFFICES ASSUME Inv PROVE Inv'
  BY Zenon DEF Good
<1> USE DEF transport_vars, queue_vars, session_vars, key_vars, server_vars
<1>1. /\ pc["app"] = "idle" /\ pc["run"] = "idle" /\ batch = {} /\ pending.by \notin {"app", "poll"}
      /\ ~IsConnected /\ ~wanted /\ attempts < MaxConnections
      /\ retrying' = TRUE /\ wanted' = TRUE /\ attempts' = attempts + 1
      /\ UNCHANGED <<connection, thread, queue_vars, retry_count, session_id,
                   subscribed, running, tasks, key_vars, server_vars, shared,
                   responses, acks, handle, pending, mailbox, batch, renewals,
                   handled>>
  BY ZenonT(30) DEF Connect, AppMayCall
<1>2. pc'["app"] = "connecting" /\ pc' \in [{"app", "run"} -> Labels] /\ pc'["run"] = "idle"
  BY <1>1, Moved, ZenonT(30) DEF Inv, Connect, Labels
<1>3. TypeOK'
  <2>1. attempts' \in 0 .. MaxConnections
    BY <1>1, ClientAssumption DEF Inv, TypeOK
  <2>2. StateTypes'
    BY <1>1, <1>2, TypesInParts, ZenonT(30) DEF StateTypes, Labels
  <2>3. QueueTypes'
    BY <1>1, TypesInParts, Zenon DEF QueueTypes
  <2>4. NumberTypes'
    BY <1>1, <2>1, TypesInParts, Zenon DEF NumberTypes
  <2> QED BY <2>2, <2>3, <2>4, TypesInParts, ZenonT(30)
<1>4. Control'
  BY <1>1, <1>2, Zenon DEF Inv, Control, TypeOK, IsConnected
<1>5. Calling'
  BY <1>1, <1>2, ZenonT(30) DEF Inv, Calling, Waits, Purpose
<1>6. Attempts'
  BY <1>1, <1>2 DEF Inv, Attempts, TypeOK
<1>7. Messages' /\ Keys' /\ Acknowledgements'
  BY <1>1, Resting, ZenonT(30) DEF Rests, GoodMessages, GoodKeys, GoodAcks
<1> QED BY <1>3, <1>4, <1>5, <1>6, <1>7, ZenonT(30) DEF Inv

\* RetryOrGiveUp keeps the invariant.
LEMMA RetryOrGiveUpStep ==
    ASSUME Good, ~panicked, RetryOrGiveUp
    PROVE  Good'
<1> SUFFICES ASSUME Inv PROVE Inv'
  BY Zenon DEF Good
<1> USE DEF transport_vars, queue_vars, session_vars, key_vars, server_vars
<1>1. /\ pc["app"] = "retry" /\ retry_count' = retry_count + 1
      /\ UNCHANGED <<connection, thread, queue_vars, session_id, subscribed,
                   running, tasks, key_vars, server_vars, shared, responses,
                   acks, handle, pending, mailbox, batch, renewals, handled>>
  BY Zenon DEF RetryOrGiveUp
<1>2. /\ pc["run"] = "idle" /\ thread \notin {"looping", "connecting"} /\ ~wanted /\ batch = {}
      /\ retrying /\ pending.by # "poll"
      /\ pending.by = "app" => Purpose \notin {"create", "subscribe", "read", "publish", "closesession", "open"}
  BY <1>1, Zenon DEF Inv, Control, Calling, Attempts
<1>3. /\ pc' \in [{"app", "run"} -> Labels] /\ pc'["run"] = "idle"
      /\ \/ pc'["app"] = "idle" /\ ~retrying' /\ ~wanted' /\ attempts' = attempts
         \/ /\ pc'["app"] = "connecting" /\ wanted' /\ attempts' = attempts + 1
            /\ attempts < MaxConnections /\ retrying'
  <2>1. CASE Goto("app", "idle") /\ retrying' = FALSE /\ UNCHANGED <<wanted, attempts>>
    BY <1>2, <2>1, Moved, ZenonT(30) DEF Inv, Labels
  <2>2. CASE /\ Goto("app", "connecting") /\ wanted' = TRUE /\ attempts' = attempts + 1
             /\ attempts < MaxConnections /\ retrying' = retrying
    BY <1>2, <2>2, Moved, ZenonT(30) DEF Inv, Labels
  <2> QED BY <2>1, <2>2, Zenon DEF RetryOrGiveUp
<1>4. /\ attempts \in 0 .. MaxConnections /\ retry_count \in 0 .. MaxConnections
      /\ retry_count + 1 <= attempts /\ MaxConnections \in Nat
  BY <1>2, ClientAssumption, SMTT(30) DEF Inv, TypeOK, Attempts
<1>5. TypeOK'
  <2>1. attempts' \in 0 .. MaxConnections /\ retry_count' \in 0 .. MaxConnections
    BY <1>1, <1>3, <1>4
  <2>2. retrying' \in BOOLEAN /\ wanted' \in BOOLEAN
    BY Zenon DEF RetryOrGiveUp, Inv, TypeOK
  <2>3. StateTypes'
    BY <1>1, <1>3, <2>1, <2>2, TypesInParts, ZenonT(30) DEF StateTypes, Labels
  <2>4. QueueTypes'
    BY <1>1, <1>3, <2>1, <2>2, TypesInParts, ZenonT(30) DEF QueueTypes, Wait
  <2>5. NumberTypes'
    BY <1>1, <1>3, <2>1, <2>2, TypesInParts, ZenonT(30) DEF NumberTypes
  <2> QED BY <2>3, <2>4, <2>5, TypesInParts, Zenon
<1>6. Control'
  <2>1. CASE pc'["app"] = "idle" /\ ~wanted'
    BY <1>1, <1>2, <1>3, <2>1, ZenonT(30) DEF Inv, Control
  <2>2. CASE pc'["app"] = "connecting" /\ wanted'
    BY <1>1, <1>2, <1>3, <2>2, ZenonT(30) DEF Inv, Control, TypeOK
  <2> QED BY <1>3, <2>1, <2>2, Zenon
<1>7. Calling'
  BY <1>1, <1>2, <1>3, Zenon DEF Inv, Calling, Waits, Purpose
<1>8. Attempts'
  <2>1. CASE pc'["app"] = "idle" /\ ~retrying' /\ attempts' = attempts
    BY <1>1, <1>3, <1>4, <2>1 DEF Attempts
  <2>2. CASE pc'["app"] = "connecting" /\ retrying' /\ attempts' = attempts + 1
    BY <1>1, <1>3, <1>4, <2>2 DEF Attempts
  <2> QED BY <1>3, <2>1, <2>2, ZenonT(30)
<1>9. Messages' /\ Keys' /\ Acknowledgements'
  BY <1>1, Resting, Zenon DEF Rests, GoodMessages, GoodKeys, GoodAcks
<1> QED BY <1>5, <1>6, <1>7, <1>8, <1>9, Zenon DEF Inv

\* Reconnect: the session gets a queue of its own and the transport keeps the old.
LEMMA ReconnectStep ==
    ASSUME Good, ~panicked, Reconnect
    PROVE  Good'
<1> SUFFICES ASSUME Inv PROVE Inv'
  BY Zenon DEF Good
<1> USE DEF transport_vars, queue_vars, session_vars, key_vars, server_vars
<1>1. /\ pc["app"] = "idle" /\ pc["run"] = "idle" /\ batch = {} /\ pending = NoWait
      /\ ~IsConnected /\ ~wanted /\ attempts < MaxConnections
      /\ wanted' = TRUE /\ attempts' = attempts + 1
      /\ shared' = FALSE /\ sender' = "none" /\ inflight' = {} /\ responses' = {} /\ acks' = {}
      /\ session_id' = FALSE
      /\ UNCHANGED <<connection, thread, outgoing, panicked, retrying,
                   retry_count, subscribed, running, tasks, key_vars,
                   server_vars, handle, pending, mailbox, batch, renewals,
                   handled>>
  BY ZenonT(30) DEF Reconnect, PollMayRun, AppIsIdle, RunIsIdle, Reset
<1>2. pc'["run"] = "connecting" /\ pc' \in [{"app", "run"} -> Labels] /\ pc'["app"] = "idle"
  BY <1>1, Moved, ZenonT(30) DEF Inv, Reconnect, Labels
<1>3. thread \notin {"looping", "connecting"} /\ sender # "open" /\ outgoing = <<>>
  BY <1>1, ZenonT(30) DEF Inv, Control, IsConnected
<1>4. TypeOK'
  <2>1. attempts' \in 0 .. MaxConnections
    BY <1>1, ClientAssumption DEF Inv, TypeOK
  <2>2. wanted' \in BOOLEAN /\ shared' \in BOOLEAN /\ session_id' \in BOOLEAN
    BY <1>1, Zenon
  <2>3. /\ inflight' \in SUBSET [h : Handles, sync : BOOLEAN] /\ responses' \in SUBSET Answer
        /\ acks' \in SUBSET Numbers /\ sender' \in {"none", "open", "closed"}
    BY <1>1, ZenonT(30)
  <2>4. StateTypes'
    BY <1>1, <1>2, <2>1, <2>2, <2>3, TypesInParts, ZenonT(30) DEF StateTypes, Labels
  <2>5. QueueTypes'
    BY <1>1, <1>2, <2>1, <2>2, <2>3, TypesInParts, ZenonT(30) DEF QueueTypes, Wait
  <2>6. NumberTypes'
    BY <1>1, <1>2, <2>1, <2>2, <2>3, TypesInParts, ZenonT(30) DEF NumberTypes
  <2> QED BY <2>4, <2>5, <2>6, TypesInParts, Zenon
<1>5. Control'
  BY <1>1, <1>2, <1>3, Zenon DEF Inv, Control, TypeOK
<1>6. Calling'
  BY <1>1, <1>2, ZenonT(30) DEF Inv, Calling, Waits, Purpose, NoWait
<1>7. Attempts'
  BY <1>1, <1>2 DEF Inv, Attempts, TypeOK
<1>8. Messages'
  BY <1>1, MessagesCleared, Zenon DEF Inv, Clears, GoodMessages
<1>9. Keys'
  BY <1>1, <1>3, KeysKept, Zenon DEF Inv, GoodKeys
<1>10. Acknowledgements'
  BY <1>1, <1>3, AcksCleared, Zenon DEF Inv, GoodAcks
<1> QED BY <1>4, <1>5, <1>6, <1>7, <1>8, <1>9, <1>10, ZenonT(30) DEF Inv

\* A step of the application's or the run loop's program that leaves the queue
\* and the transport alone.
Walks ==
    UNCHANGED <<transport_vars, queue_vars, subscribed, session_id, key_vars, server_vars, shared,
                responses, acks, handle, pending, mailbox, batch, renewals, handled>>

\* Such a step keeps the invariant when it keeps the parts about the callers.
LEMMA Walking ==
    ASSUME Good, Walks,
           pc' \in [{"app", "run"} -> Labels], retrying' \in BOOLEAN, running' \in BOOLEAN,
           tasks' \in BOOLEAN, retry_count' \in 0 .. MaxConnections,
           Control', Calling', Attempts'
    PROVE  Good'
<1> SUFFICES ASSUME Inv PROVE Inv'
  BY ZenonT(30) DEF Good
<1> USE DEF transport_vars, queue_vars, session_vars, key_vars, server_vars
<1>1. TypeOK'
  BY DEF Walks, Inv, TypeOK, Labels
<1>2. Messages' /\ Keys' /\ Acknowledgements'
  BY Resting, Zenon DEF Rests, Walks, GoodMessages, GoodKeys, GoodAcks
<1> QED BY <1>1, <1>2, ZenonT(30) DEF Inv

\* A step that only starts or ends a loop keeps the invariant.
LEMMA WalkingInPlace ==
    ASSUME Good, Walks, UNCHANGED <<pc, retrying, retry_count>>,
           running' \in BOOLEAN, tasks' \in BOOLEAN
    PROVE  Good'
<1> Inv
  BY Zenon DEF Good
<1> USE DEF transport_vars, queue_vars, key_vars, server_vars
<1>1. Control'
  BY Zenon DEF Inv, Control, Walks
<1>2. Calling'
  BY ZenonT(30) DEF Inv, Calling, Waits, Purpose, Walks
<1>3. Attempts'
  BY Zenon DEF Inv, Attempts, Walks
<1>4. pc \in [{"app", "run"} -> Labels] /\ retrying \in BOOLEAN /\ retry_count \in 0 .. MaxConnections
  BY Zenon DEF Inv, TypeOK, Labels
<1> QED BY <1>1, <1>2, <1>3, <1>4, Walking, Zenon

\* SpawnTasks keeps the invariant.
LEMMA SpawnTasksStep ==
    ASSUME Good, ~panicked, SpawnTasks
    PROVE  Good'
<1> SUFFICES ASSUME Inv PROVE Inv'
  BY Zenon DEF Good
<1> USE DEF transport_vars, queue_vars, session_vars, key_vars, server_vars
<1>1. Walks /\ UNCHANGED <<retrying, retry_count, running>> /\ tasks' = TRUE /\ pc["app"] = "spawning"
  BY Zenon DEF SpawnTasks, Walks
<1>2. pc'["app"] = "idle" /\ pc' \in [{"app", "run"} -> Labels] /\ pc'["run"] = pc["run"]
  BY Moved, Zenon DEF Inv, SpawnTasks, Labels
<1>3. tasks' \in BOOLEAN
  BY <1>1, Zenon
<1>4. Control'
  BY <1>1, <1>2, Zenon DEF Inv, Control, Walks
<1>5. Calling'
  BY <1>1, <1>2, ZenonT(30) DEF Inv, Calling, Waits, Purpose, Walks
<1>6. Attempts'
  BY <1>1, <1>2, ZenonT(30) DEF Inv, Attempts, Walks
<1> QED BY <1>1, <1>2, <1>3, <1>4, <1>5, <1>6, Walking, Zenon DEF Inv, TypeOK, Good

\* Disconnect keeps the invariant.
LEMMA DisconnectStep ==
    ASSUME Good, ~panicked, Disconnect
    PROVE  Good'
<1> SUFFICES ASSUME Inv PROVE Inv'
  BY Zenon DEF Good
<1> USE DEF transport_vars, queue_vars, session_vars, key_vars, server_vars
<1>1. /\ Walks /\ UNCHANGED <<retrying, retry_count, running, tasks>>
      /\ pc["app"] = "idle" /\ pc["run"] = "idle" /\ batch = {} /\ pending.by \notin {"app", "poll"}
  BY ZenonT(30) DEF Disconnect, AppMayCall, Walks
<1>2. pc'["app"] = "disconnecting" /\ pc' \in [{"app", "run"} -> Labels] /\ pc'["run"] = pc["run"]
  BY Moved, ZenonT(30) DEF Inv, Disconnect, Labels
<1>3. Control'
  BY <1>1, <1>2, Zenon DEF Inv, Control, Walks
<1>4. Calling'
  BY <1>1, <1>2, Zenon DEF Inv, Calling, Waits, Purpose, Walks
<1>5. Attempts'
  BY <1>1, <1>2, Zenon DEF Inv, Attempts, Walks
<1> QED BY <1>1, <1>2, <1>3, <1>4, <1>5, Walking, ZenonT(30) DEF Inv, TypeOK, Good

\* Where a disconnect leads.
LEMMA AfterDisconnectIs ==
    ASSUME NEW who \in {"app", "run"}
    PROVE  /\ AfterDisconnect(who) \in {"idle", "retry"} /\ AfterDisconnect(who) \in Labels
           /\ AfterDisconnect(who) = "retry" => who = "app" /\ retrying
  BY Zenon DEF AfterDisconnect, Labels

\* AfterFailure keeps the invariant.
LEMMA AfterFailureStep ==
    ASSUME Good, ~panicked, NEW who \in {"app", "run"}, AfterFailure(who)
    PROVE  Good'
<1> SUFFICES ASSUME Inv PROVE Inv'
  BY Zenon DEF Good
<1> USE DEF transport_vars, queue_vars, session_vars, key_vars, server_vars
<1>1. /\ Walks /\ UNCHANGED <<retrying, running, tasks>> /\ pc[who] = "failed"
      /\ retry_count' = IF who = "run" THEN retry_count + 1 ELSE retry_count
  BY Zenon DEF AfterFailure, Walks
<1>2. PICK label \in Labels :
         /\ label = IF IsConnected THEN "disconnecting" ELSE AfterDisconnect(who)
         /\ label \in {"disconnecting", "idle", "retry"}
         /\ label = "retry" => who = "app" /\ retrying /\ ~IsConnected
  BY AfterDisconnectIs, Zenon DEF Labels
<1>3. /\ pc'[who] = label /\ pc' \in [{"app", "run"} -> Labels]
      /\ \A other \in {"app", "run"} : other # who => pc'[other] = pc[other]
  BY <1>2, Moved, ZenonT(30) DEF Inv, AfterFailure
<1>4. retry_count' \in 0 .. MaxConnections
  BY <1>1, ClientAssumption DEF Inv, Attempts, TypeOK
<1>5. Control'
  BY <1>1, <1>2, <1>3, Zenon DEF Inv, Control, Walks, IsConnected
<1>6. Calling'
  BY <1>1, <1>2, <1>3, ZenonT(30) DEF Inv, Control, Calling, Waits, Purpose, Walks
<1>7. Attempts'
  <2>1. CASE who = "app"
    BY <1>1, <1>2, <1>3, <2>1, ZenonT(30) DEF Inv, Attempts, Walks, TypeOK
  <2>2. CASE who = "run"
    BY <1>1, <1>2, <1>3, <2>2 DEF Inv, Attempts, Walks, TypeOK
  <2> QED BY <2>1, <2>2, ZenonT(30)
<1> QED BY <1>1, <1>3, <1>4, <1>5, <1>6, <1>7, Walking, ZenonT(30) DEF Inv, TypeOK, Good

\* WaitForDisconnect keeps the invariant.
LEMMA WaitForDisconnectStep ==
    ASSUME Good, ~panicked, NEW who \in {"app", "run"}, WaitForDisconnect(who)
    PROVE  Good'
<1> SUFFICES ASSUME Inv PROVE Inv'
  BY Zenon DEF Good
<1> USE DEF transport_vars, queue_vars, session_vars, key_vars, server_vars
<1>1. /\ Walks /\ UNCHANGED <<retrying, retry_count, running, tasks>> /\ pc[who] = "finishing"
      /\ connection = "Finished"
  BY Zenon DEF WaitForDisconnect, Walks, IsFinished
<1>2. PICK label \in Labels :
         /\ label = AfterDisconnect(who) /\ label \in {"idle", "retry"}
         /\ label = "retry" => who = "app" /\ retrying
  BY AfterDisconnectIs, Zenon
<1>3. /\ pc'[who] = label /\ pc' \in [{"app", "run"} -> Labels]
      /\ \A other \in {"app", "run"} : other # who => pc'[other] = pc[other]
  BY <1>2, Moved, ZenonT(30) DEF Inv, WaitForDisconnect
<1>4. Control'
  BY <1>1, <1>2, <1>3, ZenonT(30) DEF Inv, Control, Walks
<1>5. Calling'
  BY <1>1, <1>2, <1>3, ZenonT(30) DEF Inv, Control, Calling, Waits, Purpose, Walks
<1>6. Attempts'
  BY <1>1, <1>2, <1>3, ZenonT(30) DEF Inv, Attempts, Walks, TypeOK
<1> QED BY <1>1, <1>3, <1>4, <1>5, <1>6, Walking, ZenonT(30) DEF Inv, TypeOK, Good

\* StartRunLoop keeps the invariant.
LEMMA StartRunLoopStep ==
    ASSUME Good, ~panicked, StartRunLoop
    PROVE  Good'
<1> USE DEF transport_vars, queue_vars, session_vars, key_vars, server_vars
<1>1. Walks /\ UNCHANGED <<pc, retrying, retry_count>> /\ running' \in BOOLEAN /\ tasks' \in BOOLEAN
  <2>1. running \in BOOLEAN /\ tasks \in BOOLEAN
    BY ZenonT(30) DEF Good, Inv, TypeOK
  <2> QED BY <2>1, Zenon DEF StartRunLoop, Walks
<1> QED BY <1>1, WalkingInPlace, Zenon

\* RunLoopEnds keeps the invariant.
LEMMA RunLoopEndsStep ==
    ASSUME Good, ~panicked, RunLoopEnds
    PROVE  Good'
<1> USE DEF transport_vars, queue_vars, session_vars, key_vars, server_vars
<1>1. Walks /\ UNCHANGED <<pc, retrying, retry_count>> /\ running' \in BOOLEAN /\ tasks' \in BOOLEAN
  <2>1. running \in BOOLEAN /\ tasks \in BOOLEAN
    BY Zenon DEF Good, Inv, TypeOK
  <2> QED BY <2>1, ZenonT(30) DEF RunLoopEnds, Walks
<1> QED BY <1>1, WalkingInPlace, Zenon

\* TasksEnd keeps the invariant.
LEMMA TasksEndStep ==
    ASSUME Good, ~panicked, TasksEnd
    PROVE  Good'
<1> USE DEF transport_vars, queue_vars, session_vars, key_vars, server_vars
<1>1. Walks /\ UNCHANGED <<pc, retrying, retry_count>> /\ running' \in BOOLEAN /\ tasks' \in BOOLEAN
  <2>1. running \in BOOLEAN /\ tasks \in BOOLEAN
    BY Zenon DEF Good, Inv, TypeOK
  <2> QED BY <2>1, ZenonT(30) DEF TasksEnd, Walks
<1> QED BY <1>1, WalkingInPlace, Zenon

-----------------------------------------------------------------------------
(* Steps of the callers that send                                          *)

\* Poll keeps the invariant.
LEMMA PollStep ==
    ASSUME Good, ~panicked, Poll
    PROVE  Good'
<1> SUFFICES ASSUME Inv PROVE Inv'
  BY Zenon DEF Good
<1> USE DEF transport_vars, queue_vars, session_vars, key_vars, server_vars
<1>1. /\ pc["app"] = "idle" /\ pc["run"] = "idle" /\ batch = {} /\ pending = NoWait
      /\ batch' = responses /\ responses' = {}
      /\ UNCHANGED <<transport_vars, queue_vars, session_vars, key_vars,
                   server_vars, shared, acks, handle, pending, mailbox,
                   renewals, handled>>
  BY ZenonT(30) DEF Poll, PollMayRun, AppIsIdle, RunIsIdle, LockIsFree
<1>2. TypeOK'
  <2>1. StateTypes'
    BY <1>1, TypesInParts, SMTT(30) DEF StateTypes
  <2>2. QueueTypes'
    BY <1>1, TypesInParts, Zenon DEF QueueTypes
  <2>3. NumberTypes'
    BY <1>1, TypesInParts, Zenon DEF NumberTypes
  <2> QED BY <2>1, <2>2, <2>3, TypesInParts, Zenon
<1>3. Control'
  BY <1>1, ZenonT(30) DEF Inv, Control
<1>4. Calling' /\ Attempts'
  BY <1>1, Zenon DEF Inv, Calling, Attempts, Waits, Purpose, NoWait
<1>5. Messages'
  BY <1>1, MessagesKept, Zenon DEF Inv, GoodMessages
<1>6. Keys'
  BY <1>1, KeysKept, Zenon DEF Inv, GoodKeys
<1>7. Acknowledgements'
  BY <1>1, AcksPolled, Zenon DEF Inv, GoodAcks
<1> QED BY <1>2, <1>3, <1>4, <1>5, <1>6, <1>7, Zenon DEF Inv

\* A queue without a channel panics, so only a session that shares its queue
\* with the transport gets to send.
LEMMA CallingSent ==
    ASSUME Good, pending = NoWait,
           NEW by \in {"app", "poll", "task"}, NEW kind \in SentKinds, NEW as,
           kind # "publish" => as = {}, SentBy(by, kind, as),
           panicked' = (sender = "none"), shared' = shared,
           batch' # {} => shared /\ by = "poll" /\ pc'["app"] = "idle" /\ pc'["run"] = "idle",
           shared => pc'["run"] = "idle",
           by = "app" => IF kind = "closesession" THEN pc'["app"] = "closing" ELSE pc'["app"] = "idle",
           by = "poll" => pc'["app"] = "idle" /\ kind = "publish",
           by = "task" => kind \in {"publish", "ping"}
    PROVE  Calling'
<1> Control /\ Calling
  BY Zenon DEF Good, Inv
<1>1. ~shared => panicked'
  BY Zenon DEF Control
<1>2. CASE pending' = NoWait
  BY <1>1, <1>2, Zenon DEF Calling, Waits, NoWait, Purpose
<1>3. CASE /\ pending' # NoWait /\ pending'.by = by /\ pending'.kind = kind /\ kind \in SyncKinds
           /\ pending'.then = NoRequest
  <2>1. kind # "renew" /\ Purpose' = kind /\ kind # "open"
    BY <1>3, Zenon DEF SentKinds, Purpose
  <2> QED BY <1>1, <1>3, <2>1, Zenon DEF Calling, Waits
<1>4. CASE /\ pending' # NoWait /\ pending'.by = by /\ pending'.kind = "renew"
           /\ pending'.then.kind = kind /\ pending'.then.acks = as /\ pending'.then.nonce = 0
  <2>1. Purpose' = kind /\ "renew" \in SyncKinds /\ kind # "open"
    BY <1>4, ZenonT(30) DEF SentKinds, Purpose, SyncKinds
  <2> QED BY <1>1, <1>4, <2>1, Zenon DEF Calling, Waits, SentKinds
<1> QED BY <1>2, <1>3, <1>4, Zenon DEF SentBy

\* What every step that sends a request keeps.
SendingRest ==
    UNCHANGED <<transport_vars, retrying, retry_count, session_id, subscribed, running, tasks,
                keys, server_keys, in_step, server_vars, shared, responses, mailbox>>

\* A step that sends keeps the types.
LEMMA TypesSent ==
    ASSUME Good, SentTypes, SendingRest,
           acks' \in SUBSET Numbers, batch' \in SUBSET Answer, handled' \in SUBSET Numbers,
           pc' \in [{"app", "run"} -> Labels]
    PROVE  GoodTypes'
<1> USE DEF SendingRest, transport_vars, server_vars
<1>1. StateTypes'
  BY TypesInParts, SMTT(30) DEF StateTypes, SentTypes, Labels
<1>2. QueueTypes'
  BY TypesInParts, Zenon DEF QueueTypes, SentTypes, Wait
<1>3. NumberTypes'
  BY TypesInParts, Zenon DEF NumberTypes, SentTypes
<1> QED BY <1>1, <1>2, <1>3, TypesInParts, ZenonT(30) DEF GoodTypes

\* Call keeps the invariant.
LEMMA CallStep ==
    ASSUME Good, ~panicked, NEW kind \in {"create", "subscribe", "read"}, Call(kind)
    PROVE  Good'
<1> SUFFICES ASSUME Inv PROVE Inv'
  BY Zenon DEF Good
<1> USE DEF transport_vars, queue_vars, session_vars, key_vars, server_vars
<1>1. /\ pc["app"] = "idle" /\ pc["run"] = "idle" /\ batch = {} /\ pending = NoWait
      /\ SendRequest("app", kind, {}) /\ SendingRest /\ UNCHANGED <<pc, acks, batch, handled>>
      /\ SendsOnly
  BY Zenon DEF Call, AppMayCall, LockIsFree, SendingRest, SendsOnly
<1>2. kind \in SentKinds /\ {} \in SUBSET Numbers
  BY Zenon DEF SentKinds
<1>3. /\ Messages' /\ Keys' /\ SentTypes /\ SentBy("app", kind, {})
      /\ panicked' = (sender = "none")
  BY <1>1, <1>2, Sending, ZenonT(30) DEF Inv
<1>4. TypeOK'
  BY <1>1, <1>3, TypesSent, Zenon DEF Inv, TypeOK, Labels, GoodTypes
<1>5. Control'
  BY <1>1, <1>3, ZenonT(30) DEF Inv, Control, SentTypes, SendingRest
<1>6. Calling'
  BY <1>1, <1>2, <1>3, CallingSent, ZenonT(30) DEF Inv, SendingRest
<1>7. Attempts'
  BY <1>1, Zenon DEF Inv, Attempts, SendingRest
<1>8. Acknowledgements'
  BY <1>1, <1>2, AcksUnmoved, ZenonT(30) DEF Inv, SendingRest, GoodAcks
<1> QED BY <1>3, <1>4, <1>5, <1>6, <1>7, <1>8, ZenonT(30) DEF Inv

\* SessionActivity keeps the invariant.
LEMMA SessionActivityStep ==
    ASSUME Good, ~panicked, SessionActivity
    PROVE  Good'
<1> SUFFICES ASSUME Inv PROVE Inv'
  BY Zenon DEF Good
<1> USE DEF transport_vars, queue_vars, session_vars, key_vars, server_vars
<1>1. /\ pc["run"] = "idle" /\ batch = {} /\ pending = NoWait
      /\ SendRequest("task", "ping", {}) /\ SendingRest /\ UNCHANGED <<pc, acks, batch, handled>>
      /\ SendsOnly
  BY Zenon DEF SessionActivity, TaskMayRun, RunIsIdle, LockIsFree, SendingRest, SendsOnly
<1>2. "ping" \in SentKinds /\ {} \in SUBSET Numbers
  BY Zenon DEF SentKinds
<1>3. /\ Messages' /\ Keys' /\ SentTypes /\ SentBy("task", "ping", {})
      /\ panicked' = (sender = "none")
  BY <1>1, <1>2, Sending, ZenonT(30) DEF Inv
<1>4. TypeOK'
  BY <1>1, <1>3, TypesSent, Zenon DEF Inv, TypeOK, Labels, GoodTypes
<1>5. Control'
  BY <1>1, <1>3, ZenonT(30) DEF Inv, Control, SentTypes, SendingRest
<1>6. Calling'
  BY <1>1, <1>2, <1>3, CallingSent, ZenonT(30) DEF Inv, SendingRest
<1>7. Attempts'
  BY <1>1, Zenon DEF Inv, Attempts, SendingRest
<1>8. Acknowledgements'
  BY <1>1, <1>2, AcksUnmoved, Zenon DEF Inv, SendingRest, GoodAcks
<1> QED BY <1>3, <1>4, <1>5, <1>6, <1>7, <1>8, ZenonT(30) DEF Inv

\* The acknowledgements a task or create_subscription sends are those that wait.
LEMMA AcksPublishedAlone ==
    ASSUME Good, ~panicked, pending = NoWait, NEW by \in {"app", "poll", "task"},
           AsyncPublish(by, acks), SendsOnly,
           UNCHANGED <<acked, refused, answers, responses, batch, handled>>
    PROVE  GoodAcks'
<1> SUFFICES ASSUME Inv PROVE Acknowledgements'
  BY Zenon DEF Good, GoodAcks
<1>1. sender = "open" \/ thread # "looping" \/ acks = {}
  BY Zenon DEF Inv, Control, Calling
<1>2. acks \cup {} = acks /\ handled \cup {} = handled
  BY Zenon
<1>3. AsyncPublish(by, acks \cup {}) /\ handled' = handled \cup {} /\ {} \in SUBSET Numbers
  BY <1>2, Zenon
<1>4. sender = "open" \/ thread # "looping" \/ acks \cup {} = {}
  BY <1>1, Zenon
<1>5. UNCHANGED <<acked, refused, answers, responses>> /\ batch' \subseteq batch
  BY Zenon
<1> QED BY <1>3, <1>4, <1>5, AcksPublished, Zenon DEF Inv, GoodAcks

\* PublishActivity keeps the invariant.
LEMMA PublishActivityStep ==
    ASSUME Good, ~panicked, PublishActivity
    PROVE  Good'
<1> SUFFICES ASSUME Inv PROVE Inv'
  BY Zenon DEF Good
<1> USE DEF transport_vars, queue_vars, session_vars, key_vars, server_vars
<1>1. /\ pc["run"] = "idle" /\ batch = {} /\ pending = NoWait
      /\ AsyncPublish("task", acks) /\ SendingRest /\ UNCHANGED <<pc, batch, handled>>
      /\ SendsOnly
  BY Zenon DEF PublishActivity, TaskMayRun, RunIsIdle, LockIsFree, SendingRest, SendsOnly
<1>2. "publish" \in SentKinds /\ acks \in SUBSET Numbers /\ acks' = {}
      /\ SendRequest("task", "publish", acks)
  BY <1>1, Zenon DEF SentKinds, Inv, TypeOK, AsyncPublish
<1>3. /\ Messages' /\ Keys' /\ SentTypes /\ SentBy("task", "publish", acks)
      /\ panicked' = (sender = "none")
  BY <1>1, <1>2, Sending, ZenonT(30) DEF Inv
<1>4. TypeOK'
  BY <1>1, <1>2, <1>3, TypesSent, ZenonT(30) DEF Inv, TypeOK, Labels, GoodTypes
<1>5. Control'
  BY <1>1, <1>3, ZenonT(30) DEF Inv, Control, SentTypes, SendingRest
<1>6. Calling'
  BY <1>1, <1>2, <1>3, CallingSent, ZenonT(30) DEF Inv, SendingRest
<1>7. Attempts'
  BY <1>1, Zenon DEF Inv, Attempts, SendingRest
<1>8. Acknowledgements'
  BY <1>1, AcksPublishedAlone, Zenon DEF SendingRest, GoodAcks
<1> QED BY <1>3, <1>4, <1>5, <1>6, <1>7, <1>8, ZenonT(30) DEF Inv

\* PublishForNew keeps the invariant.
LEMMA PublishForNewStep ==
    ASSUME Good, ~panicked, PublishForNew
    PROVE  Good'
<1> SUFFICES ASSUME Inv PROVE Inv'
  BY Zenon DEF Good
<1> USE DEF transport_vars, queue_vars, session_vars, key_vars, server_vars
<1>1. /\ pc["app"] = "publishing" /\ batch = {} /\ pending = NoWait
      /\ AsyncPublish("app", acks) /\ SendingRest /\ UNCHANGED <<batch, handled>>
      /\ SendsOnly
  BY ZenonT(30) DEF PublishForNew, LockIsFree, SendingRest, SendsOnly
<1>2. "publish" \in SentKinds /\ acks \in SUBSET Numbers /\ acks' = {}
      /\ SendRequest("app", "publish", acks)
  BY <1>1, ZenonT(30) DEF SentKinds, Inv, TypeOK, AsyncPublish
<1>3. /\ Messages' /\ Keys' /\ SentTypes /\ SentBy("app", "publish", acks)
      /\ panicked' = (sender = "none")
  BY <1>1, <1>2, Sending, ZenonT(30) DEF Inv
<1>4. /\ pc' \in [{"app", "run"} -> Labels] /\ pc'["app"] = "idle" /\ pc'["run"] = "idle"
      /\ pc["run"] = "idle"
  <2>1. pc["run"] = "idle"
    BY <1>1, ZenonT(30) DEF Inv, Control
  <2> QED BY <2>1, Moved, ZenonT(30) DEF Inv, PublishForNew, Labels
<1>5. TypeOK'
  BY <1>1, <1>2, <1>3, <1>4, TypesSent, ZenonT(30) DEF Inv, TypeOK, GoodTypes
<1>6. Control'
  BY <1>1, <1>3, <1>4, ZenonT(30) DEF Inv, Control, SentTypes, SendingRest
<1>7. Calling'
  BY <1>1, <1>2, <1>3, <1>4, CallingSent, ZenonT(30) DEF Inv, SendingRest
<1>8. Attempts'
  BY <1>1, <1>4, ZenonT(30) DEF Inv, Attempts, SendingRest
<1>9. Acknowledgements'
  BY <1>1, AcksPublishedAlone, Zenon DEF SendingRest, GoodAcks
<1> QED BY <1>3, <1>5, <1>6, <1>7, <1>8, <1>9, ZenonT(30) DEF Inv

\* The response being handled is the only one with its notification.
LEMMA HandledOnce ==
    ASSUME Good, NEW a \in batch, batch' = batch \ {a}, responses' = responses
    PROVE  /\ Acknowledgement(a) \in SUBSET Numbers
           /\ \A n \in Acknowledgement(a) : n <= answers /\ ~OnWire(n) /\ ~Carried(n) /\ ~Received(n)'
           /\ ~a.again => Acknowledgement(a) = {}
<1> Inv
  BY Zenon DEF Good
<1>1. \A n \in Acknowledgement(a) : n = a.data /\ a.data > 0
  BY Zenon DEF Acknowledgement
<1>2. a.data > 0 => a.again /\ a.data \in Numbers
  BY Zenon DEF Inv, Acknowledgements, ReceivedToHandle
<1>3. ASSUME NEW n \in Acknowledgement(a)
      PROVE  n <= answers /\ ~OnWire(n) /\ ~Carried(n) /\ ~Received(n)'
  <2>1. Notifies(a, n) /\ n \in Numbers
    BY <1>1, <1>2, Zenon DEF Notifies
  <2>2. InOnePlace(n) /\ Received(n)
    BY <2>1, Zenon DEF Inv, Acknowledgements, Received
  <2>3. ~Received(n)'
    <3>1. \A b \in responses \cup batch : Notifies(b, n) => b = a
      BY <2>1, <2>2, ZenonT(30) DEF InOnePlace, ReceivedOnce
    <3>2. a \notin responses
      BY <2>1, <2>2, Zenon DEF InOnePlace, ReceivedOnce
    <3> QED BY <3>1, <3>2, ZenonT(30) DEF Received, Notifies
  <2> QED BY <2>2, <2>3, Zenon DEF InOnePlace
<1>4. Acknowledgement(a) \in SUBSET Numbers
  BY <1>1, <1>2, Zenon
<1>5. ~a.again => Acknowledgement(a) = {}
  BY <1>1, <1>2, Zenon
<1> QED BY <1>3, <1>4, <1>5, ZenonT(30)

\* HandleResponse acknowledges a notification in the request it sends next.
LEMMA HandleResponseStep ==
    ASSUME Good, ~panicked, HandleResponse
    PROVE  Good'
<1> SUFFICES ASSUME Inv PROVE Inv'
  BY Zenon DEF Good
<1> USE DEF transport_vars, queue_vars, session_vars, key_vars, server_vars
<1>1. PICK a \in batch :
       /\ batch' = batch \ {a}
       /\ handled' = handled \cup Acknowledgement(a)
       /\ IF a.again THEN AsyncPublish("poll", acks \cup Acknowledgement(a))
          ELSE UNCHANGED <<queue_vars, acks, handle, pending, local_nonce, renewals>>
  BY ZenonT(30) DEF HandleResponse
<1>2. /\ pending = NoWait /\ SendingRest /\ SendsOnly /\ UNCHANGED pc
  BY Zenon DEF HandleResponse, SendingRest, SendsOnly
<1>3. shared /\ pc["app"] = "idle" /\ pc["run"] = "idle" /\ batch' \subseteq batch
  BY <1>1, Zenon DEF Inv, Calling
<1>4. PICK A \in SUBSET Numbers :
       /\ A = Acknowledgement(a) /\ (~a.again => A = {})
       /\ \A n \in A : n <= answers /\ ~OnWire(n) /\ ~Carried(n) /\ ~Received(n)'
  BY <1>1, <1>2, HandledOnce, ZenonT(30) DEF SendingRest
<1>5. handled' = handled \cup A /\ handled' \in SUBSET Numbers /\ batch' \in SUBSET Answer
  BY <1>1, <1>4, ZenonT(30) DEF Inv, TypeOK
<1>6. thread = "connecting" => FALSE
  BY <1>3, ZenonT(30) DEF Inv, Control
<1>7. CASE a.again
  <2>1. AsyncPublish("poll", acks \cup A)
    BY <1>1, <1>4, <1>7, ZenonT(30)
  <2>2. PICK as \in SUBSET Numbers : as = acks \cup A
    BY Zenon DEF Inv, TypeOK
  <2>3. "publish" \in SentKinds /\ acks' = {} /\ SendRequest("poll", "publish", as)
    BY <2>1, <2>2, Zenon DEF SentKinds, AsyncPublish
  <2>4. /\ Messages' /\ Keys' /\ SentTypes /\ SentBy("poll", "publish", as)
        /\ panicked' = (sender = "none")
    BY <1>2, <2>3, Sending, ZenonT(30) DEF Inv
  <2>5. TypeOK'
    BY <1>2, <1>5, <2>3, <2>4, TypesSent, ZenonT(30) DEF Inv, TypeOK, Labels, GoodTypes
  <2>6. Control'
    BY <1>2, <1>6, <2>4, ZenonT(30) DEF Inv, Control, SentTypes, SendingRest
  <2>7. Calling'
    BY <1>2, <1>3, <2>3, <2>4, CallingSent, ZenonT(30) DEF Inv, SendingRest
  <2>8. Attempts'
    BY <1>2, Zenon DEF Inv, Attempts, SendingRest
  <2>9. Acknowledgements'
    <3>1. sender = "open" \/ thread # "looping" \/ acks \cup A = {}
      BY <1>3, ZenonT(30) DEF Inv, Control
    <3>2. UNCHANGED <<acked, refused, answers, responses>>
      BY <1>2, Zenon DEF SendingRest
    <3> QED BY <1>2, <1>3, <1>4, <1>5, <2>1, <3>1, <3>2, AcksPublished, ZenonT(30) DEF Inv, GoodAcks
  <2> QED BY <2>4, <2>5, <2>6, <2>7, <2>8, <2>9, ZenonT(30) DEF Inv
<1>8. CASE ~a.again
  <2>1. UNCHANGED <<queue_vars, acks, handle, pending, local_nonce, renewals>> /\ handled' = handled
    BY <1>1, <1>4, <1>5, <1>8, ZenonT(30)
  <2>2. TypeOK'
    <3>1. StateTypes'
      BY <1>2, <2>1, TypesInParts, SMTT(30) DEF StateTypes, SendingRest
    <3>2. QueueTypes'
      BY <1>2, <1>5, <2>1, TypesInParts, ZenonT(30) DEF QueueTypes, SendingRest
    <3>3. NumberTypes'
      BY <1>2, <2>1, TypesInParts, ZenonT(30) DEF NumberTypes, SendingRest
    <3> QED BY <3>1, <3>2, <3>3, TypesInParts, ZenonT(30)
  <2>3. Control'
    BY <1>2, <2>1, ZenonT(30) DEF Inv, Control, SendingRest
  <2>4. Calling' /\ Attempts'
    BY <1>2, <1>3, <2>1, ZenonT(30) DEF Inv, Calling, Attempts, SendingRest, Waits, Purpose
  <2>5. Messages'
    BY <1>2, <2>1, MessagesKept, ZenonT(30) DEF Inv, SendingRest, GoodMessages
  <2>6. Keys'
    BY <1>2, <2>1, KeysKept, ZenonT(30) DEF Inv, SendingRest, GoodKeys
  <2>7. Acknowledgements'
    BY <1>1, <1>2, <2>1, AcksPutAside, ZenonT(30) DEF Inv, SendingRest, GoodAcks
  <2> QED BY <2>2, <2>3, <2>4, <2>5, <2>6, <2>7, ZenonT(30) DEF Inv
<1> QED BY <1>7, <1>8, Zenon

\* CloseSession sends only for the application: a session that was reset has no id.
LEMMA CloseSessionStep ==
    ASSUME Good, ~panicked, NEW who \in {"app", "run"}, CloseSession(who)
    PROVE  Good'
<1> SUFFICES ASSUME Inv PROVE Inv'
  BY Zenon DEF Good
<1> USE DEF transport_vars, queue_vars, session_vars, key_vars, server_vars
<1>1. /\ pc[who] = "disconnecting" /\ SendingRest /\ SendsOnly /\ UNCHANGED <<acks, batch, handled>>
  BY Zenon DEF CloseSession, SendingRest, SendsOnly
<1>2. /\ pc'[who] = "closing" /\ pc' \in [{"app", "run"} -> Labels]
      /\ \A other \in {"app", "run"} : other # who => pc'[other] = pc[other]
  BY Moved, Zenon DEF Inv, CloseSession, Labels
<1>3. CASE IsConnected /\ session_id
  <2>1. who = "app" /\ pc["run"] = "idle" /\ shared
    BY <1>1, <1>3, ZenonT(30) DEF Inv, Control
  <2>2. SendRequest("app", "closesession", {}) /\ pending = NoWait /\ batch = {}
    BY <1>3, <2>1, Zenon DEF CloseSession, LockIsFree, Caller
  <2>3. "closesession" \in SentKinds /\ {} \in SUBSET Numbers
    BY Zenon DEF SentKinds
  <2>4. /\ Messages' /\ Keys' /\ SentTypes /\ SentBy("app", "closesession", {})
        /\ panicked' = (sender = "none")
    BY <1>1, <2>2, <2>3, Sending, ZenonT(30) DEF Inv
  <2>5. TypeOK'
    BY <1>1, <1>2, <2>4, TypesSent, ZenonT(30) DEF Inv, TypeOK, GoodTypes
  <2>6. Control'
    BY <1>1, <1>2, <2>1, <2>4, ZenonT(30) DEF Inv, Control, SentTypes, SendingRest
  <2>7. Calling'
    BY <1>1, <1>2, <2>1, <2>2, <2>3, <2>4, CallingSent, ZenonT(30) DEF Inv, SendingRest
  <2>8. Attempts'
    BY <1>1, <1>2, <2>1, ZenonT(30) DEF Inv, Attempts, SendingRest
  <2>9. Acknowledgements'
    BY <1>1, <2>2, <2>3, AcksUnmoved, ZenonT(30) DEF Inv, SendingRest, GoodAcks
  <2> QED BY <2>4, <2>5, <2>6, <2>7, <2>8, <2>9, ZenonT(30) DEF Inv
<1>4. CASE ~(IsConnected /\ session_id)
  <2>1. Walks /\ UNCHANGED <<retrying, retry_count, running, tasks>>
    BY <1>1, <1>4, ZenonT(30) DEF CloseSession, Walks, SendingRest
  <2>2. Control'
    BY <1>1, <1>2, <2>1, ZenonT(30) DEF Inv, Control, Walks
  <2>3. Calling'
    BY <1>1, <1>2, <2>1, ZenonT(30) DEF Inv, Control, Calling, Walks, Waits, Purpose
  <2>4. Attempts'
    BY <1>1, <1>2, <2>1, ZenonT(30) DEF Inv, Attempts, Walks
  <2> QED BY <1>2, <2>1, <2>2, <2>3, <2>4, Walking, ZenonT(30) DEF Inv, TypeOK, Good
<1> QED BY <1>3, <1>4, ZenonT(30)

\* CloseSecureChannel keeps the invariant.
LEMMA CloseSecureChannelStep ==
    ASSUME Good, ~panicked, NEW who \in {"app", "run"}, CloseSecureChannel(who)
    PROVE  Good'
<1> SUFFICES ASSUME Inv PROVE Inv'
  BY Zenon DEF Good
<1> USE DEF transport_vars, queue_vars, session_vars, key_vars, server_vars
<1>1. /\ pc[who] = "closing" /\ SendingRest /\ SendsOnly
      /\ UNCHANGED <<local_nonce, acks, batch, handled>>
      /\ pending = NoWait /\ batch = {} /\ SendNow(Caller(who), "close", {}, 0)
      /\ UNCHANGED <<to_client, mailbox, held>>
      /\ UNCHANGED <<keys, server_keys, in_step, thread>>
  BY Zenon DEF CloseSecureChannel, SendingRest, SendsOnly, LockIsFree
<1>2. /\ pc'[who] = "quitting" /\ pc' \in [{"app", "run"} -> Labels]
      /\ \A other \in {"app", "run"} : other # who => pc'[other] = pc[other]
  BY Moved, ZenonT(30) DEF Inv, CloseSecureChannel, Labels
<1>3. /\ "close" \in Kinds \ {"quit", "renew"} /\ {} \in SUBSET Numbers /\ 0 \in Nonces
      /\ local_nonce' \in Nonces /\ Caller(who) \in {"app", "poll", "task"}
  BY <1>1, ClientAssumption, SMTT(30) DEF Kinds, Nonces, Inv, TypeOK, Caller
<1>4. PICK r : SentAtOnce(r, Caller(who), "close", {})
  BY <1>1, <1>3, SentNow, Zenon DEF Inv
<1>5. /\ r \in Request /\ r.kind = "close" /\ r.acks = {} /\ Sends(r, inflight) /\ SentTypes
      /\ outgoing' = IF sender = "open" THEN Append(outgoing, r) ELSE outgoing
      /\ panicked' = (sender = "none") /\ pending'.then = NoRequest
  BY <1>4, Zenon DEF SentAtOnce
<1>6. pending' = NoWait
  BY <1>5, Zenon DEF Sends, SyncKinds
<1>7. TypeOK'
  BY <1>1, <1>2, <1>5, TypesSent, ZenonT(30) DEF Inv, TypeOK, GoodTypes
<1>8. Control'
  BY <1>1, <1>2, <1>5, ZenonT(30) DEF Inv, Control, SentTypes, SendingRest
<1>9. Calling'
  <2>1. ~shared => panicked'
    BY <1>5, ZenonT(30) DEF Inv, Control
  <2> QED BY <1>1, <1>2, <1>6, <2>1, ZenonT(30) DEF Calling, Waits, NoWait, Purpose, SendingRest
<1>10. Attempts'
  BY <1>1, <1>2, ZenonT(30) DEF Inv, Attempts, SendingRest
<1>11. Messages'
  BY <1>5, MessagesSent, ZenonT(30) DEF Inv, GoodMessages
<1>12. Keys'
  <2>1. Symmetric(r) /\ r.kind # "open"
    BY <1>5, Zenon DEF Symmetric
  <2> QED BY <1>1, <1>5, <2>1, KeysSent, ZenonT(30) DEF Inv, GoodKeys
<1>13. Acknowledgements'
  <2>1. pending'.then.acks = {}
    BY <1>5, NoRequestIsRequest, ZenonT(30)
  <2> QED BY <1>1, <1>5, <2>1, AcksUndisturbed, ZenonT(30) DEF Inv, SendingRest, GoodAcks
<1> QED BY <1>7, <1>8, <1>9, <1>10, <1>11, <1>12, <1>13, ZenonT(30) DEF Inv

\* OpenSecureChannel: the run loop's request panics, the application's is sent.
LEMMA OpenSecureChannelStep ==
    ASSUME Good, ~panicked, NEW who \in {"app", "run"}, OpenSecureChannel(who)
    PROVE  Good'
<1> SUFFICES ASSUME Inv PROVE Inv'
  BY Zenon DEF Good
<1> USE DEF transport_vars, queue_vars, session_vars, key_vars, server_vars
<1>1. PICK nonce : nonce = attempts + renewals
  BY Zenon
<1>2. /\ pc[who] = "opening" /\ SendingRest /\ SendsOnly
      /\ UNCHANGED <<pc, acks, batch, handled>> /\ local_nonce' = nonce
      /\ pending = NoWait /\ batch = {} /\ SendNow(Caller(who), "open", {}, nonce)
      /\ UNCHANGED <<to_client, mailbox, held>>
      /\ UNCHANGED <<keys, server_keys, in_step, thread>>
  BY <1>1, ZenonT(30) DEF OpenSecureChannel, SendingRest, SendsOnly, LockIsFree
<1>3. nonce \in Nonces
  BY <1>1, ClientAssumption, SMTT(30) DEF Nonces, Inv, TypeOK
<1>4. /\ "open" \in Kinds \ {"quit", "renew"} /\ {} \in SUBSET Numbers
      /\ local_nonce' \in Nonces /\ Caller(who) \in {"app", "poll", "task"}
  BY <1>2, <1>3, ZenonT(30) DEF Kinds, SyncKinds, Caller
<1>5. PICK r : r.nonce = nonce /\ SentAtOnce(r, Caller(who), "open", {})
  BY <1>2, <1>3, <1>4, SentNow, SMTT(30) DEF Inv
<1>6. /\ r \in Request /\ r.kind = "open" /\ r.acks = {} /\ Sends(r, inflight) /\ SentTypes
      /\ outgoing' = IF sender = "open" THEN Append(outgoing, r) ELSE outgoing
      /\ panicked' = (sender = "none") /\ pending'.then = NoRequest
      /\ pending' = NoWait \/ (pending'.by = Caller(who) /\ pending'.kind = "open")
  BY <1>5, Zenon DEF SentAtOnce
<1>7. pending' # NoWait
  BY <1>6, Zenon DEF Sends, SyncKinds
<1>8. TypeOK'
  BY <1>2, <1>6, TypesSent, ZenonT(30) DEF Inv, TypeOK, Labels, GoodTypes
<1>9. Control'
  <2>1. sender' = sender /\ (sender # "open" => outgoing' = outgoing)
    BY <1>6, ZenonT(30) DEF SentTypes
  <2>2. UNCHANGED <<connection, thread, wanted, shared, session_id, pc, to_client, held,
                    server_keys, in_step, handled, mailbox>>
    BY <1>2, Zenon DEF SendingRest
  <2> QED BY <2>1, <2>2, ZenonT(30) DEF Inv, Control
<1>10. Calling'
  <2>1. ~shared => panicked'
    BY <1>6, Zenon DEF Inv, Control
  <2>2. CASE who = "run"
    <3>1. panicked'
      BY <1>2, <2>1, <2>2, ZenonT(30) DEF Inv, Control
    <3>2. pending'.by = "poll"
      BY <1>6, <1>7, <2>2, ZenonT(30) DEF Caller
    <3> QED BY <1>2, <1>6, <1>7, <3>1, <3>2, ZenonT(30) DEF Calling, Waits, SendingRest, SyncKinds
  <2>3. CASE who = "app"
    <3>1. pending'.by = "app" /\ Purpose' = "open" /\ pc["run"] = "idle"
      BY <1>2, <1>6, <1>7, <2>3, ZenonT(30) DEF Caller, Purpose, Inv, Control
    <3> QED BY <1>2, <1>6, <1>7, <2>1, <2>3, <3>1, ZenonT(30) DEF Calling, Waits, SendingRest, SyncKinds
  <2> QED BY <2>2, <2>3, ZenonT(30)
<1>11. Attempts'
  BY <1>2, Zenon DEF Inv, Attempts, SendingRest
<1>12. Messages'
  BY <1>6, MessagesSent, ZenonT(30) DEF Inv, GoodMessages
<1>13. Keys'
  <2>1. ~in_step
    BY <1>2, Zenon DEF Inv, Control
  <2> QED BY <1>2, <1>5, <1>6, <2>1, KeysSent, ZenonT(30) DEF Inv, GoodKeys
<1>14. Acknowledgements'
  <2>1. pending'.then.acks = {}
    BY <1>6, NoRequestIsRequest, ZenonT(30)
  <2> QED BY <1>2, <1>6, <2>1, AcksUndisturbed, ZenonT(30) DEF Inv, SendingRest, GoodAcks
<1> QED BY <1>8, <1>9, <1>10, <1>11, <1>12, <1>13, <1>14, ZenonT(30) DEF Inv

\* Quit keeps the invariant.
LEMMA QuitStep ==
    ASSUME Good, ~panicked, NEW who \in {"app", "run"}, Quit(who)
    PROVE  Good'
<1> SUFFICES ASSUME Inv PROVE Inv'
  BY Zenon DEF Good
<1> USE DEF transport_vars, queue_vars, session_vars, key_vars, server_vars
<1>1. /\ pc[who] = "quitting" /\ pending = NoWait /\ batch = {}
      /\ outgoing' = IF sender = "open" THEN Append(outgoing, NoRequest) ELSE outgoing
      /\ panicked' = (sender = "none")
      /\ UNCHANGED <<transport_vars, sender, inflight, retrying, retry_count,
                   session_id, subscribed, running, tasks, key_vars,
                   server_vars, shared, responses, acks, handle, pending,
                   mailbox, batch, renewals, handled>>
  BY Zenon DEF Quit, LockIsFree
<1>2. /\ pc'[who] = "finishing" /\ pc' \in [{"app", "run"} -> Labels]
      /\ \A other \in {"app", "run"} : other # who => pc'[other] = pc[other]
  BY Moved, ZenonT(30) DEF Inv, Quit, Labels
<1>3. outgoing \in Seq(Request) /\ NoRequest \in Request
  BY NoRequestIsRequest, Zenon DEF Inv, TypeOK
<1>4. outgoing' \in Seq(Request)
  BY <1>1, <1>3, Appended, ZenonT(30)
<1>5. panicked' \in BOOLEAN
  BY <1>1, ZenonT(30)
<1>6. TypeOK'
  <2>1. StateTypes'
    BY <1>1, <1>2, <1>5, TypesInParts, SMTT(30) DEF StateTypes, Labels
  <2>2. QueueTypes'
    BY <1>1, <1>4, TypesInParts, ZenonT(30) DEF QueueTypes
  <2>3. NumberTypes'
    BY <1>1, TypesInParts, ZenonT(30) DEF NumberTypes
  <2> QED BY <2>1, <2>2, <2>3, TypesInParts, ZenonT(30)
<1>7. Control'
  BY <1>1, <1>2, ZenonT(30) DEF Inv, Control
<1>8. Calling'
  <2>1. ~shared => panicked'
    BY <1>1, ZenonT(30) DEF Inv, Control
  <2> QED BY <1>1, <1>2, <2>1, ZenonT(30) DEF Calling, Waits, NoWait, Purpose
<1>9. Attempts'
  BY <1>1, <1>2, ZenonT(30) DEF Inv, Attempts
<1>10. Messages'
  BY <1>1, MessagesQuit, ZenonT(30) DEF Inv, Quits, GoodMessages
<1>11. Keys'
  <2>1. ~Renewing /\ ~Renewing'
    BY <1>1, ZenonT(30) DEF Renewing, NoWait
  <2>2. \A k \in DOMAIN outgoing' :
           (k \in DOMAIN outgoing /\ outgoing'[k] = outgoing[k]) \/ outgoing'[k].kind = "quit"
    <3>1. CASE sender = "open"
      <4>1. outgoing' = Append(outgoing, NoRequest) /\ NoRequest.kind = "quit"
        BY <1>1, <3>1, ZenonT(30) DEF NoRequest
      <4>2. /\ DOMAIN outgoing' = 1 .. Len(outgoing) + 1 /\ DOMAIN outgoing = 1 .. Len(outgoing)
            /\ Len(outgoing) \in Nat /\ outgoing'[Len(outgoing) + 1] = NoRequest
            /\ \A k \in DOMAIN outgoing : outgoing'[k] = outgoing[k]
        BY <1>3, <4>1, Appended, SMTT(30)
      <4> QED BY <4>1, <4>2, SMTT(30)
    <3>2. CASE sender # "open"
      BY <1>1, <3>2, ZenonT(30)
    <3> QED BY <3>1, <3>2, ZenonT(30)
  <2> QED BY <1>1, <2>1, <2>2, KeysUndisturbed, ZenonT(30) DEF Inv, GoodKeys
<1>12. Acknowledgements'
  <2>1. pending'.then.acks = {} /\ NoRequest.acks = {}
    BY <1>1, ZenonT(30) DEF NoWait, NoRequest
  <2> QED BY <1>1, <1>3, <2>1, AcksUndisturbed, ZenonT(30) DEF Inv, GoodAcks
<1> QED BY <1>6, <1>7, <1>8, <1>9, <1>10, <1>11, <1>12, Zenon DEF Inv

-----------------------------------------------------------------------------
(* The theorems                                                            *)

\* The invariant holds before the first call.
LEMMA InitInv == Init => Inv
<1> SUFFICES ASSUME Init PROVE Inv
  BY Zenon
<1>1. /\ 0 \in Nonces /\ NoKeys \in Nonces \X Nonces /\ NoAnswer \in Answer /\ NoWait \in Wait
  <2>1. 0 \in Nonces /\ NoKeys \in Nonces \X Nonces
    BY ClientAssumption DEF Nonces, NoKeys
  <2>2. NoAnswer \in Answer
    BY ClientAssumption DEF NoAnswer, Answer, Handles, Nonces
  <2>3. NoWait \in Wait
    BY NoRequestIsRequest, Zenon DEF NoWait, Wait, Kinds, Handles
  <2> QED BY <2>1, <2>2, <2>3, ZenonT(30)
<1>2. TypeOK
  <2>1. 0 \in 0 .. MaxConnections /\ 0 \in 0 .. MaxRenewals /\ 0 \in 0 .. MaxAnswers /\ 0 \in Handles
    BY ClientAssumption DEF Handles
  <2>2. /\ outgoing \in Seq(Request) /\ to_client \in Seq([answer : Answer, key : Nonces \X Nonces])
    BY DEF Init
  <2>3. pc \in [{"app", "run"} -> Labels] /\ connection \in States
    BY Zenon DEF Init, Labels, States
  <2>4. /\ wanted \in BOOLEAN /\ shared \in BOOLEAN /\ retrying \in BOOLEAN
        /\ session_id \in BOOLEAN /\ subscribed \in BOOLEAN /\ running \in BOOLEAN
        /\ tasks \in BOOLEAN /\ panicked \in BOOLEAN /\ in_step \in BOOLEAN
    BY ZenonT(30) DEF Init
  <2>5. /\ pending \in Wait /\ mailbox \in Answer /\ local_nonce \in Nonces
        /\ keys \in Nonces \X Nonces /\ server_keys \in Nonces \X Nonces
        /\ attempts \in 0 .. MaxConnections /\ retry_count \in 0 .. MaxConnections
        /\ handle \in Handles /\ renewals \in 0 .. MaxRenewals /\ answers \in 0 .. MaxAnswers
    BY <1>1, <2>1, ZenonT(30) DEF Init
  <2>6. /\ thread = "none" /\ sender = "none" /\ inflight = {} /\ responses = {} /\ batch = {}
        /\ acks = {} /\ acked = {} /\ refused = {} /\ handled = {} /\ held = {}
    BY Zenon DEF Init
  <2> QED BY <2>2, <2>3, <2>4, <2>5, <2>6, ZenonT(30) DEF TypeOK, Labels, Wait
<1>3. Control /\ Calling
  BY ZenonT(30) DEF Init, Control, Calling, Waits, NoWait, Purpose
<1>4. Attempts
  BY SMTT(30) DEF Init, Attempts
<1>5. Messages
  <2>1. /\ pending = NoWait /\ mailbox = NoAnswer /\ held = {} /\ inflight = {}
        /\ DOMAIN outgoing = {} /\ DOMAIN to_client = {}
    BY DEF Init
  <2> QED BY <2>1, ZenonT(30) DEF Messages, WaitIsOwn, EntriesAreOwn, Waits, NoWait
<1>6. Keys
  BY ZenonT(30) DEF Init, Keys, NonceSent, NonceReturned, NonceReceived, SameKeys, Renewing, NoWait
<1>7. Acknowledgements
  <2>1. /\ outgoing \in Seq(Request) /\ DOMAIN outgoing = {} /\ DOMAIN to_client = {}
        /\ acked = {} /\ refused = {} /\ acks = {} /\ pending.then.acks = {} /\ thread # "looping"
        /\ responses = {} /\ batch = {} /\ handled = {}
    BY SMTT(30) DEF Init, NoWait, NoRequest
  <2>2. Places = {-2, -1, 0} /\ \A p \in Places : AcksAt(p) = {}
    BY <2>1, AcksAtPlaces, ZenonT(30)
  <2>3. \A n \in Numbers : InOnePlace(n)
    BY <2>1, <2>2, ZenonT(30) DEF InOnePlace, OnWire, Received, Carried, SentOnce, ReceivedOnce
  <2>4. AcksAreKept
    BY <2>1, <2>2, ZenonT(30) DEF AcksAreKept
  <2> QED BY <2>1, <2>3, <2>4, ZenonT(30) DEF Acknowledgements, ReceivedToHandle
<1> QED BY <1>2, <1>3, <1>4, <1>5, <1>6, <1>7, ZenonT(30) DEF Inv

\* A step that changes nothing keeps it.
LEMMA StutterInv ==
    ASSUME Inv, UNCHANGED vars
    PROVE  Inv'
<1> USE DEF transport_vars, queue_vars, session_vars, key_vars, server_vars
<1>1. Walks /\ UNCHANGED <<pc, retrying, retry_count, running, tasks>>
  BY Zenon DEF vars, Walks
<1>2. running \in BOOLEAN /\ tasks \in BOOLEAN
  BY Zenon DEF Inv, TypeOK
<1> QED BY <1>1, <1>2, WalkingInPlace, ZenonT(30) DEF Good

\* Every step keeps it, action by action.
LEMMA NextInv ==
    ASSUME Inv, [Next]_vars
    PROVE  Inv'
<1>1. CASE UNCHANGED vars
  BY <1>1, StutterInv, Zenon
<1>2. CASE ~panicked /\ Transport
  BY <1>2, ThreadStartsStep, SocketOpensStep, SendHelloStep, AcknowledgedStep, ConnectFailsStep,
     SetFinishedStep, SessionClosedStep, WriterEndsStep, WriteRequestStep, ReadResponseStep, ZenonT(30)
     DEF Transport, Good
<1>3. CASE ~panicked /\ InCall
  <2>1. CASE Waiting
    BY <1>3, <2>1, TimesOutStep, OpenReturnsStep, RenewReturnsStep, CallReturnsStep, ZenonT(30) DEF Waiting, Good
  <2>2. CASE \E who \in {"app", "run"} :
                OpenSecureChannel(who) \/ AfterFailure(who) \/ Disconnects(who)
    BY <1>3, <2>2, OpenSecureChannelStep, AfterFailureStep, CloseSessionStep,
       CloseSecureChannelStep, QuitStep, WaitForDisconnectStep, ZenonT(30) DEF Disconnects, Good
  <2>3. CASE RetryOrGiveUp \/ SpawnTasks \/ PublishForNew
    BY <1>3, <2>3, RetryOrGiveUpStep, SpawnTasksStep, PublishForNewStep, ZenonT(30) DEF Good
  <2> QED BY <1>3, <2>1, <2>2, <2>3, ZenonT(30) DEF InCall
<1>4. CASE ~panicked /\ Application
  BY <1>4, ConnectStep, DisconnectStep, StartRunLoopStep, CallStep, ZenonT(30) DEF Application, Good
<1>5. CASE ~panicked /\ (RunLoop \/ PublishActivity \/ SessionActivity \/ RunLoopEnds)
  BY <1>5, PollStep, HandleResponseStep, ReconnectStep, TasksEndStep, PublishActivityStep,
     SessionActivityStep, RunLoopEndsStep, ZenonT(30) DEF RunLoop, Good
<1>6. CASE ~panicked /\ (Lost \/ AnswerPublish)
  BY <1>6, LostStep, AnswerPublishStep, ZenonT(30) DEF Good
<1> QED BY <1>1, <1>2, <1>3, <1>4, <1>5, <1>6, ZenonT(30) DEF Next

\* The inductive invariant holds in every state the client can reach.
THEOREM ClientInvariant == Spec => []Inv
<1>1. Inv /\ [Next]_vars => Inv'
  BY NextInv, Zenon
<1> QED BY InitInv, <1>1, PTL DEF Spec

\* The session, its queue and its transport always hold what their structures
\* can hold: in particular retry_count never passes the attempts that were made,
\* and a nonce or the number of a notification is one that was given out.
THEOREM ClientTypes == Spec => []TypeOK
<1>1. Inv => TypeOK
  BY Zenon DEF Inv
<1> QED BY <1>1, ClientInvariant, PTL

\* The two ends of the channel have the same keys whenever they are used: the
\* answer to a renewal finds the server with the keys derived from the nonce the
\* client sent, and the renewal is the last request on its way, so nothing is
\* signed with older keys behind it.
THEOREM ClientKeys == Spec => []KeysInStep
<1>1. Inv => KeysInStep
  <2> SUFFICES ASSUME Inv, in_step, thread = "looping"
               PROVE  /\ outgoing # <<>> /\ Symmetric(Head(outgoing)) => keys = server_keys
                      /\ pending.kind # "renew" =>
                            /\ keys = server_keys
                            /\ \A i \in DOMAIN to_client : Verifies(to_client[i])
    BY Zenon DEF KeysInStep
  <2>1. SameKeys /\ NonceReturned /\ NonceReceived /\ NonceSent
    BY Zenon DEF Inv, Keys
  <2>2. \/ pending.kind = "renew" /\ Renewed
        \/ keys = server_keys /\ \A j \in DOMAIN to_client : Verifies(to_client[j])
    BY <2>1, Zenon DEF SameKeys
  <2>3. ASSUME pending.kind = "renew", Renewed PROVE outgoing = <<>>
    <3>1. CASE \E j \in DOMAIN to_client : to_client[j].answer.h = pending.h /\ to_client[j].answer.ok
      BY <2>1, <2>3, <3>1, Zenon DEF NonceReturned, Renewing
    <3>2. CASE mailbox.ok
      <4>1. mailbox # NoAnswer
        BY <3>2 DEF NoAnswer
      <4> QED BY <2>1, <2>3, <4>1, ZenonT(30) DEF NonceReceived, Renewing
    <3> QED BY <2>3, <3>1, <3>2, ZenonT(30) DEF Renewed
  <2> QED BY <2>2, <2>3, Zenon
<1> QED BY <1>1, ClientInvariant, PTL

\* A notification is acknowledged at most once, and as long as the connection
\* that brought it lives nothing on the client's side loses its acknowledgement,
\* also when a renewal of the token delays the publish request that carries it and
\* times out (async_publish(), async_send_request()).  Only a server that
\* refuses the request does not get to know of it.
THEOREM ClientAcknowledges == Spec => []AcksAreKept
<1>1. Inv => AcksAreKept
  BY Zenon DEF Inv, Acknowledgements
<1> QED BY <1>1, ClientInvariant, PTL

\* A response goes to the caller that asked for it: the only synchronous entry in
\* flight is the one waited for, also after a wait that timed out.
THEOREM ClientResponses == Spec => []InflightIsAwaited
<1>1. Inv => InflightIsAwaited
  <2> SUFFICES ASSUME Inv PROVE InflightIsAwaited
    BY Zenon
  <2>1. \A i \in inflight : i.sync => i.h = pending.h
    BY Zenon DEF Inv, Messages, EntriesAreOwn
  <2>2. mailbox # NoAnswer => mailbox.h = pending.h
    BY ZenonT(30) DEF Inv, Messages, WaitIsOwn
  <2> QED BY <2>1, <2>2, Zenon DEF InflightIsAwaited
<1> QED BY <1>1, ClientInvariant, PTL

=============================================================================
