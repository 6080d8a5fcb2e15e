-------------------------- MODULE ClientSessionEffects -------------------------
(***************************************************************************)
(* The inductive invariant of the client's session, and what each effect   *)
(* of a step does to it.                                                   *)
(*                                                                         *)
(* Inv has a part for each thing the threads share: who is doing what      *)
(* (Control, Calling, Attempts), the entries of the queue and what is on   *)
(* the wire for them (Messages), the keys of the two ends (Keys) and the   *)
(* acknowledgements (Acknowledgements).  The last three say little of      *)
(* where the threads are, so they are shown to be kept effect by effect: a *)
(* request is sent, taken, answered, its answer read; the connection is    *)
(* dropped, the queue cleared, a wait ended.  ClientSessionProofs takes    *)
(* the actions one by one.                                                 *)
(***************************************************************************)
EXTENDS ClientSession, TLAPS

-----------------------------------------------------------------------------
(* The inductive invariant                                                 *)

Waits    == pending # NoWait
Renewing == pending.kind \in {"open", "renew"}

\* What a wait is for: a renewal is for the request sent after it.
Purpose == IF pending.kind = "renew" THEN pending.then.kind ELSE pending.kind

\* Each phase of the transport's thread has its channel, its wire and its
\* caller, and a session that was reset has no channel.
Control ==
    /\ pc["app"] = "idle" \/ pc["run"] = "idle"
    /\ wanted \/ thread = "connecting" <=> pc["app"] = "connecting" \/ pc["run"] = "connecting"
    /\ wanted => thread \in {"none", "ending", "closing"}
    /\ thread = "looping" => connection = "Processing" /\ pc["app"] # "retry"
    /\ sender = "open" =>
          thread = "looping" \/ (thread = "connecting" /\ connection = "WaitingForAck")
    /\ thread = "looping" /\ shared => sender = "open"
    /\ thread = "connecting" /\ connection = "WaitingForAck" /\ shared => sender = "open"
    /\ ~shared => sender = "none" /\ ~session_id
    /\ pc["run"] # "idle" => ~shared
    /\ sender # "open" => outgoing = <<>>
    /\ thread # "looping" => to_client = <<>> /\ held = {} /\ server_keys = NoKeys
    /\ thread = "connecting" => ~in_step /\ handled = {}
    /\ thread \in {"none", "connecting"} => mailbox = NoAnswer
    /\ pc["app"] = "opening" \/ pc["run"] = "opening" => ~in_step

\* Who waits, for what, and where its thread stands meanwhile.
Calling ==
    /\ batch # {} => /\ shared /\ pc["app"] = "idle" /\ pc["run"] = "idle"
                     /\ pending.by \in {"none", "poll"}
    /\ ~shared /\ ~panicked => pending = NoWait /\ inflight = {} /\ responses = {} /\ acks = {}
    /\ Waits => pending.kind \in SyncKinds /\ pending.by # "none"
    /\ Waits /\ ~panicked => pc["run"] = "idle"
    /\ pending.by = "app" /\ ~panicked =>
          /\ Purpose \in {"create", "subscribe", "read", "publish"} => pc["app"] = "idle"
          /\ Purpose = "closesession" => pc["app"] = "closing"
          /\ Purpose = "open" => pc["app"] = "opening"
    /\ pending.by = "poll" /\ ~panicked => pc["app"] = "idle" /\ Purpose = "publish"
    /\ pending.by = "task" /\ ~panicked => Purpose \in {"publish", "ping"}
    /\ pending.kind = "renew" =>
          /\ pending.then.kind \in {"create", "subscribe", "read", "closesession",
                                    "publish", "ping"}
          /\ pending.then.nonce = 0
          /\ pending.then.kind # "publish" => pending.then.acks = {}
    /\ pending.kind # "renew" => pending.then = NoRequest

\* A failure is counted once, for the attempt it ends.
Attempts ==
    /\ pc["app"] = "retry" => retrying
    /\ retry_count + (IF retrying THEN 1 ELSE 0)
         + (IF pc["run"] \in {"connecting", "opening", "failed"} THEN 1 ELSE 0) <= attempts

Unused(h) ==
    /\ \A k \in DOMAIN outgoing : outgoing[k].h # h
    /\ \A j \in DOMAIN to_client : to_client[j].answer.h # h
    /\ h \notin held
    /\ \A i \in inflight : i.h # h

\* The handles of a wait: its own, and the one its renewal delays.
WaitIsOwn ==
    /\ Waits => /\ pending.h \in 1 .. handle /\ pending.h \notin held
                /\ mailbox = NoAnswer <=> [h |-> pending.h, sync |-> TRUE] \in inflight
    /\ pending.kind = "renew" =>
          /\ pending.then.h \in 1 .. handle /\ pending.then.h # pending.h
          /\ Unused(pending.then.h)
    /\ mailbox # NoAnswer => Waits /\ mailbox.h = pending.h

EntriesAreOwn ==
    /\ held \subseteq 1 .. handle
    /\ \A i \in inflight : /\ i.h \in 1 .. handle
                           /\ IF Waits /\ i.h = pending.h THEN i.sync ELSE ~i.sync

IsEntryOf(i, r) == IF r.kind \in SyncKinds THEN i.sync ELSE ~i.sync

\* A request on its way to the writer; the awaited one is the last.
RequestOK(k) ==
    LET r == outgoing[k] IN
    /\ r.h <= handle /\ (r.h = 0 <=> r.kind = "quit")
    /\ Symmetric(r) => r.nonce = 0
    /\ r.kind # "publish" => r.acks = {}
    /\ \A i \in inflight : i.h = r.h => IsEntryOf(i, r)
    /\ Waits /\ r.h = pending.h =>
          /\ k = Len(outgoing) /\ r.kind = pending.kind /\ mailbox = NoAnswer
          /\ \A j \in DOMAIN to_client : to_client[j].answer.h # pending.h

\* An answer on its way to the reader; the awaited one comes once.
AnswerOK(j) ==
    LET a == to_client[j].answer IN
    /\ a.h \in 1 .. handle
    /\ a.again => a.data \in 0 .. MaxAnswers
    /\ \A i \in inflight : i.h = a.h /\ ~i.sync => (a.data > 0 => a.again)
    /\ Waits /\ a.h = pending.h =>
          /\ mailbox = NoAnswer
          /\ \A k \in DOMAIN to_client : to_client[k].answer.h = a.h => k = j

Messages ==
    /\ WaitIsOwn /\ EntriesAreOwn
    /\ \A k \in DOMAIN outgoing : RequestOK(k)
    /\ \A j \in DOMAIN to_client : AnswerOK(j)

\* The server has derived the keys of the renewal waited for, and says so.
Renewed ==
    \/ \E j \in DOMAIN to_client : to_client[j].answer.h = pending.h /\ to_client[j].answer.ok
    \/ mailbox.ok

Current(m) == m.key \in {NoKeys, server_keys}

\* The request waited for carries the client's nonce; its answer brings it back
\* and finds the keys of the server derived from it, and nothing was written
\* under older keys since.
NonceSent ==
    Renewing /\ outgoing # <<>> =>
        outgoing[Len(outgoing)].h = pending.h /\ outgoing[Len(outgoing)].nonce = local_nonce

NonceReturned ==
    Renewing => \A j \in DOMAIN to_client :
        LET a == to_client[j].answer IN
        a.h = pending.h =>
            /\ outgoing = <<>>
            /\ a.ok => /\ a.data = local_nonce /\ server_keys = <<local_nonce, local_nonce>>
                       /\ \A k \in DOMAIN to_client : k > j => Current(to_client[k])

NonceReceived ==
    Renewing /\ mailbox # NoAnswer =>
        /\ mailbox.ok => mailbox.data = local_nonce
        /\ thread = "looping" =>
              /\ outgoing = <<>>
              /\ mailbox.ok => /\ server_keys = <<local_nonce, local_nonce>>
                               /\ \A k \in DOMAIN to_client : Current(to_client[k])

SameKeys ==
    in_step /\ thread = "looping" =>
        /\ \A k \in DOMAIN outgoing : ~Symmetric(outgoing[k]) => Renewing /\ k = Len(outgoing)
        /\ \/ pending.kind = "renew" /\ Renewed
           \/ keys = server_keys /\ \A j \in DOMAIN to_client : Verifies(to_client[j])

Keys == NonceSent /\ NonceReturned /\ NonceReceived /\ SameKeys

\* A notification is in one place from the server's answer to its
\* acknowledgement: on the wire, received, or carried by an acknowledgement.
Notifies(a, n) == a.again /\ a.data = n
OnWire(n)   == \E j \in DOMAIN to_client : Notifies(to_client[j].answer, n)
Received(n) == \E a \in responses \cup batch : Notifies(a, n)
Carried(n)  == \E p \in Places : n \in AcksAt(p)

SentOnce(n) ==
    \A i, j \in DOMAIN to_client :
        Notifies(to_client[i].answer, n) /\ Notifies(to_client[j].answer, n) => i = j
ReceivedOnce(n) ==
    /\ \A a, b \in responses \cup batch : Notifies(a, n) /\ Notifies(b, n) => a = b
    /\ \A a \in responses \cap batch : ~Notifies(a, n)

InOnePlace(n) ==
    /\ OnWire(n) \/ Received(n) \/ Carried(n) \/ n \in handled => n <= answers
    /\ ~(OnWire(n) /\ Received(n)) /\ ~(OnWire(n) /\ Carried(n)) /\ ~(Received(n) /\ Carried(n))
    /\ SentOnce(n) /\ ReceivedOnce(n)

\* What is received with data is a notification.
ReceivedToHandle == \A a \in responses \cup batch : a.data > 0 => a.again /\ a.data \in Numbers

Acknowledgements ==
    /\ ReceivedToHandle
    /\ \A n \in Numbers : InOnePlace(n)
    /\ AcksAreKept

Inv == TypeOK /\ Control /\ Calling /\ Attempts /\ Messages /\ Keys /\ Acknowledgements

\* Second names, for the statements of the lemmas.  The provers unfold a cited
\* definition wherever it occurs in a statement in scope, so a statement that
\* says Inv is unfolded again at every step of every later proof; one that says
\* Good is unfolded by the first step of its own.
Good         == Inv
GoodTypes    == TypeOK
GoodMessages == Messages
GoodKeys     == Keys
GoodAcks     == Acknowledgements

\* The types in three parts, for the steps that change many variables.
StateTypes ==
    /\ connection \in States
    /\ thread \in {"none", "connecting", "looping", "ending", "closing"}
    /\ sender \in {"none", "open", "closed"}
    /\ pc \in [{"app", "run"} -> {"idle", "connecting", "opening", "failed", "retry",
                                  "spawning", "publishing", "disconnecting",
                                  "closing", "quitting", "finishing"}]
    /\ wanted \in BOOLEAN /\ shared \in BOOLEAN /\ retrying \in BOOLEAN
    /\ session_id \in BOOLEAN /\ subscribed \in BOOLEAN /\ running \in BOOLEAN
    /\ tasks \in BOOLEAN /\ panicked \in BOOLEAN /\ in_step \in BOOLEAN

QueueTypes ==
    /\ outgoing \in Seq(Request)
    /\ to_client \in Seq([answer : Answer, key : Nonces \X Nonces])
    /\ inflight \in SUBSET [h : Handles, sync : BOOLEAN]
    /\ responses \in SUBSET Answer /\ batch \in SUBSET Answer /\ mailbox \in Answer
    /\ pending \in [by : {"none", "app", "poll", "task"}, kind : Kinds,
                    h : Handles, expired : BOOLEAN, then : Request]

NumberTypes ==
    /\ attempts \in 0 .. MaxConnections /\ retry_count \in 0 .. MaxConnections
    /\ acks \in SUBSET Numbers /\ acked \in SUBSET Numbers /\ refused \in SUBSET Numbers
    /\ handled \in SUBSET Numbers
    /\ handle \in Handles /\ renewals \in 0 .. MaxRenewals /\ answers \in 0 .. MaxAnswers
    /\ local_nonce \in Nonces
    /\ keys \in Nonces \X Nonces /\ server_keys \in Nonces \X Nonces
    /\ held \subseteq Handles

\* The parts say no less and no more.
LEMMA TypesInParts ==
    /\ Good => StateTypes /\ QueueTypes /\ NumberTypes
    /\ StateTypes' /\ QueueTypes' /\ NumberTypes' => TypeOK'
<1>1. TypeOK <=> StateTypes /\ QueueTypes /\ NumberTypes
  BY Zenon DEF TypeOK, StateTypes, QueueTypes, NumberTypes
<1>2. TypeOK' <=> StateTypes' /\ QueueTypes' /\ NumberTypes'
  BY Zenon DEF TypeOK, StateTypes, QueueTypes, NumberTypes
<1> QED BY <1>1, <1>2, Zenon DEF Good, Inv

\* The message to stop is a request that acknowledges nothing.
LEMMA NoRequestIsRequest == NoRequest \in Request /\ NoRequest.acks = {}
  BY ClientAssumption, SMTT(30) DEF NoRequest, Request, Handles, Kinds, Numbers, Nonces

-----------------------------------------------------------------------------
(* Sequences                                                               *)

\* What a queue is after a request was put at its end.
LEMMA Appended ==
    ASSUME NEW S, NEW s \in Seq(S), NEW x \in S
    PROVE  /\ Append(s, x) \in Seq(S) /\ Len(Append(s, x)) = Len(s) + 1
           /\ DOMAIN Append(s, x) = 1 .. Len(s) + 1 /\ DOMAIN s = 1 .. Len(s)
           /\ Len(s) \in Nat /\ Append(s, x) # <<>>
           /\ \A k \in DOMAIN s : Append(s, x)[k] = s[k]
           /\ Append(s, x)[Len(s) + 1] = x
  OBVIOUS

\* What a queue is after its first message was taken.
LEMMA Taken ==
    ASSUME NEW S, NEW s \in Seq(S), s # <<>>
    PROVE  /\ Tail(s) \in Seq(S) /\ Len(Tail(s)) = Len(s) - 1
           /\ DOMAIN Tail(s) = 1 .. Len(s) - 1 /\ DOMAIN s = 1 .. Len(s)
           /\ Len(s) \in Nat \ {0} /\ Head(s) = s[1] /\ Head(s) \in S
           /\ \A k \in 1 .. Len(s) - 1 : Tail(s)[k] = s[k + 1] /\ k + 1 \in DOMAIN s
  OBVIOUS

\* The first n elements of a queue are unaffected, and a queue of typed elements
\* has them.
LEMMA Elements ==
    ASSUME NEW S, NEW s \in Seq(S)
    PROVE  /\ DOMAIN s = 1 .. Len(s) /\ Len(s) \in Nat
           /\ \A k \in DOMAIN s : s[k] \in S
           /\ s = <<>> <=> Len(s) = 0
  OBVIOUS

-----------------------------------------------------------------------------
(* Effects: what a step can do to the queue and to the wire                *)

\* A request with a new handle is put into the queue, and waited for when its
\* kind is synchronous.
Sends(r, entries) ==
    /\ r \in Request /\ r.kind # "quit"
    /\ Symmetric(r) => r.nonce = 0
    /\ r.kind # "publish" => r.acks = {}
    /\ handle' \in Nat /\ handle <= handle' /\ r.h \in 1 .. handle' /\ Unused(r.h)
    /\ entries \subseteq inflight /\ \A i \in entries : ~i.sync
    /\ inflight' = entries \cup {[h |-> r.h, sync |-> r.kind \in SyncKinds]}
    /\ outgoing' = IF sender = "open" THEN Append(outgoing, r) ELSE outgoing
    /\ mailbox' = NoAnswer
    /\ UNCHANGED <<to_client, held>>
    /\ IF r.kind \in SyncKinds
       THEN /\ pending'.h = r.h /\ pending'.kind = r.kind /\ pending' # NoWait
            /\ r.kind = "renew" => /\ pending'.then.h \in handle + 1 .. handle'
                                   /\ pending'.then.h # r.h
       ELSE pending' = NoWait

\* The server takes the first request.
Takes ==
    /\ outgoing # <<>> /\ ~EndsWriter(Head(outgoing))
    /\ outgoing' = Tail(outgoing)
    /\ ServerTakes(Head(outgoing))
    /\ UNCHANGED <<inflight, handle, pending, mailbox>>

\* The reader takes the first answer.
Reads ==
    /\ to_client # <<>>
    /\ to_client' = Tail(to_client)
    /\ StoreResponse(Head(to_client).answer)
    /\ UNCHANGED <<outgoing, handle, pending, held>>

\* The entry made for a request tells how its caller waits.
LEMMA EntryMade ==
    ASSUME NEW r, NEW e, e = [h |-> r.h, sync |-> r.kind \in SyncKinds]
    PROVE  e.h = r.h /\ IsEntryOf(e, r)
  BY Zenon DEF IsEntryOf

\* A new request has a handle of its own, and is the last in the queue.
LEMMA MessagesSent ==
    ASSUME Good, NEW r, NEW entries, Sends(r, entries)
    PROVE  GoodMessages'
<1> SUFFICES ASSUME TypeOK, Messages PROVE Messages'
  BY Zenon DEF Good, Inv, GoodMessages
<1>1. /\ handle \in Nat /\ inflight \in SUBSET [h : Nat, sync : BOOLEAN]
      /\ held \subseteq Nat /\ outgoing \in Seq(Request)
  BY Zenon DEF TypeOK, Handles
<1>2. /\ DOMAIN outgoing = 1 .. Len(outgoing) /\ Len(outgoing) \in Nat
      /\ \A k \in DOMAIN outgoing : outgoing[k] \in Request
  BY <1>1, Elements, Zenon
<1>3. /\ DOMAIN outgoing' \subseteq 1 .. Len(outgoing) + 1 /\ DOMAIN outgoing \subseteq DOMAIN outgoing'
      /\ \A k \in DOMAIN outgoing : outgoing'[k] = outgoing[k]
      /\ \A k \in DOMAIN outgoing' :
            k \notin DOMAIN outgoing => k = Len(outgoing') /\ outgoing'[k] = r
  BY <1>1, <1>2, Appended DEF Sends
<1>4. r.h \in 1 .. handle' /\ handle' \in Nat /\ handle <= handle' /\ Unused(r.h)
  BY Zenon DEF Sends
<1>5. Waits' => r.kind \in SyncKinds /\ pending'.h = r.h /\ pending'.kind = r.kind
  BY Zenon DEF Sends, Waits
<1>6. \A i \in inflight' : (i.h = r.h /\ IsEntryOf(i, r)) \/ (i \in inflight /\ ~i.sync)
  BY EntryMade, Zenon DEF Sends
<1>7. WaitIsOwn'
  <2>1. Waits' => /\ pending'.h \in 1 .. handle' /\ pending'.h \notin held'
                  /\ mailbox' = NoAnswer <=> [h |-> pending'.h, sync |-> TRUE] \in inflight'
    BY <1>4, <1>5, Zenon DEF Sends, Unused
  <2>2. ASSUME pending'.kind = "renew"
        PROVE  pending'.then.h \in 1 .. handle' /\ pending'.then.h # pending'.h /\ Unused(pending.then.h)'
    <3>1. pending' # NoWait /\ r.kind \in SyncKinds /\ r.kind = "renew"
      BY <2>2 DEF Sends, NoWait
    <3>2. pending'.then.h \in handle + 1 .. handle' /\ pending'.then.h # r.h /\ pending'.h = r.h
      BY <3>1, Zenon DEF Sends
    <3>3. \A k \in DOMAIN outgoing' : outgoing'[k].h # pending'.then.h
      BY <1>1, <1>2, <1>3, <3>2 DEF Messages, RequestOK, Request, Handles
    <3>4. /\ \A j \in DOMAIN to_client' : to_client'[j].answer.h # pending'.then.h
          /\ pending'.then.h \notin held'
      BY <1>1, <3>2 DEF Messages, AnswerOK, EntriesAreOwn, Sends
    <3>5. \A i \in inflight' : i.h # pending'.then.h
      BY <1>1, <1>6, <3>2 DEF Messages, EntriesAreOwn
    <3> QED BY <1>1, <1>4, <3>2, <3>3, <3>4, <3>5 DEF Unused
  <2> QED BY <2>1, <2>2, Zenon DEF WaitIsOwn, Sends
<1>8. EntriesAreOwn'
  <2>1. held' \subseteq 1 .. handle'
    BY <1>1, <1>4 DEF Sends, Messages, EntriesAreOwn
  <2>2. ASSUME NEW i \in inflight'
        PROVE  i.h \in 1 .. handle' /\ IF Waits' /\ i.h = pending'.h THEN i.sync ELSE ~i.sync
    <3>1. CASE i.h = r.h /\ IsEntryOf(i, r)
      BY <3>1, <1>4, <1>5, Zenon DEF Sends, Waits, IsEntryOf
    <3>2. CASE i \in inflight /\ ~i.sync
      <4>1. i.h \in 1 .. handle /\ i.h # r.h
        BY <3>2, <1>4, Zenon DEF Messages, EntriesAreOwn, Unused
      <4> QED BY <3>2, <4>1, <1>1, <1>4, <1>5
    <3> QED BY <3>1, <3>2, <1>6, Zenon
  <2> QED BY <2>1, <2>2, Zenon DEF EntriesAreOwn
<1>9. ASSUME NEW k \in DOMAIN outgoing' PROVE RequestOK(k)'
  <2>1. CASE k \in DOMAIN outgoing
    <3>1. outgoing'[k] = outgoing[k] /\ outgoing[k] \in Request /\ outgoing[k].h # r.h
      BY <2>1, <1>2, <1>3, <1>4, Zenon DEF Unused
    <3>2. RequestOK(k)
      BY <2>1, Zenon DEF Messages
    <3>3. \A i \in inflight' : i.h = outgoing[k].h => IsEntryOf(i, outgoing[k])
      BY <3>1, <3>2, <1>6, Zenon DEF RequestOK
    <3> QED BY <3>1, <3>2, <3>3, <1>1, <1>4, <1>5 DEF RequestOK, Request, Handles, Symmetric
  <2>2. CASE k \notin DOMAIN outgoing
    <3>1. k = Len(outgoing') /\ outgoing'[k] = r
      BY <2>2, <1>3, Zenon
    <3>2. /\ r \in Request /\ r.kind # "quit" /\ (Symmetric(r) => r.nonce = 0)
          /\ (r.kind # "publish" => r.acks = {}) /\ mailbox' = NoAnswer /\ to_client' = to_client
      BY Zenon DEF Sends
    <3>3. \A i \in inflight' : i.h = r.h => IsEntryOf(i, r)
      BY <1>4, <1>6, Zenon DEF Unused
    <3> QED BY <3>1, <3>2, <3>3, <1>4, <1>5 DEF RequestOK, Unused, Symmetric
  <2> QED BY <2>1, <2>2, Zenon
<1>10. ASSUME NEW j \in DOMAIN to_client' PROVE AnswerOK(j)'
  <2>1. to_client' = to_client /\ AnswerOK(j) /\ to_client[j].answer.h # r.h
    BY <1>4, Zenon DEF Sends, Messages, Unused
  <2>2. \A i \in inflight' : i.h = to_client[j].answer.h => i \in inflight
    BY <2>1, <1>6, Zenon
  <2> QED BY <2>1, <2>2, <1>1, <1>4, <1>5 DEF AnswerOK
<1> QED BY <1>7, <1>8, <1>9, <1>10, Zenon DEF Messages

Message == [answer : Answer, key : Nonces \X Nonces]

\* Writing what waited under new keys changes no answer and no order.
LEMMA Restamping ==
    ASSUME NEW s \in Seq(Message), NEW written, NEW k \in Nonces \X Nonces
    PROVE  LET t == Restamped(s, written, k) IN
           /\ t \in Seq(Message) /\ Len(t) = Len(s) /\ DOMAIN t = DOMAIN s
           /\ \A j \in DOMAIN s : t[j].answer = s[j].answer /\ t[j].key \in {s[j].key, k}
<1> DEFINE t == Restamped(s, written, k)
<1>1. DOMAIN s = 1 .. Len(s) /\ Len(s) \in Nat /\ \A j \in DOMAIN s : s[j] \in Message
  BY Elements, Zenon
<1>2. DOMAIN t = 1 .. Len(s)
  BY <1>1, Zenon DEF Restamped
<1>3. ASSUME NEW j \in DOMAIN s
      PROVE  t[j] \in Message /\ t[j].answer = s[j].answer /\ t[j].key \in {s[j].key, k}
  <2>1. s[j] \in Message
    BY <1>1, Zenon
  <2>2. CASE j > written /\ s[j].key # NoKeys
    BY <2>1, <2>2, Zenon DEF Restamped, Message
  <2>3. CASE ~(j > written /\ s[j].key # NoKeys)
    BY <2>1, <2>3, Zenon DEF Restamped, Message
  <2> QED BY <2>2, <2>3, Zenon
<1>4. t \in [1 .. Len(s) -> Message]
  BY <1>1, <1>3, Zenon DEF Restamped
<1>5. t \in Seq(Message)
  BY <1>1, <1>4
<1>6. Len(t) = Len(s)
  BY <1>1, <1>2, <1>5
<1> QED BY <1>1, <1>2, <1>3, <1>5, <1>6, Zenon

\* What taking a request does to the wire: nothing when a publish request is held,
\* and otherwise an answer follows the ones that are there; their keys change when
\* the channel was opened.
LEMMA WireAfterTaking ==
    ASSUME Good, Takes
    PROVE  LET r == outgoing[1]
               last == to_client'[Len(to_client) + 1] IN
           /\ to_client' \in Seq(Message)
           /\ \/ /\ r.kind = "publish" /\ held' = held \cup {r.h} /\ acked' = acked \cup r.acks
                 /\ UNCHANGED <<to_client, server_keys, refused>>
              \/ /\ UNCHANGED <<held, acked>>
                 /\ IF r.kind = "publish" THEN refused' = refused \cup r.acks ELSE UNCHANGED refused
                 /\ DOMAIN to_client' = 1 .. Len(to_client) + 1
                 /\ Len(to_client') = Len(to_client) + 1
                 /\ \A j \in DOMAIN to_client : to_client'[j].answer = to_client[j].answer
                 /\ last.answer.h = r.h /\ last.answer.data = r.nonce /\ ~last.answer.again
                 /\ last.key = IF Symmetric(r) THEN server_keys ELSE NoKeys
                 /\ IF ~Symmetric(r) /\ last.answer.ok
                    THEN /\ server_keys' = <<r.nonce, r.nonce>>
                         /\ \A j \in DOMAIN to_client :
                               to_client'[j].key \in {to_client[j].key, server_keys'}
                    ELSE /\ UNCHANGED server_keys
                         /\ \A j \in DOMAIN to_client : to_client'[j] = to_client[j]
<1> TypeOK
  BY Zenon DEF Good, Inv
<1>1. outgoing \in Seq(Request) /\ outgoing # <<>> /\ to_client \in Seq(Message)
      /\ server_keys \in Nonces \X Nonces
  BY Zenon DEF TypeOK, Takes, Message
<1>2. Head(outgoing) = outgoing[1] /\ outgoing[1] \in Request
  BY <1>1, Taken, ZenonT(30)
<1> DEFINE r == outgoing[1]
           last == to_client'[Len(to_client) + 1]
           added(ok) == [NoAnswer EXCEPT !.h = r.h, !.ok = ok, !.data = r.nonce]
<1>3. ServerTakes(r)
  BY <1>2, Zenon DEF Takes
<1>4. /\ DOMAIN to_client = 1 .. Len(to_client) /\ Len(to_client) \in Nat
      /\ \A j \in DOMAIN to_client : to_client[j] \in Message
  BY <1>1, Elements, Zenon
<1>5. r.h \in Nat /\ r.nonce \in Nonces /\ NoKeys \in Nonces \X Nonces
  BY <1>2, ClientAssumption DEF Request, Handles, NoKeys, Nonces
<1>6. \A ok \in BOOLEAN : /\ added(ok) \in Answer /\ added(ok).h = r.h /\ added(ok).data = r.nonce
                          /\ (IF ok THEN added(ok).ok ELSE ~added(ok).ok) /\ ~added(ok).again
  BY <1>5, Zenon DEF NoAnswer, Answer, Handles
<1> DEFINE Follows(s, ok, k) == to_client' = Append(s, [answer |-> added(ok), key |-> k])
<1>7. ASSUME NEW s \in Seq(Message), DOMAIN s = DOMAIN to_client, Len(s) = Len(to_client),
             NEW ok \in BOOLEAN, NEW k \in Nonces \X Nonces, Follows(s, ok, k)
      PROVE  /\ to_client' \in Seq(Message) /\ DOMAIN to_client' = 1 .. Len(to_client) + 1
             /\ Len(to_client') = Len(to_client) + 1
             /\ \A j \in DOMAIN to_client : to_client'[j] = s[j]
             /\ last.answer.h = r.h /\ last.answer.data = r.nonce /\ ~last.answer.again
             /\ last.key = k /\ (IF ok THEN last.answer.ok ELSE ~last.answer.ok)
  <2>1. [answer |-> added(ok), key |-> k] \in Message
    BY <1>6, Zenon DEF Message
  <2>2. /\ to_client' \in Seq(Message) /\ DOMAIN to_client' = 1 .. Len(to_client) + 1
        /\ Len(to_client') = Len(to_client) + 1
        /\ \A j \in DOMAIN to_client : to_client'[j] = s[j]
        /\ last = [answer |-> added(ok), key |-> k]
    BY <1>7, <2>1, Appended
  <2> HIDE DEF added
  <2>3. last.answer = added(ok) /\ last.key = k
    BY <2>2
  <2> QED BY <1>6, <2>2, <2>3, Zenon
<1>8. CASE r.kind = "publish"
  <2>1. CASE /\ held' = held \cup {r.h} /\ acked' = acked \cup r.acks
             /\ UNCHANGED <<to_client, server_keys, refused>>
    BY <1>1, <1>8, <2>1, Zenon
  <2>2. CASE /\ Follows(to_client, FALSE, server_keys) /\ refused' = refused \cup r.acks
             /\ UNCHANGED <<server_keys, held, acked>>
    <3>1. Symmetric(r)
      BY <1>8, Zenon DEF Symmetric
    <3> HIDE DEF Follows
    <3> QED BY <1>1, <1>7, <1>8, <2>2, <3>1, ZenonT(30)
  <2>3. \/ /\ held' = held \cup {r.h} /\ acked' = acked \cup r.acks
           /\ UNCHANGED <<to_client, server_keys, refused>>
        \/ /\ Follows(to_client, FALSE, server_keys) /\ refused' = refused \cup r.acks
           /\ UNCHANGED <<server_keys, held, acked>>
    BY <1>3, <1>8, Zenon DEF ServerTakes, Symmetric
  <2> QED BY <2>1, <2>2, <2>3, Zenon
<1>9. CASE Symmetric(r) /\ r.kind # "publish"
  <2>1. /\ \E ok \in BOOLEAN : Follows(to_client, ok, server_keys)
        /\ UNCHANGED <<server_keys, held, acked, refused>>
    BY <1>3, <1>9, Zenon DEF ServerTakes
  <2> HIDE DEF Follows
  <2>2. PICK ok \in BOOLEAN : Follows(to_client, ok, server_keys)
    BY <2>1, Zenon
  <2> QED BY <1>1, <1>7, <1>9, <2>1, <2>2
<1>10. CASE ~Symmetric(r)
  <2>1. r.kind # "publish" /\ UNCHANGED <<held, acked, refused>>
    BY <1>3, <1>10, Zenon DEF ServerTakes, Symmetric
  <2>2. CASE \E written \in 0 .. Len(to_client) :
                /\ server_keys' = <<r.nonce, r.nonce>>
                /\ Follows(Restamped(to_client, written, <<r.nonce, r.nonce>>), TRUE, NoKeys)
    <3>1. PICK written \in 0 .. Len(to_client) :
                /\ server_keys' = <<r.nonce, r.nonce>>
                /\ Follows(Restamped(to_client, written, <<r.nonce, r.nonce>>), TRUE, NoKeys)
      BY <2>2, Zenon
    <3> DEFINE t == Restamped(to_client, written, <<r.nonce, r.nonce>>)
    <3>2. /\ t \in Seq(Message) /\ Len(t) = Len(to_client) /\ DOMAIN t = DOMAIN to_client
          /\ \A j \in DOMAIN to_client : /\ t[j].answer = to_client[j].answer
                                        /\ t[j].key \in {to_client[j].key, <<r.nonce, r.nonce>>}
      BY <1>1, <1>5, Restamping, Zenon
    <3> HIDE DEF t, Follows
    <3>3. Follows(t, TRUE, NoKeys)
      BY <3>1, Zenon DEF t
    <3>4. /\ to_client' \in Seq(Message) /\ DOMAIN to_client' = 1 .. Len(to_client) + 1
          /\ Len(to_client') = Len(to_client) + 1
          /\ \A j \in DOMAIN to_client : to_client'[j] = t[j]
          /\ last.answer.h = r.h /\ last.answer.data = r.nonce /\ ~last.answer.again
          /\ last.key = NoKeys /\ last.answer.ok
      BY <1>5, <1>7, <3>2, <3>3, Zenon
    <3>5. \A j \in DOMAIN to_client :
             /\ to_client'[j].answer = to_client[j].answer
             /\ to_client'[j].key \in {to_client[j].key, <<r.nonce, r.nonce>>}
      BY <3>2, <3>4, Zenon
    <3> QED BY <1>10, <2>1, <3>1, <3>4, <3>5, Zenon
  <2>3. CASE Follows(to_client, FALSE, NoKeys) /\ UNCHANGED server_keys
    <3> HIDE DEF Follows
    <3> QED BY <1>1, <1>5, <1>7, <1>10, <2>1, <2>3, Zenon
  <2>4. \/ \E written \in 0 .. Len(to_client) :
                /\ server_keys' = <<r.nonce, r.nonce>>
                /\ Follows(Restamped(to_client, written, <<r.nonce, r.nonce>>), TRUE, NoKeys)
        \/ Follows(to_client, FALSE, NoKeys) /\ UNCHANGED server_keys
    BY <1>3, <1>10, Zenon DEF ServerTakes, Symmetric
  <2> QED BY <2>2, <2>3, <2>4, Zenon
<1> QED BY <1>8, <1>9, <1>10, Zenon

\* The server takes a request: its answer is the only one with its handle.
LEMMA MessagesTaken ==
    ASSUME Good, Takes
    PROVE  GoodMessages'
<1> SUFFICES ASSUME TypeOK, Messages PROVE Messages'
  BY Zenon DEF Good, Inv, GoodMessages
<1> DEFINE r == outgoing[1]
           n == Len(to_client)
<1>1. /\ outgoing \in Seq(Request) /\ outgoing # <<>> /\ to_client \in Seq(Message)
      /\ outgoing' = Tail(outgoing) /\ UNCHANGED <<inflight, handle, pending, mailbox>>
      /\ handle \in Nat /\ inflight \in SUBSET [h : Nat, sync : BOOLEAN] /\ held \subseteq Nat
  BY Zenon DEF TypeOK, Takes, Message, Handles
<1>2. /\ DOMAIN outgoing' = 1 .. Len(outgoing) - 1 /\ DOMAIN outgoing = 1 .. Len(outgoing)
      /\ Len(outgoing') = Len(outgoing) - 1 /\ Len(outgoing) \in Nat \ {0}
      /\ \A k \in DOMAIN outgoing' : outgoing'[k] = outgoing[k + 1] /\ k + 1 \in DOMAIN outgoing
      /\ 1 \in DOMAIN outgoing /\ r \in Request /\ Head(outgoing) = r
  BY <1>1, Taken
<1>3. RequestOK(1) /\ r.kind # "quit" /\ r.h \in 1 .. handle
  <2>1. RequestOK(1) /\ r.kind # "quit"
    BY <1>2, Zenon DEF Messages, Takes, EndsWriter
  <2> QED BY <1>1, <1>2, <2>1 DEF RequestOK, Request, Handles
<1>4. \/ r.kind = "publish" /\ held' = held \cup {r.h} /\ to_client' = to_client
      \/ /\ held' = held
         /\ DOMAIN to_client' = 1 .. n + 1
         /\ \A j \in DOMAIN to_client : to_client'[j].answer = to_client[j].answer
         /\ to_client'[n + 1].answer.h = r.h /\ to_client'[n + 1].answer.data = r.nonce
         /\ ~to_client'[n + 1].answer.again
  BY WireAfterTaking, Zenon
<1>5. DOMAIN to_client = 1 .. n /\ n \in Nat
  BY <1>1, Elements, Zenon
<1>6. Waits /\ r.h = pending.h =>
         /\ 1 = Len(outgoing) /\ r.kind = pending.kind /\ mailbox = NoAnswer
         /\ \A j \in DOMAIN to_client : to_client[j].answer.h # pending.h
  BY <1>3, Zenon DEF RequestOK
<1>7. Waits /\ r.kind = "publish" => r.h # pending.h
  <2>1. Waits => [h |-> pending.h, sync |-> TRUE] \in inflight \/ mailbox # NoAnswer
    BY Zenon DEF Messages, WaitIsOwn
  <2>2. SUFFICES ASSUME Waits, r.h = pending.h PROVE r.kind # "publish"
    BY Zenon
  <2>3. [h |-> pending.h, sync |-> TRUE] \in inflight
    BY <1>6, <2>1, <2>2, Zenon
  <2>4. IsEntryOf([h |-> pending.h, sync |-> TRUE], r)
    BY <1>3, <2>2, <2>3, Zenon DEF RequestOK
  <2> QED BY <2>4, Zenon DEF IsEntryOf, SyncKinds
<1>8. Waits' <=> Waits
  BY <1>1, Zenon DEF Waits
<1>9. WaitIsOwn'
  <2>1. Waits => pending.h \notin held'
    BY <1>4, <1>7, Zenon DEF Messages, WaitIsOwn
  <2>2. ASSUME pending.kind = "renew" PROVE Unused(pending.then.h)'
    <3>1. Unused(pending.then.h) /\ pending'.then.h = pending.then.h
      BY <1>1, <2>2, Zenon DEF Messages, WaitIsOwn
    <3>2. r.h # pending.then.h
      BY <1>2, <3>1, Zenon DEF Unused
    <3>3. \A k \in DOMAIN outgoing' : outgoing'[k].h # pending.then.h
      BY <1>2, <3>1, Zenon DEF Unused
    <3>4. pending.then.h \notin held'
      BY <1>4, <3>1, <3>2, Zenon DEF Unused
    <3>5. \A j \in DOMAIN to_client' : to_client'[j].answer.h # pending.then.h
      BY <1>4, <1>5, <3>1, <3>2 DEF Unused
    <3> QED BY <1>1, <3>1, <3>3, <3>4, <3>5, Zenon DEF Unused
  <2> QED BY <1>1, <1>8, <2>1, <2>2, Zenon DEF Messages, WaitIsOwn
<1>10. EntriesAreOwn'
  <2>1. held' \subseteq 1 .. handle
    BY <1>3, <1>4, Zenon DEF Messages, EntriesAreOwn
  <2> QED BY <1>1, <1>8, <2>1, Zenon DEF Messages, EntriesAreOwn
<1>11. ASSUME NEW k \in DOMAIN outgoing' PROVE RequestOK(k)'
  <2>1. RequestOK(k + 1) /\ outgoing'[k] = outgoing[k + 1] /\ k + 1 \in DOMAIN outgoing
    BY <1>2, Zenon DEF Messages
  <2>2. Waits /\ outgoing[k + 1].h = pending.h => k = Len(outgoing')
    BY <1>2, <2>1 DEF RequestOK
  <2>3. ASSUME Waits, outgoing[k + 1].h = pending.h, NEW j \in DOMAIN to_client'
        PROVE  to_client'[j].answer.h # pending.h
    <3>1. r.h # pending.h
      BY <1>2, <1>6, <2>3
    <3>2. \A i \in DOMAIN to_client : to_client[i].answer.h # pending.h
      BY <2>1, <2>3, Zenon DEF RequestOK
    <3> QED BY <1>4, <1>5, <3>1, <3>2
  <2> QED BY <1>1, <1>8, <2>1, <2>2, <2>3, Zenon DEF RequestOK, Symmetric
<1>12. ASSUME NEW j \in DOMAIN to_client' PROVE AnswerOK(j)'
  <2>1. CASE to_client' = to_client
    BY <1>1, <1>8, <2>1, Zenon DEF Messages, AnswerOK
  <2>2. CASE j \in DOMAIN to_client /\ to_client' # to_client
    <3>1. AnswerOK(j) /\ to_client'[j].answer = to_client[j].answer
      BY <1>4, <2>2, Zenon DEF Messages
    <3>2. ASSUME Waits, to_client[j].answer.h = pending.h,
                 NEW k \in DOMAIN to_client', to_client'[k].answer.h = pending.h
          PROVE  k = j
      <4>1. r.h # pending.h
        BY <1>6, <2>2, <3>2, Zenon
      <4> QED BY <1>4, <1>5, <2>2, <3>1, <3>2, <4>1 DEF AnswerOK
    <3> QED BY <1>1, <1>8, <3>1, <3>2, Zenon DEF AnswerOK
  <2>3. CASE j \notin DOMAIN to_client /\ to_client' # to_client
    <3>1. /\ j = n + 1 /\ to_client'[j].answer.h = r.h
          /\ to_client'[j].answer.data = r.nonce /\ ~to_client'[j].answer.again
      BY <1>4, <1>5, <2>3
    <3>2. ASSUME NEW i \in inflight, i.h = r.h, ~i.sync PROVE ~(r.nonce > 0)
      <4>1. r.kind \notin SyncKinds
        BY <1>3, <3>2, Zenon DEF RequestOK, IsEntryOf
      <4>2. r.nonce = 0
        BY <1>3, <4>1, Zenon DEF RequestOK, Symmetric, SyncKinds
      <4> QED BY <4>2
    <3>3. ASSUME Waits, r.h = pending.h
          PROVE  mailbox = NoAnswer /\ \A k \in DOMAIN to_client' : to_client'[k].answer.h = r.h => k = j
      BY <1>4, <1>5, <1>6, <2>3, <3>1, <3>3
    <3> QED BY <1>1, <1>3, <1>8, <3>1, <3>2, <3>3, Zenon DEF AnswerOK
  <2> QED BY <2>1, <2>2, <2>3, Zenon
<1> QED BY <1>9, <1>10, <1>11, <1>12, Zenon DEF Messages

\* The reader takes an answer: its entry goes with it.
LEMMA MessagesRead ==
    ASSUME Good, Reads
    PROVE  GoodMessages'
<1> SUFFICES ASSUME TypeOK, Messages PROVE Messages'
  BY Zenon DEF Good, Inv, GoodMessages
<1> DEFINE a == to_client[1].answer
           mine == {i \in inflight : i.h = a.h}
<1>1. /\ to_client \in Seq(Message) /\ to_client # <<>> /\ to_client' = Tail(to_client)
      /\ UNCHANGED <<outgoing, handle, pending, held>>
      /\ handle \in Nat /\ inflight \in SUBSET [h : Nat, sync : BOOLEAN]
  BY Zenon DEF TypeOK, Reads, Message, Handles
<1>2. /\ DOMAIN to_client' = 1 .. Len(to_client) - 1 /\ DOMAIN to_client = 1 .. Len(to_client)
      /\ Len(to_client) \in Nat \ {0} /\ 1 \in DOMAIN to_client /\ Head(to_client).answer = a
      /\ \A k \in DOMAIN to_client' : to_client'[k] = to_client[k + 1] /\ k + 1 \in DOMAIN to_client
  BY <1>1, Taken
<1>3. /\ inflight' = inflight \ mine
      /\ mailbox' = IF \E i \in mine : i.sync THEN a ELSE mailbox
  BY <1>2, Zenon DEF Reads, StoreResponse
<1>4. AnswerOK(1)
  BY <1>2, Zenon DEF Messages
<1>5. Waits' <=> Waits
  BY <1>1, Zenon DEF Waits
<1>6. a # NoAnswer
  BY <1>4 DEF AnswerOK, NoAnswer
<1>7. ASSUME NEW i \in inflight, i.sync PROVE Waits /\ i.h = pending.h /\ i = [h |-> pending.h, sync |-> TRUE]
  <2>1. Waits /\ i.h = pending.h
    BY <1>7, Zenon DEF Messages, EntriesAreOwn
  <2> QED BY <1>1, <1>7, <2>1, Zenon
<1>8. CASE Waits /\ a.h = pending.h
  <2>1. mailbox = NoAnswer /\ \A k \in DOMAIN to_client : to_client[k].answer.h = a.h => k = 1
    BY <1>4, <1>8, Zenon DEF AnswerOK
  <2>2. [h |-> pending.h, sync |-> TRUE] \in mine
    BY <1>8, <2>1, Zenon DEF Messages, WaitIsOwn
  <2>3. mailbox' = a
    BY <1>3, <2>2, Zenon
  <2>4. [h |-> pending.h, sync |-> TRUE] \notin inflight'
    BY <1>3, <2>2, Zenon
  <2>5. WaitIsOwn'
    BY <1>1, <1>2, <1>3, <1>5, <1>6, <1>8, <2>3, <2>4 DEF Messages, WaitIsOwn, Unused
  <2>6. EntriesAreOwn'
    BY <1>1, <1>3, <1>5, Zenon DEF Messages, EntriesAreOwn
  <2>7. ASSUME NEW k \in DOMAIN outgoing' PROVE RequestOK(k)'
    <3>1. RequestOK(k) /\ outgoing[k].h # pending.h
      BY <1>1, <1>2, <1>8, Zenon DEF Messages, RequestOK
    <3> QED BY <1>1, <1>3, <1>5, <3>1, Zenon DEF RequestOK, Symmetric
  <2>8. ASSUME NEW j \in DOMAIN to_client' PROVE AnswerOK(j)'
    <3>1. AnswerOK(j + 1) /\ to_client'[j] = to_client[j + 1] /\ to_client[j + 1].answer.h # pending.h
      BY <1>2, <1>8, <2>1 DEF Messages
    <3> QED BY <1>1, <1>3, <1>5, <3>1, Zenon DEF AnswerOK
  <2> QED BY <2>5, <2>6, <2>7, <2>8, Zenon DEF Messages
<1>9. CASE ~(Waits /\ a.h = pending.h)
  <2>1. mailbox' = mailbox
    BY <1>3, <1>7, <1>9, Zenon
  <2>2. Waits => ([h |-> pending.h, sync |-> TRUE] \in inflight' <=> [h |-> pending.h, sync |-> TRUE] \in inflight)
    BY <1>3, <1>9, ZenonT(30)
  <2>3. WaitIsOwn'
    BY <1>1, <1>2, <1>3, <1>5, <2>1, <2>2 DEF Messages, WaitIsOwn, Unused
  <2>4. EntriesAreOwn'
    BY <1>1, <1>3, <1>5, Zenon DEF Messages, EntriesAreOwn
  <2>5. ASSUME NEW k \in DOMAIN outgoing' PROVE RequestOK(k)'
    <3>1. RequestOK(k)
      BY <1>1, Zenon DEF Messages
    <3> QED BY <1>1, <1>2, <1>3, <1>5, <2>1, <3>1, ZenonT(30) DEF RequestOK, Symmetric
  <2>6. ASSUME NEW j \in DOMAIN to_client' PROVE AnswerOK(j)'
    <3>1. AnswerOK(j + 1) /\ to_client'[j] = to_client[j + 1]
      BY <1>2, Zenon DEF Messages
    <3>2. ASSUME Waits, to_client[j + 1].answer.h = pending.h,
                 NEW k \in DOMAIN to_client', to_client'[k].answer.h = pending.h
          PROVE  k = j
      <4>1. to_client'[k] = to_client[k + 1] /\ k + 1 \in DOMAIN to_client
        BY <1>2, Zenon
      <4>2. k + 1 = j + 1
        BY <3>1, <3>2, <4>1, Zenon DEF AnswerOK
      <4> QED BY <1>2, <4>2
    <3> QED BY <1>1, <1>3, <1>5, <2>1, <3>1, <3>2, Zenon DEF AnswerOK
  <2> QED BY <2>3, <2>4, <2>5, <2>6, Zenon DEF Messages
<1> QED BY <1>8, <1>9, Zenon

\* The server answers a publish request it held.
Answers ==
    /\ \E h \in held, data \in {0, answers + 1}, again \in BOOLEAN :
        /\ data # 0 => again
        /\ held' = held \ {h}
        /\ to_client' = Append(to_client,
              [answer |-> [h |-> h, ok |-> TRUE, data |-> data, again |-> again],
               key |-> server_keys])
    /\ answers < MaxAnswers /\ answers' = answers + 1
    /\ UNCHANGED <<outgoing, inflight, handle, pending, mailbox>>

\* The wire after the server answered a publish request.
LEMMA WireAfterAnswer ==
    ASSUME Good, Answers
    PROVE  LET last == to_client'[Len(to_client) + 1] IN
           /\ to_client' \in Seq(Message)
           /\ DOMAIN to_client' = 1 .. Len(to_client) + 1
           /\ \A j \in DOMAIN to_client : to_client'[j] = to_client[j]
           /\ last.answer.h \in held /\ held' = held \ {last.answer.h}
           /\ last.answer.data \in {0, answers + 1} /\ last.key = server_keys
           /\ last.answer.data > 0 => last.answer.again
<1> TypeOK
  BY Zenon DEF Good, Inv
<1>1. /\ to_client \in Seq(Message) /\ server_keys \in Nonces \X Nonces /\ held \subseteq Nat
      /\ answers \in Nat /\ answers < MaxAnswers /\ MaxAnswers \in Nat
  BY ClientAssumption DEF TypeOK, Message, Answers, Handles
<1>2. PICK h \in held, data \in {0, answers + 1}, again \in BOOLEAN :
        /\ data # 0 => again
        /\ held' = held \ {h}
        /\ to_client' = Append(to_client,
              [answer |-> [h |-> h, ok |-> TRUE, data |-> data, again |-> again],
               key |-> server_keys])
  BY Zenon DEF Answers
<1> DEFINE m == [answer |-> [h |-> h, ok |-> TRUE, data |-> data, again |-> again],
                 key |-> server_keys]
<1>3. data \in Numbers \cup Nonces
  BY <1>1, ClientAssumption DEF Numbers, Nonces
<1>4. m \in Message
  BY <1>1, <1>3, Zenon DEF Message, Answer, Handles
<1>5. /\ m.answer.h = h /\ m.answer.data = data /\ m.key = server_keys
      /\ data > 0 => m.answer.again
  BY <1>1, <1>2
<1> HIDE DEF m
<1>6. /\ to_client' \in Seq(Message) /\ DOMAIN to_client' = 1 .. Len(to_client) + 1
      /\ \A j \in DOMAIN to_client : to_client'[j] = to_client[j]
      /\ to_client'[Len(to_client) + 1] = m
  BY <1>1, <1>2, <1>4, Appended DEF m
<1> QED BY <1>2, <1>5, <1>6, Zenon

\* The answer to a publish request goes to an entry without a caller.
LEMMA MessagesAnswered ==
    ASSUME Good, Answers
    PROVE  GoodMessages'
<1> SUFFICES ASSUME TypeOK, Messages PROVE Messages'
  BY Zenon DEF Good, Inv, GoodMessages
<1> DEFINE n == Len(to_client)
           a == to_client'[n + 1].answer
<1>1. /\ DOMAIN to_client' = 1 .. n + 1
      /\ \A j \in DOMAIN to_client : to_client'[j] = to_client[j]
      /\ a.h \in held /\ held' = held \ {a.h}
      /\ a.data \in {0, answers + 1} /\ (a.data > 0 => a.again)
  BY WireAfterAnswer, Zenon
<1>2. DOMAIN to_client = 1 .. n /\ n \in Nat
  BY Elements, Zenon DEF TypeOK
<1>3. /\ UNCHANGED <<outgoing, inflight, handle, pending, mailbox>>
      /\ answers \in Nat /\ answers < MaxAnswers /\ MaxAnswers \in Nat /\ handle \in Nat
  BY ClientAssumption DEF TypeOK, Answers, Handles
<1>4. Waits' <=> Waits
  BY <1>3, Zenon DEF Waits
<1>5. a.h \in 1 .. handle /\ (Waits => a.h # pending.h)
  BY <1>1, Zenon DEF Messages, EntriesAreOwn, WaitIsOwn
<1>6. ASSUME NEW j \in DOMAIN to_client'
      PROVE  j \in DOMAIN to_client \/ (j = n + 1 /\ j \notin DOMAIN to_client)
  BY <1>1, <1>2, SMTT(30)
<1>7. WaitIsOwn'
  <2>1. pending.kind = "renew" => Unused(pending.then.h)'
    BY <1>1, <1>3, <1>6, ZenonT(30) DEF Messages, WaitIsOwn, Unused
  <2> QED BY <1>1, <1>3, <1>4, <2>1, Zenon DEF Messages, WaitIsOwn
<1>8. EntriesAreOwn'
  BY <1>1, <1>3, <1>4, Zenon DEF Messages, EntriesAreOwn
<1>9. ASSUME NEW k \in DOMAIN outgoing' PROVE RequestOK(k)'
  <2>1. RequestOK(k)
    BY <1>3, Zenon DEF Messages
  <2>2. Waits /\ outgoing[k].h = pending.h => \A j \in DOMAIN to_client' : to_client'[j].answer.h # pending.h
    BY <1>1, <1>5, <1>6, <2>1, Zenon DEF RequestOK
  <2> QED BY <1>3, <1>4, <2>1, <2>2, Zenon DEF RequestOK, Symmetric
<1>10. ASSUME NEW j \in DOMAIN to_client' PROVE AnswerOK(j)'
  <2>1. CASE j \in DOMAIN to_client
    <3>1. AnswerOK(j) /\ to_client'[j] = to_client[j]
      BY <1>1, <2>1, Zenon DEF Messages
    <3>2. Waits /\ to_client[j].answer.h = pending.h =>
             \A k \in DOMAIN to_client' : to_client'[k].answer.h = pending.h => k = j
      BY <1>1, <1>5, <1>6, <3>1, Zenon DEF AnswerOK
    <3> QED BY <1>3, <1>4, <3>1, <3>2, Zenon DEF AnswerOK
  <2>2. CASE j = n + 1
    <3>1. a.again => a.data \in 0 .. MaxAnswers
      BY <1>1, <1>3
    <3> QED BY <1>1, <1>3, <1>4, <1>5, <2>2, <3>1, Zenon DEF AnswerOK
  <2> QED BY <1>6, <2>1, <2>2, Zenon
<1> QED BY <1>7, <1>8, <1>9, <1>10, Zenon DEF Messages

\* The connection is gone, and with it the wire and what is queued for it.
Drops ==
    /\ outgoing' = <<>> /\ to_client' = <<>> /\ server_keys' = NoKeys
    /\ in_step' = FALSE /\ held' = {} /\ handled' = {} /\ thread' = "ending"
    /\ UNCHANGED <<inflight, handle, pending, mailbox, responses, batch, acks, acked, refused,
                   answers, local_nonce, keys>>

\* The entries outlive the connection; nothing is left to answer them.
LEMMA MessagesDropped ==
    ASSUME Good, Drops
    PROVE  GoodMessages'
<1> SUFFICES ASSUME Messages PROVE Messages'
  BY Zenon DEF Good, Inv, GoodMessages
<1>1. DOMAIN outgoing' = {} /\ DOMAIN to_client' = {} /\ held' = {}
  BY DEF Drops
<1>2. UNCHANGED <<inflight, handle, pending, mailbox>> /\ (Waits' <=> Waits)
  BY Zenon DEF Drops, Waits
<1> QED BY <1>1, <1>2, Zenon DEF Messages, WaitIsOwn, EntriesAreOwn, Unused

\* The queue is cleared: nobody waits.
Clears ==
    /\ pending = NoWait /\ inflight' = {}
    /\ UNCHANGED <<outgoing, to_client, handle, pending, mailbox, held>>

\* A queue that was cleared while nobody waited has nothing in flight.
LEMMA MessagesCleared ==
    ASSUME Good, Clears
    PROVE  GoodMessages'
<1> SUFFICES ASSUME Messages PROVE Messages'
  BY Zenon DEF Good, Inv, GoodMessages
<1>1. ~Waits /\ ~Waits' /\ pending'.kind = "quit" /\ inflight' = {}
      /\ UNCHANGED <<outgoing, to_client, handle, pending, mailbox, held>>
  BY Zenon DEF Clears, Waits, NoWait
<1>2. WaitIsOwn' /\ EntriesAreOwn'
  BY <1>1, Zenon DEF Messages, WaitIsOwn, EntriesAreOwn
<1>3. \A k \in DOMAIN outgoing' : RequestOK(k)'
  BY <1>1, Zenon DEF Messages, RequestOK, Symmetric
<1>4. \A k \in DOMAIN to_client' : AnswerOK(k)'
  BY <1>1, Zenon DEF Messages, AnswerOK
<1> QED BY <1>2, <1>3, <1>4, Zenon DEF Messages

\* A wait ends and its entry is gone.
Ends ==
    /\ Waits /\ (pending.expired \/ mailbox # NoAnswer)
    /\ pending' = NoWait /\ mailbox' = NoAnswer /\ inflight' = EntriesLeft
    /\ UNCHANGED <<outgoing, to_client, handle, held>>

\* When a wait returns, its entry is the one that goes: by the response that
\* came, or by request_has_timed_out.
LEMMA EntriesLeftAreOthers ==
    ASSUME Good, Waits, pending.expired \/ mailbox # NoAnswer
    PROVE  EntriesLeft \subseteq inflight /\ \A i \in EntriesLeft : ~i.sync
<1> TypeOK /\ Messages
  BY Zenon DEF Good, Inv
<1>1. inflight \in SUBSET [h : Nat, sync : BOOLEAN]
  BY Zenon DEF TypeOK, Handles
<1>2. ASSUME NEW i \in EntriesLeft, i.sync PROVE FALSE
  <2>1. i \in inflight /\ i.h = pending.h
    BY <1>2, Zenon DEF EntriesLeft, Messages, EntriesAreOwn
  <2>2. ~pending.expired
    BY <2>1, Zenon DEF EntriesLeft
  <2>3. i = [h |-> pending.h, sync |-> TRUE]
    BY <1>1, <1>2, <2>1, Zenon
  <2> QED BY <2>1, <2>2, <2>3, ZenonT(30) DEF Messages, WaitIsOwn
<1> QED BY <1>2, Zenon DEF EntriesLeft

\* A wait that returned leaves the requests of the others.
LEMMA MessagesEnded ==
    ASSUME Good, Ends
    PROVE  GoodMessages'
<1> SUFFICES ASSUME TypeOK, Messages PROVE Messages'
  BY Zenon DEF Good, Inv, GoodMessages
<1>1. /\ ~Waits' /\ pending'.kind = "quit" /\ mailbox' = NoAnswer
      /\ UNCHANGED <<outgoing, to_client, handle, held>>
  BY Zenon DEF Ends, Waits, NoWait
<1>2. inflight' \subseteq inflight /\ \A i \in inflight' : ~i.sync
  BY EntriesLeftAreOthers, Zenon DEF Ends
<1>3. WaitIsOwn' /\ EntriesAreOwn'
  BY <1>1, <1>2, Zenon DEF Messages, WaitIsOwn, EntriesAreOwn
<1>4. \A k \in DOMAIN outgoing' : RequestOK(k)'
  BY <1>1, <1>2, Zenon DEF Messages, RequestOK, Symmetric
<1>5. \A k \in DOMAIN to_client' : AnswerOK(k)'
  BY <1>1, <1>2, Zenon DEF Messages, AnswerOK
<1> QED BY <1>3, <1>4, <1>5, Zenon DEF Messages

\* A wait expires; nothing else changes.
LEMMA MessagesExpired ==
    ASSUME Good, pending # NoWait, pending' = [pending EXCEPT !.expired = TRUE],
           UNCHANGED <<outgoing, to_client, inflight, handle, mailbox, held>>
    PROVE  GoodMessages'
<1> SUFFICES ASSUME TypeOK, Messages PROVE Messages'
  BY Zenon DEF Good, Inv, GoodMessages
<1>1. /\ pending'.h = pending.h /\ pending'.kind = pending.kind /\ pending'.then = pending.then
      /\ pending'.expired
  <2>1. pending \in [by : {"none", "app", "poll", "task"}, kind : Kinds,
                     h : Handles, expired : BOOLEAN, then : Request]
    BY Zenon DEF TypeOK
  <2> QED BY <2>1, Zenon
<1>2. Waits /\ Waits'
  BY <1>1, Zenon DEF Waits, NoWait
<1>3. WaitIsOwn' /\ EntriesAreOwn'
  BY <1>1, <1>2 DEF Messages, WaitIsOwn, EntriesAreOwn, Unused
<1>4. \A k \in DOMAIN outgoing' : RequestOK(k)'
  BY <1>1, <1>2 DEF Messages, RequestOK, Symmetric
<1>5. \A k \in DOMAIN to_client' : AnswerOK(k)'
  BY <1>1, <1>2 DEF Messages, AnswerOK
<1> QED BY <1>3, <1>4, <1>5, Zenon DEF Messages

\* The writer is asked to stop.
Quits ==
    /\ pending = NoWait
    /\ outgoing' = IF sender = "open" THEN Append(outgoing, NoRequest) ELSE outgoing
    /\ UNCHANGED <<to_client, inflight, handle, pending, mailbox, held>>

\* The message to stop has no handle and no entry.
LEMMA MessagesQuit ==
    ASSUME Good, Quits
    PROVE  GoodMessages'
<1> SUFFICES ASSUME TypeOK, Messages PROVE Messages'
  BY Zenon DEF Good, Inv, GoodMessages
<1>1. ~Waits /\ ~Waits' /\ pending'.kind = "quit"
      /\ UNCHANGED <<to_client, inflight, handle, pending, mailbox, held>>
  BY Zenon DEF Quits, Waits, NoWait
<1>2. outgoing \in Seq(Request) /\ NoRequest \in Request /\ handle \in Nat
  BY NoRequestIsRequest, Zenon DEF TypeOK, Handles
<1>3. \A k \in DOMAIN outgoing' : (k \in DOMAIN outgoing /\ outgoing'[k] = outgoing[k]) \/ outgoing'[k] = NoRequest
  BY <1>2, Appended DEF Quits
<1>4. WaitIsOwn' /\ EntriesAreOwn'
  BY <1>1, Zenon DEF Messages, WaitIsOwn, EntriesAreOwn
<1>5. ASSUME NEW k \in DOMAIN outgoing' PROVE RequestOK(k)'
  <2>1. CASE k \in DOMAIN outgoing /\ outgoing'[k] = outgoing[k]
    BY <1>1, <2>1, Zenon DEF Messages, RequestOK, Symmetric
  <2>2. CASE outgoing'[k] = NoRequest
    <3>1. \A i \in inflight' : i.h # 0
      BY <1>1 DEF Messages, EntriesAreOwn
    <3> QED BY <1>1, <1>2, <2>2, <3>1 DEF RequestOK, Symmetric, NoRequest
  <2> QED BY <1>3, <2>1, <2>2, Zenon
<1>6. \A k \in DOMAIN to_client' : AnswerOK(k)'
  BY <1>1, Zenon DEF Messages, AnswerOK
<1> QED BY <1>4, <1>5, <1>6, Zenon DEF Messages

-----------------------------------------------------------------------------
(* The keys under each effect                                              *)

\* Without a wait the two ends have the same keys and nothing is under way.
LEMMA KeysAtRest ==
    ASSUME Good, ~Renewing
    PROVE  in_step /\ thread = "looping" =>
              /\ \A k \in DOMAIN outgoing : Symmetric(outgoing[k])
              /\ keys = server_keys /\ \A j \in DOMAIN to_client : Verifies(to_client[j])
<1> Messages /\ Keys
  BY Zenon DEF Good, Inv
<1> QED BY Zenon DEF Keys, SameKeys, Renewing

\* A request that carries the client's nonce is the last on its way.
LEMMA KeysSent ==
    ASSUME Good, pending = NoWait,
           NEW r, Sends(r, inflight), UNCHANGED <<keys, server_keys, in_step, thread>>,
           ~Symmetric(r) => local_nonce' = r.nonce,
           r.kind = "open" => ~in_step
    PROVE  GoodKeys'
<1> SUFFICES ASSUME TypeOK, Control, Messages, Keys PROVE Keys'
  BY Zenon DEF Good, Inv, GoodKeys
<1>1. /\ outgoing \in Seq(Request) /\ r \in Request /\ UNCHANGED to_client /\ Unused(r.h)
      /\ mailbox' = NoAnswer
      /\ outgoing' = IF sender = "open" THEN Append(outgoing, r) ELSE outgoing
  BY Zenon DEF TypeOK, Sends
<1>2. ~Renewing
  BY Zenon DEF Renewing, NoWait
<1>3. Renewing' => ~Symmetric(r) /\ pending'.h = r.h /\ pending'.kind = r.kind
  BY DEF Sends, Renewing, Symmetric, NoWait
<1>4. ~Symmetric(r) => Renewing'
  BY ZenonT(30) DEF Sends, Renewing, Symmetric, SyncKinds
<1>5. /\ sender = "open" => /\ Len(outgoing') = Len(outgoing) + 1 /\ outgoing'[Len(outgoing')] = r
                            /\ DOMAIN outgoing' = 1 .. Len(outgoing) + 1
                            /\ DOMAIN outgoing = 1 .. Len(outgoing) /\ Len(outgoing) \in Nat
                            /\ \A k \in DOMAIN outgoing : outgoing'[k] = outgoing[k]
      /\ sender # "open" => outgoing' = <<>> /\ DOMAIN outgoing' = {}
  BY <1>1, Appended DEF Control
<1>6. NonceSent'
  BY <1>3, <1>5, Zenon DEF NonceSent
<1>7. NonceReturned'
  BY <1>1, <1>3, Zenon DEF NonceReturned, Unused
<1>8. NonceReceived'
  BY <1>1, Zenon DEF NonceReceived
<1>9. SameKeys'
  <2> SUFFICES ASSUME in_step', (thread = "looping")'
               PROVE  /\ \A k \in DOMAIN outgoing' : ~Symmetric(outgoing'[k]) => Renewing' /\ k = Len(outgoing')
                      /\ keys' = server_keys' /\ \A j \in DOMAIN to_client' : Verifies(to_client[j])'
    BY Zenon DEF SameKeys, Symmetric
  <2>1. /\ \A k \in DOMAIN outgoing : Symmetric(outgoing[k])
        /\ keys = server_keys /\ \A j \in DOMAIN to_client : Verifies(to_client[j])
    BY <1>2, KeysAtRest, ZenonT(30)
  <2>2. \A k \in DOMAIN outgoing' : ~Symmetric(outgoing'[k]) => Renewing' /\ k = Len(outgoing')
    BY <1>4, <1>5, <2>1
  <2> QED BY <1>1, <2>1, <2>2, Zenon DEF Verifies
<1> QED BY <1>6, <1>7, <1>8, <1>9, Zenon DEF Keys

\* The renewal ends, and the request it was for is sent.
LEMMA KeysRenewed ==
    ASSUME Good, NEW ok \in BOOLEAN, RenewReturns(ok),
           Sends(pending.then, EntriesLeft)
    PROVE  GoodKeys'
<1> SUFFICES ASSUME TypeOK, Control, Calling, Messages, Keys PROVE Keys'
  BY Zenon DEF Good, Inv, GoodKeys
<1>1. /\ pending.kind = "renew" /\ outgoing \in Seq(Request)
      /\ UNCHANGED <<to_client, thread, server_keys, local_nonce>>
      /\ keys' = IF ok THEN <<local_nonce, mailbox.data>> ELSE keys
      /\ in_step' = (in_step /\ ~pending.expired)
      /\ IF pending.expired THEN ~ok ELSE mailbox # NoAnswer /\ ok = mailbox.ok
      /\ outgoing' = IF sender = "open" THEN Append(outgoing, pending.then) ELSE outgoing
  BY Zenon DEF TypeOK, RenewReturns, Returned, DerivedKeys, AddRequest, transport_vars, server_vars
<1>2. /\ Symmetric(pending.then) /\ pending.then \in Request /\ pending.then.kind # "open"
      /\ pending.then.kind # "renew"
  BY <1>1, ZenonT(30) DEF Calling, Symmetric, Sends
<1>3. ~Renewing'
  <2>1. pending' = NoWait \/ pending'.kind = pending.then.kind
    BY Zenon DEF Sends
  <2>2. NoWait.kind # "renew" /\ NoWait.kind # "open"
    BY Zenon DEF NoWait
  <2>3. pending'.kind # "renew" /\ pending'.kind # "open"
    BY <1>2, <2>1, <2>2, Zenon
  <2> QED BY <2>3, Zenon DEF Renewing
<1>4. SameKeys'
  <2> SUFFICES ASSUME in_step', (thread = "looping")'
               PROVE  /\ \A k \in DOMAIN outgoing' : Symmetric(outgoing'[k])
                      /\ keys' = server_keys' /\ \A j \in DOMAIN to_client' : Verifies(to_client[j])'
    BY Zenon DEF SameKeys, Symmetric
  <2>1. in_step /\ ~pending.expired /\ thread = "looping" /\ mailbox # NoAnswer /\ ok = mailbox.ok
    BY <1>1, Zenon
  <2>2. Renewing /\ Waits
    BY <1>1 DEF Renewing, Waits, NoWait
  <2>3. /\ outgoing = <<>>
        /\ mailbox.ok => /\ mailbox.data = local_nonce /\ server_keys = <<local_nonce, local_nonce>>
                         /\ \A k \in DOMAIN to_client : Current(to_client[k])
    BY <2>1, <2>2, ZenonT(30) DEF Keys, NonceReceived
  <2>4. \A k \in DOMAIN outgoing' : Symmetric(outgoing'[k])
    <3>1. DOMAIN outgoing = {} /\ Len(outgoing) = 0
      BY <2>3
    <3> QED BY <1>1, <1>2, <2>3, <3>1, Appended
  <2>5. CASE ok
    <3>1. keys' = server_keys' /\ server_keys' = server_keys
      BY <1>1, <2>1, <2>3, <2>5, Zenon
    <3> QED BY <1>1, <2>1, <2>3, <2>4, <2>5, <3>1, Zenon DEF Current, Verifies
  <2>6. CASE ~ok
    <3>1. ~Renewed
      <4>1. \A j \in DOMAIN to_client : to_client[j].answer.h # pending.h
        BY <2>1, <2>2, Zenon DEF Messages, AnswerOK
      <4> QED BY <2>1, <2>6, <4>1, Zenon DEF Renewed
    <3>2. keys = server_keys /\ \A j \in DOMAIN to_client : Verifies(to_client[j])
      BY <2>1, <3>1, Zenon DEF Keys, SameKeys
    <3> QED BY <1>1, <2>4, <2>6, <3>2, Zenon DEF Verifies
  <2> QED BY <2>5, <2>6, Zenon
<1> QED BY <1>3, <1>4, Zenon DEF Keys, NonceSent, NonceReturned, NonceReceived

\* A channel just opened has the keys of both nonces at both ends.
LEMMA KeysOpened ==
    ASSUME Good, NEW ok \in BOOLEAN, OpenReturns(ok)
    PROVE  GoodKeys'
<1> SUFFICES ASSUME TypeOK, Control, Messages, Keys PROVE Keys'
  BY Zenon DEF Good, Inv, GoodKeys
<1>1. /\ pending.kind = "open" /\ pending' = NoWait
      /\ UNCHANGED <<to_client, outgoing, thread, server_keys, local_nonce>>
      /\ keys' = IF ok THEN <<local_nonce, mailbox.data>> ELSE keys
      /\ in_step' = ok
      /\ IF pending.expired THEN ~ok ELSE mailbox # NoAnswer /\ ok = mailbox.ok
  BY Zenon DEF OpenReturns, Returned, DerivedKeys, transport_vars, server_vars
<1>2. ~Renewing' /\ Renewing
  BY <1>1, Zenon DEF Renewing, NoWait
<1>3. SameKeys'
  <2> SUFFICES ASSUME in_step', (thread = "looping")'
               PROVE  /\ DOMAIN outgoing' = {}
                      /\ keys' = server_keys' /\ \A j \in DOMAIN to_client' : Verifies(to_client[j])'
    BY Zenon DEF SameKeys, Symmetric
  <2>1. ok /\ mailbox # NoAnswer /\ mailbox.ok /\ thread = "looping"
    BY <1>1, Zenon
  <2>2. /\ outgoing = <<>> /\ mailbox.data = local_nonce
        /\ server_keys = <<local_nonce, local_nonce>>
        /\ \A k \in DOMAIN to_client : Current(to_client[k])
    BY <1>2, <2>1, Zenon DEF Keys, NonceReceived
  <2>3. keys' = server_keys
    BY <1>1, <2>1, <2>2, Zenon
  <2> QED BY <1>1, <2>2, <2>3 DEF Current, Verifies
<1> QED BY <1>2, <1>3, Zenon DEF Keys, NonceSent, NonceReturned, NonceReceived

\* A wait that was not for keys ends, or none was there: the ends agree, and
\* what is added to the queue is no request for new keys.
LEMMA KeysUndisturbed ==
    ASSUME Good, ~Renewing, ~Renewing',
           UNCHANGED <<to_client, keys, server_keys, in_step>>,
           thread' = thread \/ thread' # "looping" \/ ~in_step,
           \A k \in DOMAIN outgoing' :
              (k \in DOMAIN outgoing /\ outgoing'[k] = outgoing[k]) \/ outgoing'[k].kind = "quit"
    PROVE  GoodKeys'
<1> SUFFICES ASSUME Messages, Keys PROVE Keys'
  BY Zenon DEF Good, Inv, GoodKeys
<1>1. SameKeys'
  <2> SUFFICES ASSUME in_step', (thread = "looping")'
               PROVE  /\ \A k \in DOMAIN outgoing' : Symmetric(outgoing'[k])
                      /\ keys' = server_keys' /\ \A j \in DOMAIN to_client' : Verifies(to_client[j])'
    BY Zenon DEF SameKeys, Symmetric
  <2> QED BY KeysAtRest, Zenon DEF Symmetric, Verifies
<1> QED BY <1>1, Zenon DEF Keys, NonceSent, NonceReturned, NonceReceived

\* Neither the wait nor the wire changes.
LEMMA KeysKept ==
    ASSUME Good, UNCHANGED <<outgoing, to_client, mailbox, local_nonce, keys, server_keys>>,
           pending'.h = pending.h, pending'.kind = pending.kind,
           in_step' => in_step,
           thread' = thread \/ thread' # "looping" \/ (~in_step /\ mailbox = NoAnswer)
    PROVE  GoodKeys'
<1> SUFFICES ASSUME Keys PROVE Keys'
  BY Zenon DEF Good, Inv, GoodKeys
<1>1. Renewing' <=> Renewing
  BY Zenon DEF Renewing
<1>2. NonceSent' /\ NonceReturned'
  BY <1>1, Zenon DEF Keys, NonceSent, NonceReturned, Current
<1>3. NonceReceived'
  BY <1>1, Zenon DEF Keys, NonceReceived, Current
<1>4. SameKeys'
  BY <1>1, Zenon DEF Keys, SameKeys, Renewed, Symmetric, Verifies
<1> QED BY <1>2, <1>3, <1>4, Zenon DEF Keys

\* A connection that is gone has no keys to keep in step.
LEMMA KeysDropped ==
    ASSUME Good, Drops
    PROVE  GoodKeys'
<1> SUFFICES ASSUME Keys PROVE Keys'
  BY Zenon DEF Good, Inv, GoodKeys
<1>1. /\ outgoing' = <<>> /\ DOMAIN to_client' = {} /\ thread' # "looping"
      /\ UNCHANGED <<pending, mailbox, local_nonce>>
  BY DEF Drops
<1> QED BY <1>1, Zenon DEF Keys, NonceSent, NonceReturned, NonceReceived, SameKeys, Renewing

\* The server writes its answer with the keys it has.
LEMMA KeysAnswered ==
    ASSUME Good, Answers,
           UNCHANGED <<local_nonce, keys, server_keys, in_step, thread>>
    PROVE  GoodKeys'
<1> SUFFICES ASSUME TypeOK, Messages, Keys PROVE Keys'
  BY Zenon DEF Good, Inv, GoodKeys
<1> DEFINE n == Len(to_client)
           m == to_client'[n + 1]
<1>1. /\ DOMAIN to_client' = 1 .. n + 1
      /\ \A j \in DOMAIN to_client : to_client'[j] = to_client[j]
      /\ m.answer.h \in held /\ m.key = server_keys
  BY WireAfterAnswer, Zenon
<1>2. DOMAIN to_client = 1 .. n /\ n \in Nat
  BY Elements, Zenon DEF TypeOK
<1>3. UNCHANGED <<outgoing, pending, mailbox>> /\ (Renewing' <=> Renewing)
  BY Zenon DEF Answers, Renewing
<1>4. Renewing => m.answer.h # pending.h
  <2>1. Renewing => Waits
    BY DEF Renewing, Waits, NoWait
  <2> QED BY <1>1, <2>1, Zenon DEF Messages, WaitIsOwn
<1>5. \A j \in DOMAIN to_client' : j \in DOMAIN to_client \/ j = n + 1
  BY <1>1, <1>2
<1>6. \A j \in DOMAIN to_client' : j = n + 1 => Current(to_client[j])'
  BY <1>1, Zenon DEF Current
<1>7. \A j \in DOMAIN to_client : Current(to_client[j]) => Current(to_client[j])'
  BY <1>1, Zenon DEF Current
<1>8. NonceSent'
  BY <1>3, Zenon DEF Keys, NonceSent
<1>9. NonceReturned'
  <2> SUFFICES ASSUME Renewing, NEW j \in DOMAIN to_client', to_client'[j].answer.h = pending.h
               PROVE  /\ outgoing = <<>>
                      /\ to_client'[j].answer.ok =>
                            /\ to_client'[j].answer.data = local_nonce
                            /\ server_keys = <<local_nonce, local_nonce>>
                            /\ \A k \in DOMAIN to_client' : k > j => Current(to_client[k])'
    BY <1>3, Zenon DEF NonceReturned
  <2>1. j \in DOMAIN to_client /\ to_client'[j] = to_client[j]
    BY <1>1, <1>4, <1>5, Zenon
  <2> QED BY <1>3, <1>5, <1>6, <1>7, <2>1, Zenon DEF Keys, NonceReturned
<1>10. NonceReceived'
  BY <1>3, <1>5, <1>6, <1>7, Zenon DEF Keys, NonceReceived
<1>11. SameKeys'
  <2>1. Renewed /\ Renewing => Renewed'
    BY <1>1, <1>2, <1>3 DEF Renewed
  <2>2. ASSUME keys = server_keys, \A j \in DOMAIN to_client : Verifies(to_client[j])
        PROVE  \A j \in DOMAIN to_client' : Verifies(to_client[j])'
    BY <1>1, <1>5, <2>2, Zenon DEF Verifies
  <2> QED BY <1>3, <2>1, <2>2, Zenon DEF Keys, SameKeys, Symmetric, Renewing
<1> QED BY <1>8, <1>9, <1>10, <1>11, Zenon DEF Keys

\* The server takes a request; the one that is waited for is the last of the
\* queue, and after it nothing else is on its way.
LEMMA KeysTaken ==
    ASSUME Good, Takes, thread = "looping",
           Symmetric(Head(outgoing)) => keys = server_keys,
           pending.kind = "open" => ~in_step,
           UNCHANGED <<local_nonce, keys, in_step, thread>>
    PROVE  GoodKeys'
<1> SUFFICES ASSUME TypeOK, Messages, Keys PROVE Keys'
  BY Zenon DEF Good, Inv, GoodKeys
<1> DEFINE r == outgoing[1]
           n == Len(to_client)
           m == to_client'[n + 1]
<1>1. /\ outgoing \in Seq(Request) /\ outgoing # <<>> /\ outgoing' = Tail(outgoing)
      /\ UNCHANGED <<pending, mailbox>> /\ (Renewing' <=> Renewing)
  BY Zenon DEF TypeOK, Takes, Renewing
<1>2. /\ DOMAIN outgoing' = 1 .. Len(outgoing) - 1 /\ DOMAIN outgoing = 1 .. Len(outgoing)
      /\ Len(outgoing') = Len(outgoing) - 1 /\ Len(outgoing) \in Nat \ {0}
      /\ \A k \in DOMAIN outgoing' : outgoing'[k] = outgoing[k + 1] /\ k + 1 \in DOMAIN outgoing
      /\ outgoing' \in Seq(Request) /\ Head(outgoing) = r
  BY <1>1, Taken, Zenon
<1>3. outgoing' = <<>> <=> Len(outgoing) = 1
  BY <1>2, Elements
<1>4. DOMAIN to_client = 1 .. n /\ n \in Nat
  BY Elements, Zenon DEF TypeOK
<1>5. Renewing => /\ outgoing[Len(outgoing)].h = pending.h /\ outgoing[Len(outgoing)].nonce = local_nonce
                  /\ mailbox = NoAnswer /\ outgoing[Len(outgoing)].kind = pending.kind
                  /\ \A j \in DOMAIN to_client : to_client[j].answer.h # pending.h
  <2>1. Renewing => Waits
    BY DEF Renewing, Waits, NoWait
  <2>2. Len(outgoing) \in DOMAIN outgoing /\ RequestOK(Len(outgoing))
    BY <1>2 DEF Messages
  <2> QED BY <1>1, <2>1, <2>2, Zenon DEF Keys, NonceSent, RequestOK
<1>6. \/ r.kind = "publish" /\ UNCHANGED <<to_client, server_keys>>
      \/ /\ DOMAIN to_client' = 1 .. n + 1
         /\ \A j \in DOMAIN to_client : to_client'[j].answer = to_client[j].answer
         /\ m.answer.h = r.h /\ m.answer.data = r.nonce
         /\ m.key = IF Symmetric(r) THEN server_keys ELSE NoKeys
         /\ IF ~Symmetric(r) /\ m.answer.ok
            THEN /\ server_keys' = <<r.nonce, r.nonce>>
                 /\ \A j \in DOMAIN to_client :
                       to_client'[j].key \in {to_client[j].key, server_keys'}
            ELSE /\ UNCHANGED server_keys
                 /\ \A j \in DOMAIN to_client : to_client'[j] = to_client[j]
  BY WireAfterTaking, Zenon
<1>7. NonceSent'
  <2> SUFFICES ASSUME Renewing', outgoing' # <<>>
               PROVE  /\ outgoing'[Len(outgoing')].h = pending'.h
                      /\ outgoing'[Len(outgoing')].nonce = local_nonce'
    BY Zenon DEF NonceSent
  <2>1. Len(outgoing') \in DOMAIN outgoing'
    BY <1>2, <1>3
  <2>2. outgoing'[Len(outgoing')] = outgoing[Len(outgoing)]
    BY <1>2, <2>1
  <2> QED BY <1>1, <1>5, <2>2, Zenon
<1>8. NonceReturned'
  <2> SUFFICES ASSUME Renewing, NEW j \in DOMAIN to_client', to_client'[j].answer.h = pending.h
               PROVE  /\ outgoing' = <<>>
                      /\ to_client'[j].answer.ok =>
                            /\ to_client'[j].answer.data = local_nonce
                            /\ server_keys' = <<local_nonce, local_nonce>>
                            /\ \A k \in DOMAIN to_client' : ~(k > j)
    BY <1>1, ZenonT(30) DEF NonceReturned
  <2>1. j = n + 1 /\ r.h = pending.h
    BY <1>4, <1>5, <1>6
  <2>2. Waits
    BY DEF Renewing, Waits, NoWait
  <2>3. 1 = Len(outgoing)
    <3>1. RequestOK(1)
      BY <1>2 DEF Messages
    <3> QED BY <2>1, <2>2, <3>1, Zenon DEF RequestOK
  <2>4. r.nonce = local_nonce /\ ~Symmetric(r)
    BY <1>5, <2>3, Zenon DEF Renewing, Symmetric
  <2> QED BY <1>3, <1>4, <1>6, <2>1, <2>3, <2>4
<1>9. NonceReceived'
  BY <1>1, <1>5, Zenon DEF NonceReceived
<1>10. SameKeys'
  <2> SUFFICES ASSUME in_step, in_step'
               PROVE  /\ \A k \in DOMAIN outgoing' : ~Symmetric(outgoing'[k]) => Renewing' /\ k = Len(outgoing')
                      /\ \/ pending'.kind = "renew" /\ Renewed'
                         \/ keys' = server_keys' /\ \A j \in DOMAIN to_client' : Verifies(to_client[j])'
    BY Zenon DEF SameKeys, Symmetric
  <2>1. \A k \in DOMAIN outgoing : ~Symmetric(outgoing[k]) => Renewing /\ k = Len(outgoing)
    BY Zenon DEF Keys, SameKeys
  <2>2. \A k \in DOMAIN outgoing' : ~Symmetric(outgoing'[k]) => Renewing' /\ k = Len(outgoing')
    BY <1>1, <1>2, <2>1
  <2>3. keys = server_keys /\ \A j \in DOMAIN to_client : Verifies(to_client[j])
    <3>1. pending.kind = "renew" => ~Renewed
      BY <1>5 DEF Renewed, Renewing, NoAnswer
    <3> QED BY <3>1, Zenon DEF Keys, SameKeys
  <2>4. CASE ~Symmetric(r) /\ m.answer.ok /\ r.kind # "publish"
    <3>1. Renewing /\ 1 = Len(outgoing) /\ r.h = pending.h /\ r.kind = pending.kind
      BY <1>2, <1>5, <2>1, <2>4
    <3>2. m.answer.h = pending.h /\ n + 1 \in DOMAIN to_client'
      BY <1>4, <1>6, <2>4, <3>1
    <3>3. Renewed'
      BY <1>1, <2>4, <3>2, Zenon DEF Renewed
    <3>4. pending.kind = "renew" \/ pending.kind = "open"
      BY <3>1, Zenon DEF Renewing
    <3> QED BY <1>1, <2>2, <3>3, <3>4, Zenon
  <2>5. CASE Symmetric(r) \/ ~m.answer.ok \/ r.kind = "publish"
    <3>1. server_keys' = server_keys
      BY <1>6, <2>5, Zenon DEF Symmetric
    <3>2. ASSUME NEW j \in DOMAIN to_client' PROVE to_client'[j].key \in {NoKeys, keys}
      <4>1. CASE j \in DOMAIN to_client
        BY <1>6, <2>3, <2>5, <4>1, ZenonT(30) DEF Verifies, Symmetric
      <4>2. CASE j \notin DOMAIN to_client
        BY <1>4, <1>6, <2>3, <4>2
      <4> QED BY <4>1, <4>2, Zenon
    <3> QED BY <2>2, <2>3, <3>1, <3>2, Zenon DEF Verifies
  <2> QED BY <2>4, <2>5, Zenon
<1> QED BY <1>7, <1>8, <1>9, <1>10, Zenon DEF Keys

\* The reader takes an answer; the one that is waited for goes to the mailbox.
LEMMA KeysRead ==
    ASSUME Good, Reads,
           UNCHANGED <<local_nonce, keys, server_keys, in_step, thread>>
    PROVE  GoodKeys'
<1> SUFFICES ASSUME TypeOK, Messages, Keys PROVE Keys'
  BY Zenon DEF Good, Inv, GoodKeys
<1> DEFINE a == to_client[1].answer
           mine == {i \in inflight : i.h = a.h}
<1>1. /\ to_client \in Seq(Message) /\ to_client # <<>> /\ to_client' = Tail(to_client)
      /\ UNCHANGED <<outgoing, pending>> /\ (Renewing' <=> Renewing)
      /\ inflight \in SUBSET [h : Nat, sync : BOOLEAN]
  BY Zenon DEF TypeOK, Reads, Message, Renewing, Handles
<1>2. /\ DOMAIN to_client' = 1 .. Len(to_client) - 1 /\ DOMAIN to_client = 1 .. Len(to_client)
      /\ Len(to_client) \in Nat \ {0} /\ 1 \in DOMAIN to_client /\ Head(to_client).answer = a
      /\ \A k \in DOMAIN to_client' : to_client'[k] = to_client[k + 1] /\ k + 1 \in DOMAIN to_client
  BY <1>1, Taken
<1>3. mailbox' = IF \E i \in mine : i.sync THEN a ELSE mailbox
  BY <1>2, Zenon DEF Reads, StoreResponse
<1>4. Renewing => Waits
  BY DEF Renewing, Waits, NoWait
<1>5. \A j \in DOMAIN to_client' : Current(to_client[j])' <=> Current(to_client[j + 1])
  BY <1>2, Zenon DEF Current
<1>6. NonceSent'
  BY <1>1, Zenon DEF Keys, NonceSent
<1>7. NonceReturned'
  <2> SUFFICES ASSUME Renewing, NEW j \in DOMAIN to_client', to_client'[j].answer.h = pending.h
               PROVE  /\ outgoing = <<>>
                      /\ to_client'[j].answer.ok =>
                            /\ to_client'[j].answer.data = local_nonce
                            /\ server_keys = <<local_nonce, local_nonce>>
                            /\ \A k \in DOMAIN to_client' : k > j => Current(to_client[k])'
    BY <1>1, Zenon DEF NonceReturned
  <2>1. j + 1 \in DOMAIN to_client /\ to_client'[j] = to_client[j + 1]
    BY <1>2, Zenon
  <2>2. /\ outgoing = <<>>
        /\ to_client[j + 1].answer.ok =>
              /\ to_client[j + 1].answer.data = local_nonce
              /\ server_keys = <<local_nonce, local_nonce>>
              /\ \A k \in DOMAIN to_client : k > j + 1 => Current(to_client[k])
    BY <2>1, Zenon DEF Keys, NonceReturned
  <2>3. \A k \in DOMAIN to_client' : k > j => k + 1 > j + 1 /\ k + 1 \in DOMAIN to_client
    BY <1>2
  <2> QED BY <1>5, <2>1, <2>2, <2>3, Zenon
<1>8. CASE Waits /\ a.h = pending.h
  <2>1. mailbox = NoAnswer
    BY <1>2, <1>8, Zenon DEF Messages, AnswerOK
  <2>2. [h |-> pending.h, sync |-> TRUE] \in mine
    BY <1>8, <2>1, Zenon DEF Messages, WaitIsOwn
  <2>3. mailbox' = a
    BY <1>3, <2>2, Zenon
  <2>4. Renewing => /\ outgoing = <<>>
                    /\ a.ok => /\ a.data = local_nonce /\ server_keys = <<local_nonce, local_nonce>>
                               /\ \A k \in DOMAIN to_client : k > 1 => Current(to_client[k])
    BY <1>2, <1>8, Zenon DEF Keys, NonceReturned
  <2>5. \A k \in DOMAIN to_client' : k + 1 > 1 /\ k + 1 \in DOMAIN to_client
    BY <1>2
  <2>6. NonceReceived'
    BY <1>1, <1>5, <2>3, <2>4, <2>5, Zenon DEF NonceReceived
  <2>7. SameKeys'
    <3>1. Renewed /\ ~a.ok => FALSE
      <4>1. \A k \in DOMAIN to_client : to_client[k].answer.h = pending.h => k = 1
        BY <1>2, <1>8, Zenon DEF Messages, AnswerOK
      <4> QED BY <2>1, <4>1, Zenon DEF Renewed, NoAnswer
    <3>2. Renewed => Renewed'
      BY <2>3, <3>1, Zenon DEF Renewed
    <3>3. (\A j \in DOMAIN to_client : Verifies(to_client[j])) =>
             \A j \in DOMAIN to_client' : Verifies(to_client[j])'
      BY <1>2, Zenon DEF Verifies
    <3> QED BY <1>1, <3>2, <3>3, Zenon DEF Keys, SameKeys, Symmetric
  <2> QED BY <1>6, <1>7, <2>6, <2>7, Zenon DEF Keys
<1>9. CASE ~(Waits /\ a.h = pending.h)
  <2>1. mailbox' = mailbox
    BY <1>3, <1>9, Zenon DEF Messages, EntriesAreOwn
  <2>2. NonceReceived'
    BY <1>1, <1>2, <1>5, <2>1, Zenon DEF Keys, NonceReceived
  <2>3. SameKeys'
    <3>1. pending.kind = "renew" /\ Renewed => Renewed'
      <4> SUFFICES ASSUME pending.kind = "renew",
                          NEW j \in DOMAIN to_client, to_client[j].answer.h = pending.h,
                          to_client[j].answer.ok
                   PROVE  Renewed'
        BY <2>1, Zenon DEF Renewed
      <4>1. j # 1
        BY <1>4, <1>9, Zenon DEF Renewing
      <4>2. j - 1 \in DOMAIN to_client' /\ to_client'[j - 1] = to_client[(j - 1) + 1] /\ (j - 1) + 1 = j
        BY <1>2, <4>1
      <4> QED BY <1>1, <4>2, Zenon DEF Renewed
    <3>2. (\A j \in DOMAIN to_client : Verifies(to_client[j])) =>
             \A j \in DOMAIN to_client' : Verifies(to_client[j])'
      BY <1>2, Zenon DEF Verifies
    <3> QED BY <1>1, <3>1, <3>2, Zenon DEF Keys, SameKeys, Symmetric
  <2> QED BY <1>6, <1>7, <2>2, <2>3, Zenon DEF Keys
<1> QED BY <1>8, <1>9, Zenon

-----------------------------------------------------------------------------
(* The acknowledgements under each effect                                  *)

\* The places of acknowledgements, one by one.
LEMMA AcksAtPlaces ==
    ASSUME outgoing \in Seq(Request)
    PROVE  /\ AcksAt(-2) = acked \cup refused /\ AcksAt(-1) = acks /\ AcksAt(0) = pending.then.acks
           /\ \A p \in DOMAIN outgoing : AcksAt(p) = outgoing[p].acks
           /\ Places = {-2, -1, 0} \cup DOMAIN outgoing
           /\ DOMAIN outgoing = 1 .. Len(outgoing) /\ Len(outgoing) \in Nat
<1>1. DOMAIN outgoing = 1 .. Len(outgoing) /\ Len(outgoing) \in Nat
  BY Elements, Zenon
<1> QED BY <1>1 DEF AcksAt, Places

\* The same after a step.
LEMMA AcksAtPlacesAfter ==
    ASSUME outgoing' \in Seq(Request)
    PROVE  /\ AcksAt(-2)' = acked' \cup refused' /\ AcksAt(-1)' = acks' /\ AcksAt(0)' = pending'.then.acks
           /\ \A p \in DOMAIN outgoing' : AcksAt(p)' = outgoing'[p].acks
           /\ Places' = {-2, -1, 0} \cup DOMAIN outgoing'
           /\ DOMAIN outgoing' = 1 .. Len(outgoing') /\ Len(outgoing') \in Nat
<1>1. DOMAIN outgoing' = 1 .. Len(outgoing') /\ Len(outgoing') \in Nat
  BY Elements, Zenon
<1> QED BY <1>1 DEF AcksAt, Places

\* No notification moves, and no acknowledgement comes up anew.
LEMMA AcksMove ==
    ASSUME Good,
           answers' = answers,
           \A n \in Numbers : /\ OnWire(n)' => OnWire(n)
                              /\ Received(n)' => Received(n)
                              /\ Carried(n)' => Carried(n)
                              /\ n \in handled' => n \in handled
                              /\ SentOnce(n)' /\ ReceivedOnce(n)',
           ReceivedToHandle', AcksAreKept'
    PROVE  GoodAcks'
<1> SUFFICES ASSUME Acknowledgements, TypeOK PROVE Acknowledgements'
  BY Zenon DEF Good, Inv, GoodAcks
<1>1. ASSUME NEW n \in Numbers PROVE InOnePlace(n)'
  <2>1. InOnePlace(n)
    BY Zenon DEF Acknowledgements
  <2> QED BY <2>1, Zenon DEF InOnePlace
<1> QED BY <1>1, Zenon DEF Acknowledgements

\* What was received stays as it is.
LEMMA ReceivedKept ==
    ASSUME Good, UNCHANGED <<responses, batch>>
    PROVE  /\ ReceivedToHandle'
           /\ \A n \in Numbers : (Received(n)' <=> Received(n)) /\ ReceivedOnce(n)'
<1> Acknowledgements
  BY Zenon DEF Good, Inv
<1>1. \A n \in Numbers : ReceivedOnce(n)
  BY Zenon DEF Acknowledgements, InOnePlace
<1>2. \A n \in Numbers : (Received(n)' <=> Received(n)) /\ ReceivedOnce(n)'
  BY <1>1, Zenon DEF Received, ReceivedOnce, Notifies
<1> QED BY <1>2, Zenon DEF Acknowledgements, ReceivedToHandle

\* No notification was put on the wire.
LEMMA WireKept ==
    ASSUME Good,
           \A j \in DOMAIN to_client' :
              \/ j \in DOMAIN to_client /\ to_client'[j].answer = to_client[j].answer
              \/ ~to_client'[j].answer.again
    PROVE  \A n \in Numbers : (OnWire(n)' => OnWire(n)) /\ SentOnce(n)'
<1> Acknowledgements
  BY Zenon DEF Good, Inv
<1> TAKE n \in Numbers
<1>1. SentOnce(n)
  BY Zenon DEF Acknowledgements, InOnePlace
<1> QED BY <1>1, Zenon DEF OnWire, SentOnce, Notifies

\* Every place keeps what it has, or the connection ends.
LEMMA AcksKept ==
    ASSUME Good, UNCHANGED <<outgoing, acked, refused, answers, to_client, responses, batch>>,
           acks' = acks \/ (acks' = {} /\ thread' # "looping"),
           pending'.then.acks = pending.then.acks,
           handled' = handled \/ handled' = {},
           thread' = thread \/ thread' # "looping" \/ handled' = {}
    PROVE  GoodAcks'
<1> SUFFICES ASSUME TypeOK, Acknowledgements PROVE Acknowledgements'
  BY Zenon DEF Good, Inv, GoodAcks
<1>1. outgoing \in Seq(Request) /\ outgoing' \in Seq(Request)
  BY Zenon DEF TypeOK
<1>2. Places' = Places /\ \A p \in Places : AcksAt(p)' \subseteq AcksAt(p)
  BY <1>1, AcksAtPlaces, AcksAtPlacesAfter, ZenonT(30)
<1>3. thread' = "looping" => \A p \in Places : AcksAt(p)' = AcksAt(p)
  BY <1>1, AcksAtPlaces, AcksAtPlacesAfter, Zenon
<1>4. AcksAreKept'
  BY <1>2, <1>3 DEF Acknowledgements, AcksAreKept
<1>5. \A n \in Numbers : Carried(n)' => Carried(n)
  BY <1>2, Zenon DEF Carried
<1> QED BY <1>4, <1>5, ReceivedKept, WireKept, AcksMove, Zenon DEF GoodAcks

\* A request without acknowledgements is queued; nobody waited.
LEMMA AcksUndisturbed ==
    ASSUME Good, pending = NoWait, NEW r \in Request, r.acks = {},
           outgoing' = IF sender = "open" THEN Append(outgoing, r) ELSE outgoing,
           pending'.then.acks = {},
           UNCHANGED <<acks, acked, refused, answers, to_client, responses, batch, handled, thread>>
    PROVE  GoodAcks'
<1> SUFFICES ASSUME TypeOK, Acknowledgements PROVE Acknowledgements'
  BY Zenon DEF Good, Inv, GoodAcks
<1>1. outgoing \in Seq(Request) /\ outgoing' \in Seq(Request)
  BY Appended, Zenon DEF TypeOK
<1>2. pending.then.acks = {}
  BY Zenon DEF NoWait, NoRequest
<1>3. /\ DOMAIN outgoing \subseteq DOMAIN outgoing'
      /\ \A p \in DOMAIN outgoing : outgoing'[p] = outgoing[p]
      /\ \A p \in DOMAIN outgoing' : p \notin DOMAIN outgoing => outgoing'[p].acks = {}
  BY <1>1, Appended
<1>4. /\ Places \subseteq Places' /\ \A p \in Places : AcksAt(p)' = AcksAt(p)
      /\ \A p \in Places' : p \notin Places => AcksAt(p)' = {}
  <2>1. /\ Places = {-2, -1, 0} \cup DOMAIN outgoing /\ Places' = {-2, -1, 0} \cup DOMAIN outgoing'
        /\ AcksAt(-2)' = AcksAt(-2) /\ AcksAt(-1)' = AcksAt(-1) /\ AcksAt(0)' = AcksAt(0)
    BY <1>1, <1>2, AcksAtPlaces, AcksAtPlacesAfter, ZenonT(30)
  <2>2. /\ \A p \in DOMAIN outgoing : AcksAt(p)' = AcksAt(p)
        /\ \A p \in DOMAIN outgoing' : p \notin DOMAIN outgoing => AcksAt(p)' = {}
    BY <1>1, <1>3, AcksAtPlaces, AcksAtPlacesAfter, SMTT(30)
  <2> QED BY <1>3, <2>1, <2>2, Zenon
<1>5. AcksAreKept'
  BY <1>4, SMTT(30) DEF Acknowledgements, AcksAreKept
<1>6. \A n \in Numbers : Carried(n)' => Carried(n)
  BY <1>4, Zenon DEF Carried
<1> QED BY <1>5, <1>6, ReceivedKept, WireKept, AcksMove, ZenonT(30) DEF GoodAcks

\* The connection is gone: what was on its way is lost.
LEMMA AcksDropped ==
    ASSUME Good, Drops
    PROVE  GoodAcks'
<1> SUFFICES ASSUME TypeOK, Acknowledgements PROVE Acknowledgements'
  BY Zenon DEF Good, Inv, GoodAcks
<1>1. /\ outgoing \in Seq(Request) /\ outgoing' \in Seq(Request)
      /\ DOMAIN outgoing' = {} /\ DOMAIN to_client' = {} /\ handled' = {} /\ thread' # "looping"
      /\ UNCHANGED <<pending, acks, acked, refused, answers, responses, batch>>
  BY DEF TypeOK, Drops
<1>2. Places' \subseteq Places /\ \A p \in Places' : AcksAt(p)' = AcksAt(p)
  BY <1>1, AcksAtPlaces, AcksAtPlacesAfter, Zenon
<1>3. AcksAreKept'
  BY <1>1, <1>2, Zenon DEF Acknowledgements, AcksAreKept
<1>4. \A n \in Numbers : Carried(n)' => Carried(n)
  BY <1>2, Zenon DEF Carried
<1> QED BY <1>1, <1>3, <1>4, ReceivedKept, WireKept, AcksMove, Zenon DEF GoodAcks

\* The server takes or refuses a request, and with it the acknowledgements it carries.
LEMMA AcksTaken ==
    ASSUME Good, Takes,
           UNCHANGED <<acks, answers, responses, batch, handled, thread>>
    PROVE  GoodAcks'
<1> SUFFICES ASSUME TypeOK, Messages, Acknowledgements PROVE Acknowledgements'
  BY Zenon DEF Good, Inv, GoodAcks
<1> DEFINE r == outgoing[1]
<1>1. /\ outgoing \in Seq(Request) /\ outgoing # <<>> /\ outgoing' = Tail(outgoing)
      /\ UNCHANGED pending
  BY Zenon DEF TypeOK, Takes
<1>2. /\ outgoing' \in Seq(Request) /\ DOMAIN outgoing' = 1 .. Len(outgoing) - 1
      /\ DOMAIN outgoing = 1 .. Len(outgoing) /\ Len(outgoing) \in Nat \ {0}
      /\ \A k \in DOMAIN outgoing' : outgoing'[k] = outgoing[k + 1] /\ k + 1 \in DOMAIN outgoing
  BY <1>1, Taken, Zenon
<1>3. 1 \in DOMAIN outgoing /\ (r.kind # "publish" => r.acks = {})
  <2>1. 1 \in DOMAIN outgoing
    BY <1>2
  <2>2. \A k \in DOMAIN outgoing : RequestOK(k)
    BY Zenon DEF Messages
  <2> QED BY <2>1, <2>2, ZenonT(30) DEF RequestOK
<1>4. acked' \cup refused' = (acked \cup refused) \cup r.acks
  <2>1. \/ acked' = acked \cup r.acks /\ refused' = refused
        \/ acked' = acked /\ refused' = refused \cup r.acks
        \/ acked' = acked /\ refused' = refused /\ r.acks = {}
    BY <1>3, WireAfterTaking, Zenon
  <2> QED BY <2>1
<1>5. \A j \in DOMAIN to_client' :
              \/ j \in DOMAIN to_client /\ to_client'[j].answer = to_client[j].answer
              \/ ~to_client'[j].answer.again
  <2>1. DOMAIN to_client = 1 .. Len(to_client) /\ Len(to_client) \in Nat
    BY Elements, Zenon DEF TypeOK
  <2>2. CASE UNCHANGED to_client
    BY <2>2, Zenon
  <2>3. CASE /\ DOMAIN to_client' = 1 .. Len(to_client) + 1
             /\ \A j \in DOMAIN to_client : to_client'[j].answer = to_client[j].answer
             /\ ~to_client'[Len(to_client) + 1].answer.again
    <3>1. \A j \in DOMAIN to_client' : j \in DOMAIN to_client \/ j = Len(to_client) + 1
      BY <2>1, <2>3
    <3> QED BY <2>3, <3>1, Zenon
  <2> QED BY <2>2, <2>3, WireAfterTaking, Zenon
<1>6. /\ Places = {-2, -1, 0} \cup DOMAIN outgoing /\ Places' = {-2, -1, 0} \cup DOMAIN outgoing'
      /\ AcksAt(-2)' = AcksAt(-2) \cup AcksAt(1)
      /\ AcksAt(-1)' = AcksAt(-1) /\ AcksAt(0)' = AcksAt(0)
  BY <1>1, <1>2, <1>3, <1>4, AcksAtPlaces, AcksAtPlacesAfter, Zenon
<1>7. \A p \in DOMAIN outgoing' : AcksAt(p)' = AcksAt(p + 1)
  BY <1>1, <1>2, AcksAtPlaces, AcksAtPlacesAfter, ZenonT(30)
<1>8. ASSUME NEW p \in Places', NEW n, n \in AcksAt(p)'
      PROVE  \/ p \in {-2, -1, 0} /\ n \in AcksAt(p)
             \/ p = -2 /\ n \in AcksAt(1)
             \/ p \in DOMAIN outgoing' /\ n \in AcksAt(p + 1)
  BY <1>6, <1>7, <1>8, Zenon
<1>9. \A p, q \in Places' : p # q => AcksAt(p)' \cap AcksAt(q)' = {}
  <2> SUFFICES ASSUME NEW p \in Places', NEW q \in Places', NEW n,
                      n \in AcksAt(p)', n \in AcksAt(q)'
               PROVE  p = q
    BY Zenon
  <2>1. \A x, y \in Places : n \in AcksAt(x) /\ n \in AcksAt(y) => x = y
    BY Zenon DEF Acknowledgements, AcksAreKept
  <2> QED BY <1>2, <1>3, <1>6, <1>8, <2>1
<1>10. ASSUME NEW n PROVE (\E p \in Places' : n \in AcksAt(p)') <=> \E p \in Places : n \in AcksAt(p)
  <2>1. ASSUME NEW p \in Places', n \in AcksAt(p)' PROVE \E q \in Places : n \in AcksAt(q)
    BY <1>2, <1>3, <1>6, <1>8, <2>1, Zenon
  <2>2. ASSUME NEW p \in Places, n \in AcksAt(p) PROVE \E q \in Places' : n \in AcksAt(q)'
    <3>1. CASE p \in {-2, -1, 0} \/ p = 1
      BY <1>6, <2>2, <3>1, Zenon
    <3>2. CASE p \in DOMAIN outgoing /\ p # 1
      <4>1. p - 1 \in DOMAIN outgoing' /\ (p - 1) + 1 = p
        BY <1>2, <3>2
      <4>2. n \in AcksAt(p - 1)'
        BY <1>7, <2>2, <4>1, Zenon
      <4> QED BY <1>6, <4>1, <4>2, Zenon
    <3> QED BY <1>6, <3>1, <3>2, Zenon
  <2> QED BY <2>1, <2>2, Zenon
<1>11. AcksAreKept'
  BY <1>9, <1>10, Zenon DEF Acknowledgements, AcksAreKept
<1>12. \A n \in Numbers : Carried(n)' => Carried(n)
  BY <1>10, Zenon DEF Carried
<1> QED BY <1>5, <1>11, <1>12, ReceivedKept, WireKept, AcksMove, Zenon DEF GoodAcks

\* The request that waited for the renewal is queued.
LEMMA AcksRenewed ==
    ASSUME Good, pending.then \in Request,
           outgoing' = IF sender = "open" THEN Append(outgoing, pending.then) ELSE outgoing,
           pending'.then.acks = {},
           sender = "open" \/ thread # "looping",
           UNCHANGED <<acks, acked, refused, answers, to_client, responses, batch, handled, thread>>
    PROVE  GoodAcks'
<1> SUFFICES ASSUME TypeOK, Acknowledgements PROVE Acknowledgements'
  BY Zenon DEF Good, Inv, GoodAcks
<1> DEFINE new == Len(outgoing) + 1
<1>1. outgoing \in Seq(Request) /\ outgoing' \in Seq(Request)
  BY Appended, Zenon DEF TypeOK
<1>2. /\ DOMAIN outgoing = 1 .. Len(outgoing) /\ Len(outgoing) \in Nat
      /\ DOMAIN outgoing' = 1 .. (IF sender = "open" THEN new ELSE Len(outgoing))
      /\ \A p \in DOMAIN outgoing : p \in DOMAIN outgoing' /\ outgoing'[p] = outgoing[p]
      /\ \A p \in DOMAIN outgoing' :
            p \notin DOMAIN outgoing => p = new /\ outgoing'[p] = pending.then
  BY <1>1, Appended, Elements
<1>3. /\ Places = {-2, -1, 0} \cup DOMAIN outgoing /\ Places' = {-2, -1, 0} \cup DOMAIN outgoing'
      /\ AcksAt(-2)' = AcksAt(-2) /\ AcksAt(-1)' = AcksAt(-1) /\ AcksAt(0)' = {}
  BY <1>1, AcksAtPlaces, AcksAtPlacesAfter, ZenonT(30)
<1>4. /\ \A p \in DOMAIN outgoing : AcksAt(p)' = AcksAt(p)
      /\ \A p \in DOMAIN outgoing' : p \notin DOMAIN outgoing => p = new /\ AcksAt(p)' = AcksAt(0)
  BY <1>1, <1>2, AcksAtPlaces, AcksAtPlacesAfter
<1>5. ASSUME NEW p \in Places', NEW n, n \in AcksAt(p)'
      PROVE  \/ p \in Places \ {0} /\ n \in AcksAt(p)
             \/ p = new /\ p \notin Places /\ n \in AcksAt(0)
  BY <1>2, <1>3, <1>4, <1>5, Zenon
<1>6. \A p, q \in Places' : p # q => AcksAt(p)' \cap AcksAt(q)' = {}
  <2> SUFFICES ASSUME NEW p \in Places', NEW q \in Places', NEW n,
                      n \in AcksAt(p)', n \in AcksAt(q)'
               PROVE  p = q
    BY Zenon
  <2>1. \A x, y \in Places : n \in AcksAt(x) /\ n \in AcksAt(y) => x = y
    BY Zenon DEF Acknowledgements, AcksAreKept
  <2>2. 0 \in Places
    BY <1>3, Zenon
  <2> QED BY <1>5, <2>1, <2>2, Zenon
<1>7. ASSUME thread = "looping", NEW p \in Places, NEW n \in AcksAt(p)
      PROVE  \E q \in Places' : n \in AcksAt(q)'
  <2>1. sender = "open" /\ new \in DOMAIN outgoing' /\ new \notin DOMAIN outgoing
    BY <1>2, <1>7
  <2>2. CASE p = 0
    BY <1>3, <1>4, <1>7, <2>1, <2>2, ZenonT(30)
  <2>3. CASE p # 0
    BY <1>2, <1>3, <1>4, <1>7, <2>3
  <2> QED BY <2>2, <2>3, ZenonT(30)
<1>8. AcksAreKept'
  BY <1>6, <1>7, Zenon DEF Acknowledgements, AcksAreKept
<1>9. \A n \in Numbers : Carried(n)' => Carried(n)
  BY <1>3, <1>5, ZenonT(30) DEF Carried
<1> QED BY <1>8, <1>9, ReceivedKept, WireKept, AcksMove, Zenon DEF GoodAcks

\* The queue is cleared of what was not handled yet.
LEMMA AcksCleared ==
    ASSUME Good, responses' = {}, thread' # "looping",
           acks' = acks \/ acks' = {},
           UNCHANGED <<outgoing, pending, acked, refused, answers, to_client, batch, handled>>
    PROVE  GoodAcks'
<1> SUFFICES ASSUME TypeOK, Acknowledgements PROVE Acknowledgements'
  BY Zenon DEF Good, Inv, GoodAcks
<1>1. outgoing \in Seq(Request) /\ outgoing' \in Seq(Request)
  BY Zenon DEF TypeOK
<1>2. Places' = Places /\ \A p \in Places : AcksAt(p)' \subseteq AcksAt(p)
  BY <1>1, AcksAtPlaces, AcksAtPlacesAfter, ZenonT(30)
<1>3. AcksAreKept'
  BY <1>2, Zenon DEF Acknowledgements, AcksAreKept
<1>4. \A n \in Numbers : Carried(n)' => Carried(n)
  BY <1>2, Zenon DEF Carried
<1>5. \A n \in Numbers : (Received(n)' => Received(n)) /\ ReceivedOnce(n)'
  <2>1. \A n \in Numbers : ReceivedOnce(n)
    BY Zenon DEF Acknowledgements, InOnePlace
  <2> QED BY <2>1, Zenon DEF Received, ReceivedOnce, Notifies
<1>6. ReceivedToHandle'
  BY Zenon DEF Acknowledgements, ReceivedToHandle
<1> QED BY <1>3, <1>4, <1>5, <1>6, WireKept, AcksMove, Zenon DEF GoodAcks

\* poll takes what was received.
LEMMA AcksPolled ==
    ASSUME Good, batch = {}, batch' = responses, responses' = {},
           UNCHANGED <<outgoing, pending, acks, acked, refused, answers, to_client, handled, thread>>
    PROVE  GoodAcks'
<1> SUFFICES ASSUME TypeOK, Acknowledgements PROVE Acknowledgements'
  BY Zenon DEF Good, Inv, GoodAcks
<1>1. outgoing \in Seq(Request) /\ outgoing' \in Seq(Request)
  BY Zenon DEF TypeOK
<1>2. Places' = Places /\ \A p \in Places : AcksAt(p)' = AcksAt(p)
  BY <1>1, AcksAtPlaces, AcksAtPlacesAfter, Zenon
<1>3. AcksAreKept' /\ \A n \in Numbers : Carried(n)' => Carried(n)
  BY <1>2 DEF Acknowledgements, AcksAreKept, Carried
<1>4. responses' \cup batch' = responses \cup batch /\ responses' \cap batch' = {}
  BY Zenon
<1>5. \A n \in Numbers : (Received(n)' => Received(n)) /\ ReceivedOnce(n)'
  <2>1. \A n \in Numbers : ReceivedOnce(n)
    BY Zenon DEF Acknowledgements, InOnePlace
  <2> QED BY <1>4, <2>1, ZenonT(30) DEF Received, ReceivedOnce, Notifies
<1>6. ReceivedToHandle'
  BY <1>4, Zenon DEF Acknowledgements, ReceivedToHandle
<1> QED BY <1>3, <1>5, <1>6, WireKept, AcksMove, Zenon DEF GoodAcks

\* The server sends a notification with a new number.
LEMMA AcksAnswered ==
    ASSUME Good, Answers,
           UNCHANGED <<acks, acked, refused, responses, batch, handled, thread>>
    PROVE  GoodAcks'
<1> SUFFICES ASSUME TypeOK, Acknowledgements PROVE Acknowledgements'
  BY ZenonT(30) DEF Good, Inv, GoodAcks
<1> DEFINE m == to_client'[Len(to_client) + 1].answer
<1>1. /\ outgoing \in Seq(Request) /\ outgoing' \in Seq(Request) /\ UNCHANGED <<outgoing, pending>>
      /\ answers \in Nat /\ answers' = answers + 1
  BY DEF TypeOK, Answers
<1>2. Places' = Places /\ \A p \in Places : AcksAt(p)' = AcksAt(p)
  BY <1>1, AcksAtPlaces, AcksAtPlacesAfter, Zenon
<1>3. AcksAreKept' /\ \A n \in Numbers : Carried(n)' => Carried(n)
  BY <1>2 DEF Acknowledgements, AcksAreKept, Carried
<1>4. /\ DOMAIN to_client' = 1 .. Len(to_client) + 1 /\ m.data \in {0, answers + 1}
      /\ \A j \in DOMAIN to_client : to_client'[j] = to_client[j]
      /\ DOMAIN to_client = 1 .. Len(to_client) /\ Len(to_client) \in Nat
  BY WireAfterAnswer, Elements, ZenonT(30) DEF TypeOK
<1>5. ASSUME NEW n \in Numbers PROVE InOnePlace(n)'
  <2>1. InOnePlace(n) /\ n \in Nat /\ n # 0
    BY DEF Acknowledgements, Numbers
  <2>2. ReceivedOnce(n)' /\ (Received(n)' <=> Received(n))
    BY ReceivedKept, Zenon
  <2>3. CASE ~Notifies(m, n)
    <3>1. \A j \in DOMAIN to_client' : Notifies(to_client'[j].answer, n) =>
             j \in DOMAIN to_client /\ Notifies(to_client[j].answer, n)
      BY <1>4, <2>3
    <3>2. (OnWire(n)' => OnWire(n)) /\ SentOnce(n)'
      BY <2>1, <3>1, Zenon DEF OnWire, SentOnce, InOnePlace
    <3> QED BY <1>1, <1>3, <2>1, <2>2, <3>2 DEF InOnePlace
  <2>4. CASE Notifies(m, n)
    <3>1. n = answers + 1
      BY <1>4, <2>1, <2>4, Zenon DEF Notifies
    <3>2. ~OnWire(n) /\ ~Received(n) /\ ~Carried(n) /\ n \notin handled
      BY <1>1, <2>1, <3>1, SMTT(30) DEF InOnePlace
    <3>3. \A j \in DOMAIN to_client' : Notifies(to_client'[j].answer, n) => j = Len(to_client) + 1
      BY <1>4, <3>2 DEF OnWire
    <3>4. SentOnce(n)'
      BY <3>3, Zenon DEF SentOnce
    <3> QED BY <1>1, <1>3, <2>2, <3>1, <3>2, <3>4 DEF InOnePlace
  <2> QED BY <2>3, <2>4, Zenon
<1> QED BY <1>3, <1>5, ReceivedKept, Zenon DEF Acknowledgements

\* The reader stores a response.
LEMMA AcksRead ==
    ASSUME Good, Reads,
           UNCHANGED <<acks, acked, refused, answers, batch, handled, thread>>
    PROVE  GoodAcks'
<1> SUFFICES ASSUME TypeOK, Messages, Acknowledgements PROVE Acknowledgements'
  BY Zenon DEF Good, Inv, GoodAcks
<1> DEFINE a == to_client[1].answer
           mine == {i \in inflight : i.h = a.h}
<1>1. /\ to_client \in Seq(Message) /\ to_client # <<>> /\ to_client' = Tail(to_client)
      /\ outgoing \in Seq(Request) /\ outgoing' \in Seq(Request) /\ UNCHANGED <<outgoing, pending>>
  BY Zenon DEF TypeOK, Reads, Message
<1>2. /\ DOMAIN to_client' = 1 .. Len(to_client) - 1 /\ DOMAIN to_client = 1 .. Len(to_client)
      /\ Len(to_client) \in Nat \ {0} /\ 1 \in DOMAIN to_client /\ Head(to_client).answer = a
      /\ \A k \in DOMAIN to_client' :
            to_client'[k] = to_client[k + 1] /\ k + 1 \in DOMAIN to_client /\ k + 1 # 1
  BY <1>1, Taken
<1>3. responses' = IF \E i \in mine : ~i.sync THEN responses \cup {a} ELSE responses
  BY <1>2, Zenon DEF Reads, StoreResponse
<1>4. Places' = Places /\ \A p \in Places : AcksAt(p)' = AcksAt(p)
  BY <1>1, AcksAtPlaces, AcksAtPlacesAfter, Zenon
<1>5. AcksAreKept' /\ \A n \in Numbers : Carried(n)' => Carried(n)
  BY <1>4 DEF Acknowledgements, AcksAreKept, Carried
<1>6. ReceivedToHandle'
  <2>1. ASSUME NEW i \in mine, ~i.sync, a.data > 0 PROVE a.again /\ a.data \in Numbers
    <3>1. AnswerOK(1)
      BY <1>2, Zenon DEF Messages
    <3>2. a.again /\ a.data \in 0 .. MaxAnswers
      BY <2>1, <3>1, Zenon DEF AnswerOK
    <3> QED BY <2>1, <3>2, ClientAssumption DEF Numbers
  <2> QED BY <1>3, <2>1, Zenon DEF Acknowledgements, ReceivedToHandle
<1>7. ASSUME NEW n \in Numbers PROVE InOnePlace(n)'
  <2>1. InOnePlace(n)
    BY Zenon DEF Acknowledgements
  <2>2. (OnWire(n)' => OnWire(n)) /\ SentOnce(n)'
    <3>1. \A j \in DOMAIN to_client' : Notifies(to_client'[j].answer, n) =>
             j + 1 \in DOMAIN to_client /\ Notifies(to_client[j + 1].answer, n)
      BY <1>2, Zenon
    <3>2. OnWire(n)' => OnWire(n)
      BY <3>1, Zenon DEF OnWire
    <3>3. ASSUME NEW i \in DOMAIN to_client', NEW j \in DOMAIN to_client',
                 Notifies(to_client'[i].answer, n), Notifies(to_client'[j].answer, n)
          PROVE  i = j
      <4>1. i + 1 = j + 1
        BY <2>1, <3>1, <3>3, Zenon DEF InOnePlace, SentOnce
      <4> QED BY <1>2, <4>1
    <3> QED BY <3>2, <3>3, Zenon DEF SentOnce
  <2>3. CASE Notifies(a, n)
    <3>1. OnWire(n) /\ ~Received(n) /\ ~Carried(n)
      BY <1>2, <2>1, <2>3, ZenonT(30) DEF OnWire, InOnePlace
    <3>2. ~OnWire(n)'
      BY <1>2, <2>1, <2>3, Zenon DEF OnWire, SentOnce, InOnePlace
    <3>3. ReceivedOnce(n)'
      BY <1>3, <3>1, Zenon DEF Received, ReceivedOnce
    <3> QED BY <1>5, <2>1, <2>2, <3>1, <3>2, <3>3, Zenon DEF InOnePlace
  <2>4. CASE ~Notifies(a, n)
    <3>1. Received(n)' => Received(n)
      BY <1>3, <2>4, Zenon DEF Received
    <3>2. ReceivedOnce(n)'
      BY <1>3, <2>1, <2>4, Zenon DEF ReceivedOnce, InOnePlace
    <3> QED BY <1>5, <2>1, <2>2, <3>1, <3>2, Zenon DEF InOnePlace
  <2> QED BY <2>3, <2>4, Zenon
<1> QED BY <1>5, <1>6, <1>7, Zenon DEF Acknowledgements

\* A response without data is put aside.
LEMMA AcksPutAside ==
    ASSUME Good, NEW a \in batch, batch' = batch \ {a},
           UNCHANGED <<outgoing, pending, acks, acked, refused, answers, to_client, responses, handled, thread>>
    PROVE  GoodAcks'
<1> SUFFICES ASSUME TypeOK, Acknowledgements PROVE Acknowledgements'
  BY Zenon DEF Good, Inv, GoodAcks
<1>1. outgoing \in Seq(Request) /\ outgoing' \in Seq(Request)
  BY Zenon DEF TypeOK
<1>2. Places' = Places /\ \A p \in Places : AcksAt(p)' = AcksAt(p)
  BY <1>1, AcksAtPlaces, AcksAtPlacesAfter, Zenon
<1>3. AcksAreKept' /\ \A n \in Numbers : Carried(n)' => Carried(n)
  BY <1>2 DEF Acknowledgements, AcksAreKept, Carried
<1>4. \A n \in Numbers : (Received(n)' => Received(n)) /\ ReceivedOnce(n)'
  <2>1. \A n \in Numbers : ReceivedOnce(n)
    BY Zenon DEF Acknowledgements, InOnePlace
  <2> QED BY <2>1, Zenon DEF Received, ReceivedOnce, Notifies
<1>5. ReceivedToHandle'
  BY Zenon DEF Acknowledgements, ReceivedToHandle
<1> QED BY <1>3, <1>4, <1>5, WireKept, AcksMove, Zenon DEF GoodAcks

\* The acknowledgements that waited, with those of the response just handled,
\* go to one place: the new publish request, or the one behind a renewal.
LEMMA AcksDrained ==
    ASSUME Good, pending.then.acks = {},
           NEW A \in SUBSET Numbers, NEW w,
           \A n \in A : n <= answers /\ ~OnWire(n) /\ ~Carried(n) /\ ~Received(n)',
           batch' \subseteq batch,
           w \notin Places \ {-1, 0},
           \A p \in Places' :
              p # w => AcksAt(p)' = IF p \in Places \ {-1, 0} THEN AcksAt(p) ELSE {},
           w \in Places' => AcksAt(w)' = acks \cup A,
           Places \subseteq Places',
           thread # "looping" \/ acks \cup A = {} \/ w \in Places',
           outgoing \in Seq(Request),
           UNCHANGED <<acked, refused, answers, to_client, responses, thread>>, handled' = handled \cup A
    PROVE  GoodAcks'
<1> SUFFICES ASSUME TypeOK, Acknowledgements PROVE Acknowledgements'
  BY Zenon DEF Good, Inv, GoodAcks
<1>1. /\ {-2, -1, 0} \subseteq Places /\ AcksAt(-1) = acks /\ AcksAt(0) = {}
  BY AcksAtPlaces, Zenon
<1>2. ASSUME NEW p \in Places', NEW n, n \in AcksAt(p)'
      PROVE  \/ p # w /\ p \in Places \ {-1, 0} /\ n \in AcksAt(p)
             \/ p = w /\ n \in AcksAt(-1) /\ n \notin A
             \/ p = w /\ n \in A
  BY <1>1, <1>2, Zenon
<1>3. \A p, q \in Places : \A n : n \in AcksAt(p) /\ n \in AcksAt(q) => p = q
  BY Zenon DEF Acknowledgements, AcksAreKept
<1>4. \A n \in A, p \in Places : n \notin AcksAt(p)
  BY Zenon DEF Carried
<1>5. ASSUME NEW p \in Places', NEW q \in Places', NEW n, n \in AcksAt(p)', n \in AcksAt(q)'
      PROVE  p = q
  BY <1>1, <1>2, <1>3, <1>4, <1>5, Zenon
<1>6. ASSUME thread = "looping", NEW n \in handled \cup A
      PROVE  \E p \in Places' : n \in AcksAt(p)'
  <2>1. CASE n \in A
    BY <1>6, <2>1, Zenon
  <2>2. CASE n \in handled
    <3>1. PICK p \in Places : n \in AcksAt(p)
      BY <1>6, <2>2, Zenon DEF Acknowledgements, AcksAreKept
    <3>2. CASE p \in {-1, 0}
      BY <1>1, <1>6, <3>1, <3>2, Zenon
    <3>3. CASE p \notin {-1, 0}
      <4>1. p # w /\ p \in Places'
        BY <3>1, <3>3, Zenon
      <4> QED BY <3>1, <3>3, <4>1, Zenon
    <3> QED BY <3>2, <3>3, Zenon
  <2> QED BY <1>6, <2>1, <2>2, Zenon
<1>7. AcksAreKept'
  BY <1>5, <1>6, Zenon DEF AcksAreKept
<1>8. ReceivedToHandle'
  BY Zenon DEF Acknowledgements, ReceivedToHandle
<1>9. ASSUME NEW n \in Numbers PROVE InOnePlace(n)'
  <2>1. InOnePlace(n)
    BY Zenon DEF Acknowledgements
  <2>2. (OnWire(n)' <=> OnWire(n)) /\ SentOnce(n)'
    BY <2>1, Zenon DEF InOnePlace, OnWire, SentOnce, Notifies
  <2>3. (Received(n)' => Received(n)) /\ ReceivedOnce(n)'
    BY <2>1, Zenon DEF InOnePlace, Received, ReceivedOnce, Notifies
  <2>4. CASE n \in A
    BY <2>2, <2>3, <2>4, Zenon DEF InOnePlace
  <2>5. CASE n \notin A
    <3>1. Carried(n)' => Carried(n)
      BY <1>1, <1>2, <2>5, Zenon DEF Carried
    <3> QED BY <2>1, <2>2, <2>3, <2>5, <3>1, Zenon DEF InOnePlace
  <2> QED BY <2>4, <2>5, Zenon
<1> QED BY <1>7, <1>8, <1>9, Zenon DEF Acknowledgements

-----------------------------------------------------------------------------
(* Sending                                                                 *)

Wait == [by : {"none", "app", "poll", "task"}, kind : Kinds, h : Handles,
         expired : BOOLEAN, then : Request]

\* What a step that sends leaves alone, and the types of what it changes.
SendsOnly == UNCHANGED <<to_client, mailbox, held, keys, server_keys, in_step, thread>>

SentTypes ==
    /\ outgoing' \in Seq(Request) /\ inflight' \in SUBSET [h : Handles, sync : BOOLEAN]
    /\ handle' \in Handles /\ pending' \in Wait /\ panicked' \in BOOLEAN
    /\ local_nonce' \in Nonces /\ renewals' \in 0 .. MaxRenewals
    /\ sender' = sender /\ (sender # "open" => outgoing' = outgoing)

\* Nobody waits: no entry is synchronous and no answer is in the mailbox.
LEMMA NobodyWaits ==
    ASSUME Good, pending = NoWait
    PROVE  mailbox = NoAnswer /\ \A i \in inflight : ~i.sync
<1> Messages
  BY ZenonT(30) DEF Good, Inv
<1> QED BY Zenon DEF Messages, WaitIsOwn, EntriesAreOwn, Waits

\* A handle above request_handle is in use nowhere.
LEMMA NewHandleIsUnused ==
    ASSUME Good, NEW h \in Nat, h > handle
    PROVE  Unused(h)
<1> TypeOK /\ Messages
  BY Zenon DEF Good, Inv
<1>1. handle \in Nat /\ outgoing \in Seq(Request)
  BY Zenon DEF TypeOK, Handles
<1>2. \A k \in DOMAIN outgoing : outgoing[k] \in Request /\ outgoing[k].h <= handle
  BY <1>1, Elements, Zenon DEF Messages, RequestOK
<1>3. \A k \in DOMAIN outgoing : outgoing[k].h # h
  BY <1>1, <1>2, SMTT(30) DEF Request, Handles
<1> QED BY <1>1, <1>3 DEF Messages, AnswerOK, EntriesAreOwn, Unused

\* The queue after a request was offered to it has requests only.
LEMMA QueueIsTyped ==
    ASSUME outgoing \in Seq(Request), inflight \in SUBSET [h : Handles, sync : BOOLEAN],
           NEW r \in Request, NEW entries, entries \subseteq inflight,
           outgoing' = IF sender = "open" THEN Append(outgoing, r) ELSE outgoing,
           inflight' = entries \cup {[h |-> r.h, sync |-> r.kind \in SyncKinds]}
    PROVE  outgoing' \in Seq(Request) /\ inflight' \in SUBSET [h : Handles, sync : BOOLEAN]
<1>1. outgoing' \in Seq(Request)
  BY Appended, Zenon
<1>2. r.h \in Handles
  BY Zenon DEF Request
<1>3. \A b \in BOOLEAN : [h |-> r.h, sync |-> b] \in [h : Handles, sync : BOOLEAN]
  BY <1>2, ZenonT(30)
<1>4. (r.kind \in SyncKinds) \in BOOLEAN
  BY SMTT(30)
<1>5. [h |-> r.h, sync |-> r.kind \in SyncKinds] \in [h : Handles, sync : BOOLEAN]
  BY <1>3, <1>4, Zenon
<1> QED BY <1>1, <1>5, Zenon

\* What a wait for a request says.
LEMMA WaitMade ==
    ASSUME NEW by \in {"app", "poll", "task"}, NEW kind \in Kinds, NEW h \in Handles,
           NEW next \in Request, NEW w,
           w = [by |-> by, kind |-> kind, h |-> h, expired |-> FALSE, then |-> next]
    PROVE  /\ w \in Wait /\ w # NoWait /\ w.by = by /\ w.kind = kind /\ w.h = h
           /\ w.then = next /\ ~w.expired
  BY Zenon DEF Wait, NoWait

\* What is known once the request r was sent, and a caller waits for it or not.
SentAtOnce(r, by, kind, as) ==
    /\ r \in Request /\ r.kind = kind /\ r.acks = as /\ Sends(r, inflight) /\ SentTypes
    /\ outgoing' = IF sender = "open" THEN Append(outgoing, r) ELSE outgoing
    /\ panicked' = (sender = "none")
    /\ pending' = NoWait \/ (pending'.by = by /\ pending'.kind = kind /\ kind \in SyncKinds)
    /\ pending'.then = NoRequest

\* What is known once a renewal was sent ahead of a request.
SentRenewal(r, by, kind, as) ==
    /\ r \in Request /\ r.kind = "renew" /\ r.acks = {} /\ local_nonce' = r.nonce
    /\ Sends(r, inflight) /\ SentTypes
    /\ outgoing' = IF sender = "open" THEN Append(outgoing, r) ELSE outgoing
    /\ panicked' = (sender = "none")
    /\ pending'.by = by /\ pending'.kind = "renew"
    /\ pending'.then.kind = kind /\ pending'.then.acks = as /\ pending'.then.nonce = 0

\* A request is sent at once.
LEMMA SentNow ==
    ASSUME Good, pending = NoWait,
           NEW by \in {"app", "poll", "task"}, NEW kind \in Kinds \ {"quit", "renew"},
           NEW as \in SUBSET Numbers, kind # "publish" => as = {},
           NEW nonce \in Nonces, kind # "open" => nonce = 0,
           SendNow(by, kind, as, nonce), UNCHANGED <<to_client, mailbox, held>>,
           local_nonce' \in Nonces
    PROVE  \E r : r.nonce = nonce /\ SentAtOnce(r, by, kind, as)
<1> TypeOK /\ Messages
  BY Zenon DEF Good, Inv
<1> DEFINE r == Made(handle + 1, kind, as, nonce)
<1>1. /\ handle \in Nat /\ outgoing \in Seq(Request) /\ inflight \in SUBSET [h : Handles, sync : BOOLEAN]
      /\ renewals \in 0 .. MaxRenewals
  BY Zenon DEF TypeOK, Handles
<1>2. r \in Request /\ r.h = handle + 1 /\ r.kind = kind /\ r.acks = as /\ r.nonce = nonce
  <2>1. handle + 1 \in Nat /\ kind \in Kinds
    BY <1>1
  <2>2. r \in Request
    BY <2>1, Zenon DEF Made, Request, Handles
  <2>3. r.h = handle + 1 /\ r.kind = kind /\ r.acks = as /\ r.nonce = nonce
    BY Zenon DEF Made
  <2> QED BY <2>2, <2>3, Zenon
<1>3. /\ inflight' = inflight \cup {[h |-> r.h, sync |-> r.kind \in SyncKinds]}
      /\ outgoing' = IF sender = "open" THEN Append(outgoing, r) ELSE outgoing
      /\ panicked' = (sender = "none") /\ sender' = sender
      /\ handle' = handle + 1 /\ renewals' = renewals
      /\ pending' = AfterSending(by, r)
  BY Zenon DEF SendNow, AddRequest
<1> HIDE DEF r
<1>4. /\ handle' \in Nat /\ handle <= handle' /\ r.h \in 1 .. handle' /\ Unused(r.h)
      /\ r.kind # "quit" /\ (Symmetric(r) => r.nonce = 0) /\ (r.kind # "publish" => r.acks = {})
      /\ mailbox' = NoAnswer /\ \A i \in inflight : ~i.sync
  <2>1. handle \in Nat /\ r.h = handle + 1 /\ handle' = handle + 1
    BY <1>1, <1>2, <1>3, Zenon
  <2>2. /\ handle' \in Nat /\ handle <= handle' /\ r.h \in 1 .. handle' /\ r.h \in Nat
        /\ r.h > handle
    BY <2>1
  <2>3. Unused(r.h)
    BY <2>2, NewHandleIsUnused, Zenon
  <2>4. /\ r.kind # "quit" /\ (Symmetric(r) => r.nonce = 0)
        /\ (r.kind # "publish" => r.acks = {})
    BY <1>2, Zenon DEF Symmetric
  <2> QED BY <2>2, <2>3, <2>4, NobodyWaits, Zenon
<1>5. outgoing' \in Seq(Request) /\ inflight' \in SUBSET [h : Handles, sync : BOOLEAN]
  BY <1>1, <1>2, <1>3, QueueIsTyped, Zenon
<1>6. ASSUME kind \in SyncKinds PROVE SentAtOnce(r, by, kind, as)
  <2>1. pending' = [by |-> by, kind |-> kind, h |-> r.h, expired |-> FALSE, then |-> NoRequest]
    BY <1>2, <1>3, <1>6, ZenonT(30) DEF AfterSending, WaitFor
  <2>2. /\ pending' \in Wait /\ pending' # NoWait /\ pending'.h = r.h /\ pending'.kind = kind
        /\ pending'.by = by /\ pending'.then = NoRequest
    <3>1. r.h \in Handles /\ kind \in Kinds
      BY <1>1, <1>2 DEF Handles
    <3> QED BY <2>1, <3>1, NoRequestIsRequest, WaitMade
  <2>3. Sends(r, inflight)
    BY <1>2, <1>3, <1>4, <1>6, <2>2, Zenon DEF Sends
  <2> QED BY <1>1, <1>2, <1>3, <1>4, <1>6, <1>5, <2>2, <2>3, ZenonT(30) DEF SentTypes, SentAtOnce, Handles
<1>7. ASSUME kind \notin SyncKinds PROVE SentAtOnce(r, by, kind, as)
  <2>1. pending' = NoWait
    BY <1>2, <1>3, <1>7, Zenon DEF AfterSending
  <2>2. pending' \in Wait /\ pending'.then = NoRequest
    BY NoRequestIsRequest, <2>1, Zenon DEF Wait, NoWait, Kinds, Handles
  <2>3. Sends(r, inflight)
    BY <1>2, <1>3, <1>4, <1>7, <2>1, Zenon DEF Sends
  <2> QED BY <1>1, <1>2, <1>3, <1>4, <1>5, <2>1, <2>2, <2>3, ZenonT(30) DEF SentTypes, SentAtOnce, Handles
<1>8. SentAtOnce(r, by, kind, as)
  BY <1>6, <1>7, Zenon
<1> QED BY <1>2, <1>8, Zenon

\* The second way of SendRequest.
SendRenewal(by, kind, as) ==
    /\ keys # NoKeys /\ renewals < MaxRenewals
    /\ AddRequest(Made(handle + 2, "renew", {}, attempts + renewals + 1), inflight)
    /\ pending' = WaitFor(by, Made(handle + 2, "renew", {}, attempts + renewals + 1),
                          Made(handle + 1, kind, as, 0))
    /\ local_nonce' = Made(handle + 2, "renew", {}, attempts + renewals + 1).nonce
    /\ handle' = handle + 2
    /\ renewals' = renewals + 1

\* A renewal is sent first.
LEMMA RenewalSent ==
    ASSUME Good, pending = NoWait,
           NEW by \in {"app", "poll", "task"}, NEW kind \in Kinds,
           NEW as \in SUBSET Numbers, SendRenewal(by, kind, as),
           UNCHANGED <<to_client, mailbox, held>>
    PROVE  \E renewal : SentRenewal(renewal, by, kind, as)
<1> TypeOK /\ Messages
  BY Zenon DEF Good, Inv
<1> DEFINE renewal == Made(handle + 2, "renew", {}, attempts + renewals + 1)
           next == Made(handle + 1, kind, as, 0)
<1>1. /\ handle \in Nat /\ outgoing \in Seq(Request) /\ inflight \in SUBSET [h : Handles, sync : BOOLEAN]
      /\ renewals \in 0 .. MaxRenewals /\ attempts \in 0 .. MaxConnections
      /\ MaxRenewals \in Nat /\ MaxConnections \in Nat
      /\ renewals < MaxRenewals /\ handle' = handle + 2 /\ renewals' = renewals + 1
  BY ClientAssumption, Zenon DEF TypeOK, Handles, SendRenewal
<1>2. attempts + renewals + 1 \in Nonces /\ 0 \in Nonces
  BY <1>1 DEF Nonces
<1>3. /\ renewal \in Request /\ renewal.h = handle + 2 /\ renewal.kind = "renew" /\ renewal.acks = {}
      /\ renewal.nonce \in Nonces
  <2>1. "renew" \in Kinds /\ handle + 2 \in Nat /\ {} \in SUBSET Numbers
    BY <1>1 DEF Kinds, SyncKinds
  <2>2. renewal \in Request
    BY <1>2, <2>1, Zenon DEF Made, Request, Handles
  <2>3. /\ renewal.h = handle + 2 /\ renewal.kind = "renew" /\ renewal.acks = {}
        /\ renewal.nonce = attempts + renewals + 1
    BY Zenon DEF Made
  <2> QED BY <1>2, <2>2, <2>3, Zenon
<1>4. /\ next \in Request /\ next.h = handle + 1 /\ next.kind = kind /\ next.acks = as
      /\ next.nonce = 0
  <2>1. handle + 1 \in Nat
    BY <1>1
  <2>2. next \in Request
    BY <1>2, <2>1, Zenon DEF Made, Request, Handles
  <2>3. next.h = handle + 1 /\ next.kind = kind /\ next.acks = as /\ next.nonce = 0
    BY Zenon DEF Made
  <2> QED BY <2>2, <2>3, Zenon
<1>5. /\ inflight' = inflight \cup {[h |-> renewal.h, sync |-> renewal.kind \in SyncKinds]}
      /\ outgoing' = IF sender = "open" THEN Append(outgoing, renewal) ELSE outgoing
      /\ panicked' = (sender = "none") /\ sender' = sender /\ local_nonce' = renewal.nonce
  BY Zenon DEF AddRequest, SendRenewal
<1>6. pending' = [by |-> by, kind |-> "renew", h |-> renewal.h, expired |-> FALSE, then |-> next]
  BY <1>3, Zenon DEF SendRenewal, WaitFor
<1> HIDE DEF renewal, next
<1>7. /\ pending' \in Wait /\ pending' # NoWait /\ pending'.h = renewal.h /\ pending'.kind = "renew"
      /\ pending'.by = by /\ pending'.then = next
  <2>1. "renew" \in Kinds /\ renewal.h \in Handles /\ next \in Request
    BY <1>1, <1>3, <1>4 DEF Kinds, SyncKinds, Handles
  <2> QED BY <1>6, <2>1, WaitMade
<1>8. "renew" \in SyncKinds
  BY Zenon DEF SyncKinds
<1>9. Sends(renewal, inflight)
  <2>1. Unused(renewal.h)
    BY <1>1, <1>3, NewHandleIsUnused
  <2>2. pending'.then.h \in handle + 1 .. handle' /\ pending'.then.h # renewal.h
    <3>1. pending'.then.h = handle + 1 /\ renewal.h = handle + 2
      BY <1>3, <1>4, <1>7, Zenon
    <3>2. handle + 1 \in handle + 1 .. handle' /\ handle + 1 # handle + 2
      BY <1>1
    <3> QED BY <3>1, <3>2, Zenon
  <2>3. ~Symmetric(renewal)
    BY <1>3, Zenon DEF Symmetric
  <2>4. handle' \in Nat /\ handle <= handle' /\ renewal.h \in 1 .. handle'
    BY <1>1, <1>3
  <2>5. mailbox' = NoAnswer /\ \A i \in inflight : ~i.sync
    BY NobodyWaits, Zenon
  <2> QED BY <1>3, <1>5, <1>7, <1>8, <2>1, <2>2, <2>3, <2>4, <2>5, ZenonT(30) DEF Sends
<1>10. SentTypes
  <2>1. outgoing' \in Seq(Request) /\ inflight' \in SUBSET [h : Handles, sync : BOOLEAN]
    BY <1>1, <1>3, <1>5, QueueIsTyped, ZenonT(30)
  <2>2. handle' \in Handles /\ renewals' \in 0 .. MaxRenewals /\ local_nonce' \in Nonces
    BY <1>1, <1>3, <1>5 DEF Handles
  <2> QED BY <1>5, <1>7, <2>1, <2>2, Zenon DEF SentTypes
<1>11. SentRenewal(renewal, by, kind, as)
  BY <1>3, <1>4, <1>5, <1>7, <1>9, <1>10, Zenon DEF SentRenewal
<1> QED BY <1>11, Zenon
=============================================================================
