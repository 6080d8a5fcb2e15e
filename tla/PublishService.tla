---------------------------- MODULE PublishService ----------------------------
(***************************************************************************)
(* What the publish queues of a session promise to the client.  Publish    *)
(* requests are answered once each; a notification answers the oldest one  *)
(* and carries the successor of the last number that its subscription      *)
(* sent; a request may instead time out.                                   *)
(***************************************************************************)
EXTENDS Naturals, Sequences

CONSTANTS MaxU32, SubIds, Requests

VARIABLES outstanding,   \* accepted requests that are not answered, oldest first
          last           \* subscription -> the last number it sent

serviceVars == <<outstanding, last>>

Successor(n) == IF n = MaxU32 THEN 1 ELSE n + 1

ServiceInit ==
  /\ outstanding = <<>>
  /\ last = [i \in SubIds |-> 0]

(* Requests are numbered as they arrive. *)
Accept ==
  /\ \E r \in Requests :
       /\ \A k \in 1..Len(outstanding) : outstanding[k] < r
       /\ outstanding' = Append(outstanding, r)
  /\ UNCHANGED last

Publish(i) ==
  /\ outstanding # <<>>
  /\ outstanding' = Tail(outstanding)
  /\ last' = [last EXCEPT ![i] = Successor(@)]

TimeOut(k) ==
  /\ outstanding' = SubSeq(outstanding, 1, k - 1)
                      \o SubSeq(outstanding, k + 1, Len(outstanding))
  /\ UNCHANGED last

ServiceNext ==
  \/ Accept
  \/ \E i \in SubIds : Publish(i)
  \/ \E k \in 1..Len(outstanding) : TimeOut(k)

ServiceSpec == ServiceInit /\ [][ServiceNext]_serviceVars
=============================================================================
