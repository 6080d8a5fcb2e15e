---------------------------- MODULE MCClientSession ----------------------------
(* A small instance of ClientSession for TLC. *)
EXTENDS ClientSession, FiniteSets

(* Several requests without a caller are in flight together only on the first
   connection and without a renewal. *)
OneAtATime ==
  renewals > 0 \/ attempts > 1 => Cardinality({i \in inflight : ~i.sync}) <= 1

(* A second connection after a renewal, or a renewal on the second connection, is
   followed over the first six requests. *)
FirstRequests == renewals > 0 /\ attempts > 1 => handle <= 6
=============================================================================
