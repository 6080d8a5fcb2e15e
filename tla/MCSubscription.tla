---------------------------- MODULE MCSubscription ----------------------------
(* Small instances of Subscription for TLC. *)
EXTENDS Subscription

MCRequestedKeepAlive == {0, 2}
MCRequestedLifetime  == {0, 8}
=============================================================================
