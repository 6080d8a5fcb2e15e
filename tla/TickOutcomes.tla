----------------------------- MODULE TickOutcomes -----------------------------
(***************************************************************************)
(* What the publish queues of a session see of one tick of a subscription. *)
(*                                                                         *)
(* Module Subscriptions lets each subscription that a tick visits choose   *)
(* one of these outcomes.  Module Subscription, which has the whole state  *)
(* engine, shows that every tick of the engine is one of them.             *)
(***************************************************************************)
EXTENDS Naturals

CONSTANT MaxU32   \* u32::MAX, where sequence numbers wrap back to 1

ASSUME MaxU32Assumption == MaxU32 \in Nat \ {0, 1}

(* Handle::next() for a handle whose first value is 1; enqueue_notification
   computes the number it expects the same way. *)
NextHandle(n) == IF n = MaxU32 THEN 1 ELSE n + 1

(* What Subscription::tick() does: the subscription has nothing to send, or
   something if there is a request for it, or its lifetime ends. *)
Outcomes(phase) == IF phase = "live" THEN {"nothing", "data", "expires"}
                                     ELSE {"nothing"}

(* There is a new message; the last status change does not need a request. *)
Speaks(outcome, req) == outcome = "expires" \/ (outcome = "data" /\ req)

(* The subscription is closed after the tick. *)
Closes(phase, outcome) == outcome = "expires" \/ phase = "closed"

LastAfter(last, speaks) == IF speaks THEN NextHandle(last) ELSE last

(* Mutant: an expired subscription is removed before its status change is sent. *)
PhaseAfterForgetful(phase, closed, req) == IF closed THEN "removed" ELSE phase

(* ready_to_remove(): closed, and nothing left to send. *)
PhaseAfter(phase, closed, req) ==
  IF ~closed THEN phase ELSE IF req THEN "removed" ELSE "closed"
=============================================================================
