---------------------------- MODULE MCSubscriptions ----------------------------
(* Small instances of Subscriptions for TLC. *)
EXTENDS Subscriptions

TwoPriorities == {0, 1}
TwoIds        == {1, 2}

(* Only the order of the two priorities matters: the first subscription keeps
   the larger one, and the second is visited before it or after it. *)
FirstKeepsPriority == subs[1].phase # "new" => subs[1].priority = 1

(* A client whose clock is ahead sends two requests: the timer panics at the
   first that it finds, and what other clients are promised is not at stake. *)
AheadSendsTwo == client_ahead => requests <= 2
=============================================================================
