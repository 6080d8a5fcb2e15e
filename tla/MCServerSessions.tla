--------------------------- MODULE MCServerSessions ---------------------------
(* Instances of ServerSessions: connections and sessions are interchangeable. *)
EXTENDS ServerSessions, TLC

(* The server is not aborted. *)
KeepsRunning == ~abort

Symmetry == Permutations(Connections) \union Permutations(SessionIds)
=============================================================================
