--------------------------- MODULE MCMonitoredItems ---------------------------
(* Instances of MonitoredItems. *)
EXTENDS MonitoredItems, TLC

Request(size, interval, oldest) ==
  [queue_size |-> size, sampling_interval |-> interval, discard_oldest |-> oldest]

(* Sampling with the publishing interval and with the interval of the timer,
   which is two units of time, queues of one and of two notifications that
   discard at either end. *)
MixedRequests == {Request(3, 2, FALSE), Request(0, -1, TRUE)}

(* The item that is created first is in any mode and triggers the other one,
   which is only sampled. *)
FirstTriggers ==
  \A i \in DOMAIN items : i > 1 => items[i].triggered = {} /\ items[i].mode = "Sampling"

Symmetry == Permutations(Values)
=============================================================================
