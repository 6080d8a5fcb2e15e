--------------------------------- MODULE Locks ---------------------------------
(***************************************************************************)
(* Threads that take and release read-write locks.  The locks are those of  *)
(* parking_lot (lib.rs, module sync): any number of readers or one writer,  *)
(* and a reader also waits behind a writer that waits, so that writers do   *)
(* not starve.                                                              *)
(*                                                                          *)
(* A thread runs one program after the other.  A program is a sequence of   *)
(* steps: take a lock for reading ("R") or for writing ("W") and keep it,   *)
(* take it and release it at once ("r", "w"), or release it ("U").          *)
(***************************************************************************)
EXTENDS Integers, Sequences, FiniteSets

CONSTANTS Threads, Names,  \* threads, and the locks
          Programs,        \* Programs[t]: the programs that thread t may run
          Before           \* pairs of locks: the first is taken before the second

Modes == {"R", "W", "r", "w", "U"}
Steps == [mode : Modes, lock : Names]

ASSUME LocksAssumption ==
  /\ \A t \in Threads : \A p \in Programs[t] : p \in Seq(Steps)
  /\ \A L \in (SUBSET Names) \ {{}} : \E last \in L : \A l \in L : <<last, l>> \notin Before

VARIABLES todo,    \* the rest of the program of a thread
          held,    \* held[t][l]: how t holds l, "R", "W" or "U" for not at all
          parked   \* writers that wait and keep new readers out

vars == <<todo, held, parked>>

Init ==
  /\ todo = [t \in Threads |-> <<>>]
  /\ held = [t \in Threads |-> [l \in Names |-> "U"]]
  /\ parked = {}

Running(t)   == todo[t] # <<>>
Reads(t, l)  == Running(t) /\ Head(todo[t]).lock = l /\ Head(todo[t]).mode \in {"R", "r"}
Writes(t, l) == Running(t) /\ Head(todo[t]).lock = l /\ Head(todo[t]).mode \in {"W", "w"}

(* Mutant: a writer waits behind every writer that has announced itself. *)
WaitsBehindWriters(t, u) ==
  \E l \in Names :
    \/ (Reads(t, l) \/ Writes(t, l)) /\ u \in parked /\ Writes(u, l)
    \/ Reads(t, l)  /\ held[u][l] = "W"
    \/ Writes(t, l) /\ held[u][l] # "U"

(* t cannot go on because of what u holds or, if u is a writer, waits for. *)
Waits(t, u) ==
  \E l \in Names :
    \/ Reads(t, l)  /\ held[u][l] = "W"
    \/ Reads(t, l)  /\ u \in parked /\ Writes(u, l)
    \/ Writes(t, l) /\ held[u][l] # "U"

Blocked(t) == \E u \in Threads : Waits(t, u)

Start(t, program) ==
  /\ ~Running(t)
  /\ todo' = [todo EXCEPT ![t] = program]
  /\ UNCHANGED <<held, parked>>

(* Mutant: a writer that is woken up has to try again. *)
AdvanceRetries(t) ==
  LET step == Head(todo[t])
  IN  /\ Running(t) /\ ~Blocked(t)
      /\ \/ t \in parked /\ UNCHANGED <<todo, held>>
         \/ /\ t \notin parked
            /\ todo' = [todo EXCEPT ![t] = Tail(todo[t])]
            /\ held' = IF step.mode \in {"r", "w"} THEN held
                       ELSE [held EXCEPT ![t][step.lock] = step.mode]
      /\ parked' = parked \ {t}

(* The next step of t: "r" and "w" leave what t holds as it is. *)
Advance(t) ==
  LET step == Head(todo[t])
  IN  /\ Running(t) /\ ~Blocked(t)
      /\ todo' = [todo EXCEPT ![t] = Tail(todo[t])]
      /\ held' = IF step.mode \in {"r", "w"} THEN held
                 ELSE [held EXCEPT ![t][step.lock] = step.mode]
      /\ parked' = parked \ {t}

(* A writer that has to wait announces itself. *)
Park(t) ==
  /\ t \notin parked /\ Blocked(t)
  /\ \E l \in Names : Writes(t, l)
  /\ parked' = parked \union {t}
  /\ UNCHANGED <<todo, held>>

Next == \E t \in Threads :
          (\E program \in Programs[t] : Start(t, program)) \/ Advance(t) \/ Park(t)

Spec == Init /\ [][Next]_vars

(* A thread that has started a program goes on; the locks are eventually fair. *)
Fairness == \A t \in Threads : SF_vars(Advance(t)) /\ WF_vars(Park(t))
FairSpec == Spec /\ Fairness
-----------------------------------------------------------------------------
(* What a thread keeps, it keeps for reading or for writing. *)
TypeOK ==
  /\ todo \in [Threads -> Seq(Steps)]
  /\ held \in [Threads -> [Names -> {"R", "W", "U"}]]
  /\ parked \subseteq Threads

(* The locks that a thread that holds h has before step k of p. *)
Releases(step, l) == step.mode = "U" /\ step.lock = l
Keeps(step, l) == step.mode \in {"R", "W"} /\ step.lock = l

Kept(h, p, k) ==
  {l \in Names :
     \/ h[l] # "U" /\ \A j \in 1..k - 1 : ~Releases(p[j], l)
     \/ \E i \in 1..k - 1 : Keeps(p[i], l) /\ \A j \in i + 1..k - 1 : ~Releases(p[j], l)}

(* From h on, p takes its locks in the order and releases all of them. *)
InOrder(h, p) ==
  /\ \A k \in 1..Len(p) : p[k].mode # "U" =>
       \A l \in Kept(h, p, k) : <<l, p[k].lock>> \in Before
  /\ Kept(h, p, Len(p) + 1) = {}

(* On any path through the services, the timer and the end of a connection, a
   thread takes no lock that comes before one it holds at that time, and at the
   end of the path it holds none (server/services/message_handler.rs:93). *)
LocksInOrder == \A t \in Threads : InOrder(held[t], todo[t])

(* There is no set of threads of which everyone waits for one of the set: none
   of them would ever go on.  This is what the order in which the services have
   to take their locks is for (server/services/message_handler.rs:93). *)
NoDeadlock ==
  \A T \in (SUBSET Threads) \ {{}} : \E t \in T : \A u \in T : ~Waits(t, u)

(* Every program that is started is finished: a request is answered, a timer
   goes through the sessions, a connection is cleaned up. *)
ProgramsEnd == \A t \in Threads : Running(t) ~> ~Running(t)
=============================================================================
