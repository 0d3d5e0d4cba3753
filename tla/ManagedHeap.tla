----------------------------- MODULE ManagedHeap -----------------------------
(***************************************************************************)
(* What proxy.c promises of foreign memory, without saying how: a heap     *)
(* whose chunks are claimed by C, which owns some, by Python, which holds  *)
(* some, and by the pointers in memory that have been recorded.  A chunk   *)
(* is freed only when nobody claims it.                                    *)
(*                                                                         *)
(* No proxy, reference counter, dictionary, policy or deallocation stack   *)
(* appears here: ProxyLifetime implements this specification with them.    *)
(***************************************************************************)
CONSTANTS Chunk, Place, NULL

VARIABLES
  alive,     \* chunks of allocated memory
  owned,     \* those C has still to free
  held,      \* those Python code holds an object in
  recorded   \* the chunk the pointer at each place keeps alive, or NULL

heap == <<alive, owned, held, recorded>>

Init ==
  /\ alive = {} /\ owned = {} /\ held = {}
  /\ recorded = [x \in Place |-> NULL]

PointedTo(c) == \E x \in Place : recorded[x] = c
Abandoned(c) == c \in alive \ (owned \cup held) /\ ~PointedTo(c)

(* C's malloc, or a constructor of Python. *)
Allocate(c) ==
  /\ c \notin alive
  /\ alive' = alive \cup {c}
  /\ \/ owned' = owned \cup {c} /\ UNCHANGED held
     \/ held' = held \cup {c} /\ UNCHANGED owned
  /\ UNCHANGED recorded

(* Python gets hold of an object in memory it can reach, and lets go. *)
Hold(c) ==
  /\ c \in alive
  /\ held' = held \cup {c}
  /\ UNCHANGED <<alive, owned, recorded>>

LetGo(c) ==
  /\ held' = held \ {c}
  /\ UNCHANGED <<alive, owned, recorded>>

(* A pointer to c is stored at x; the record of a pointer is removed. *)
Record(x, c) ==
  /\ c \in alive
  /\ recorded' = [recorded EXCEPT ![x] = c]
  /\ UNCHANGED <<alive, owned, held>>

Erase(x) ==
  /\ recorded' = [recorded EXCEPT ![x] = NULL]
  /\ UNCHANGED <<alive, owned, held>>

(* C's free gives the chunk up: it goes if nobody else claims it. *)
Free(c) ==
  /\ c \in owned
  /\ owned' = owned \ {c}
  /\ \/ UNCHANGED alive
     \/ c \notin held /\ ~PointedTo(c) /\ alive' = alive \ {c}
  /\ UNCHANGED <<held, recorded>>

Reclaim(c) ==
  /\ Abandoned(c)
  /\ alive' = alive \ {c}
  /\ UNCHANGED <<owned, held, recorded>>

Next ==
  \/ \E c \in Chunk : Allocate(c) \/ Hold(c) \/ LetGo(c) \/ Free(c) \/ Reclaim(c)
  \/ \E x \in Place : Erase(x) \/ \E c \in Chunk : Record(x, c)

Spec == Init /\ [][Next]_heap

(* What nobody claims any more is given back, or claimed again: there is   *)
(* always a later moment when no chunk is abandoned.                       *)
Reclaimed == []<>(\A c \in Chunk : ~Abandoned(c))

(* What C owns, what Python holds and what a recorded pointer points to is *)
(* memory that exists.                                                     *)
ClaimedAlive ==
  /\ owned \cup held \subseteq alive
  /\ recorded \in [Place -> alive \cup {NULL}]
=============================================================================
