--------------------------- MODULE HeapRefinement ---------------------------
(* ProxyLifetime implements ManagedHeap: the mapping of its state.         *)
EXTENDS ProxyLifetime

AliveChunks == {c \in Chunk : Live(c)}
OwnedChunks == {c \in Chunk : "manual" \in policies[c]}

(* A reference that was leaked holds the chunk like one of Python's. *)
Keeps(p) == Holds(p) \/ leaked[p] > 0
HeldChunks == {c \in Chunk : \E p \in Proxy : Keeps(p) /\ p_ptr[p] = c}

(* An entry names a base proxy, whose chunk the pointer keeps alive. *)
RecordedChunks ==
  [x \in Place |-> IF pointing_dict[x] = NULL THEN NULL
                   ELSE p_ptr[pointing_dict[x]]]

Heap == INSTANCE ManagedHeap
          WITH alive <- AliveChunks, owned <- OwnedChunks,
               held <- HeldChunks, recorded <- RecordedChunks

(* The dictionaries, the reference counters, the lifetime policies and the *)
(* nested deallocations of proxy.c amount to a heap where a chunk is freed *)
(* only once neither C, nor Python, nor a recorded pointer claims it, and  *)
(* where each step of an operation changes the claims of one party.        *)
ImplementsHeap == Heap!Spec

(* Whatever nobody claims any more is freed: no path through a constructor *)
(* that fails, a store, a load or a deallocation leaks a chunk.  A cycle   *)
(* of recorded pointers claims itself; it is left to the collector.  A     *)
(* reference that was leaked (`leaked`: the attributes composite_proxy.c   *)
(* reads at line 108, the arguments and results of callbacks) claims its   *)
(* chunk for ever: of what such a proxy points to nothing is said here.    *)
AbandonedReclaimed == Heap!Reclaimed
=============================================================================
