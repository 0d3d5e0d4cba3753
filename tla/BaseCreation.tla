---------------------------- MODULE BaseCreation ----------------------------
(***************************************************************************)
(* The creation of base proxies while Python decodes a pointer:            *)
(* Proxy_GetOrCreateBase and Proxy_GetFrom of proxy.c, taken apart where   *)
(* they allocate.                                                          *)
(*                                                                         *)
(* An allocation may run CPython's collector, and the finaliser of an      *)
(* object in a cycle is Python code: it may drop proxies, call C, and      *)
(* decode pointers itself, before the function that allocates goes on.     *)
(* ProxyLifetime takes all of this as one step.                            *)
(*                                                                         *)
(* The types of chunks are structs and arrays here.  A chunk lives while C *)
(* owns it or it has a base proxy.                                         *)
(***************************************************************************)
EXTENDS Naturals, Sequences, SequencesExt

CONSTANTS
  Chunk, Proxy, Type,
  TypeOf,      \* the type of each chunk
  MaxDepth,    \* bound: nested decodings; 1 = finalisers decode nothing
  NULL

ASSUME TypeAssumption == TypeOf \in [Chunk -> Type]
ASSUME BoundAssumption == MaxDepth \in Nat \ {0}
ASSUME NullAssumption == NULL \notin Chunk \cup Proxy

VARIABLES
  owned,          \* the chunks C has still to free
  p_ptr,          \* the chunk each proxy is for; NULL = no such object
  anchor,         \* proxy_pointing_addr_dict: the base each proxy keeps alive
  proxy_dict,     \* the base proxy of each chunk
  held,           \* the proxies Python code refers to
  creating_base,  \* the static variable of Proxy_GetOrCreateBase
  known,          \* the types that exist: any, as far as this module goes
  calls,          \* decodings in progress, the running one last
  failed,         \* the assertion of Proxy_Register has failed
  raced,          \* history: a chunk was decoded while its type was being created
  interrupted     \* history: a chunk was decoded while a base was being created

history == <<raced, interrupted>>
vars == <<owned, p_ptr, anchor, proxy_dict, held, creating_base, known, calls,
          failed, history>>

(* Where a decoding is: creating the type of the chunk, creating the base  *)
(* proxy, or creating the proxy it returns.                                *)
Frame == [chunk : Chunk, base : Proxy \cup {NULL}, at : {"type", "base", "proxy"}]

(* Every variable has its type. *)
TypeOK ==
  /\ owned \subseteq Chunk /\ held \subseteq Proxy /\ known \subseteq Type
  /\ p_ptr \in [Proxy -> Chunk \cup {NULL}]
  /\ anchor \in [Proxy -> Proxy \cup {NULL}]
  /\ proxy_dict \in [Chunk -> Proxy \cup {NULL}]
  /\ creating_base \in BOOLEAN /\ failed \in BOOLEAN
  /\ raced \in BOOLEAN /\ interrupted \in BOOLEAN
  /\ calls \in Seq(Frame) /\ Len(calls) <= MaxDepth

Init ==
  /\ owned = {} /\ held = {} /\ known \in SUBSET Type
  /\ p_ptr = [p \in Proxy |-> NULL]
  /\ anchor = [p \in Proxy |-> NULL]
  /\ proxy_dict = [c \in Chunk |-> NULL]
  /\ creating_base = FALSE /\ calls = <<>> /\ failed = FALSE
  /\ raced = FALSE /\ interrupted = FALSE

-----------------------------------------------------------------------------
Alive(c)  == c \in owned \/ proxy_dict[c] # NULL
IsBase(p) == p_ptr[p] # NULL /\ proxy_dict[p_ptr[p]] = p
NoObject(p) == p_ptr[p] = NULL
Idle == calls = <<>>
Top  == Last(calls)
At(where) == ~Idle /\ Top.at = where
Goto(f) == calls' = Append(Front(calls), f)

(* Python code runs between operations, and in the middle of one: each     *)
(* stage of a decoding allocates.                                          *)
PythonRuns == ~failed

(* Python code comes upon a pointer to c. *)
Sees(c) == c \in owned \/ \E p \in held : p_ptr[p] = c

-----------------------------------------------------------------------------
(* Proxy_GetOrCreateBase up to its first allocation: nothing while a base  *)
(* is being created, the registered one, or else the type of the chunk.    *)

(* Mutant: without the check for a recursion inside itself. *)
LookupUnguarded(c) ==
  CASE proxy_dict[c] # NULL -> [chunk |-> c, base |-> proxy_dict[c], at |-> "proxy"]
    [] OTHER -> [chunk |-> c, base |-> NULL,
                 at |-> IF TypeOf[c] \in known THEN "base" ELSE "type"]

Lookup(c) ==
  CASE creating_base -> [chunk |-> c, base |-> NULL, at |-> "proxy"]
    [] ~creating_base /\ proxy_dict[c] # NULL ->
         [chunk |-> c, base |-> proxy_dict[c], at |-> "proxy"]
    [] OTHER -> [chunk |-> c, base |-> NULL,
                 at |-> IF TypeOf[c] \in known THEN "base" ELSE "type"]

(* ft_getfrom is called for a pointer to c. *)
Decode(c) ==
  /\ PythonRuns /\ Sees(c) /\ Len(calls) < MaxDepth
  /\ calls' = Append(calls, Lookup(c))
  /\ creating_base' = (creating_base \/ Lookup(c).at = "base")
  /\ raced' = (raced \/ \E k \in 1..Len(calls) :
                         calls[k].at = "type" /\ calls[k].chunk = c)
  /\ interrupted' = (interrupted \/ creating_base)
  /\ UNCHANGED <<owned, p_ptr, anchor, proxy_dict, held, known, failed>>

(* The type exists now; the creation of the base starts, without a second  *)
(* look at proxy_dict.                                                     *)
TypeCreated ==
  /\ At("type") /\ ~failed
  /\ known' = known \cup {TypeOf[Top.chunk]}
  /\ Goto([Top EXCEPT !.at = "base"])
  /\ creating_base' = TRUE
  /\ UNCHANGED <<owned, p_ptr, anchor, proxy_dict, held, failed, history>>

(* The base was created, by ft_getfrom called from within, and is          *)
(* registered.  The assertion of Proxy_Register is about the address.      *)
BaseCreated(b) ==
  /\ At("base") /\ ~failed /\ NoObject(b)
  /\ creating_base' = FALSE
  /\ IF proxy_dict[Top.chunk] # NULL
       THEN failed' = TRUE /\ UNCHANGED <<p_ptr, proxy_dict, calls>>
       ELSE /\ p_ptr' = [p_ptr EXCEPT ![b] = Top.chunk]
            /\ proxy_dict' = [proxy_dict EXCEPT ![Top.chunk] = b]
            /\ Goto([Top EXCEPT !.base = b, !.at = "proxy"])
            /\ UNCHANGED failed
  /\ UNCHANGED <<owned, anchor, held, known, history>>

(* The base is what is asked for and is returned itself. *)
ReturnBase ==
  /\ At("proxy") /\ ~failed /\ Top.base # NULL
  /\ held' = held \cup {Top.base}
  /\ calls' = Front(calls)
  /\ UNCHANGED <<owned, p_ptr, anchor, proxy_dict, creating_base, known, failed,
                 history>>

(* A new proxy is returned that keeps the base alive, if there is one. *)
ReturnProxy(p) ==
  /\ At("proxy") /\ ~failed /\ NoObject(p)
  /\ p_ptr' = [p_ptr EXCEPT ![p] = Top.chunk]
  /\ anchor' = [anchor EXCEPT ![p] = Top.base]
  /\ held' = held \cup {p}
  /\ calls' = Front(calls)
  /\ UNCHANGED <<owned, proxy_dict, creating_base, known, failed, history>>

-----------------------------------------------------------------------------
(* Mutant: the base a decoding has found is borrowed. *)
ReferencedLater(p, h, gone) ==
  p \in h \/ \E q \in Proxy \ gone : anchor[q] = p

(* A proxy is referred to by Python, by a proxy it keeps alive or by a     *)
(* decoding in progress (the new reference Proxy_GetOrCreateBase returns). *)
Referenced(p, h, gone) ==
  \/ p \in h
  \/ \E q \in Proxy \ gone : anchor[q] = p
  \/ \E k \in 1..Len(calls) : calls[k].base = p

(* proxy_dealloc of a set of proxies. *)
Dealloc(gone) ==
  /\ p_ptr' = [p \in Proxy |-> IF p \in gone THEN NULL ELSE p_ptr[p]]
  /\ anchor' = [p \in Proxy |-> IF p \in gone THEN NULL ELSE anchor[p]]
  /\ proxy_dict' = [c \in Chunk |-> IF proxy_dict[c] \in gone THEN NULL
                                    ELSE proxy_dict[c]]

(* Python code drops a proxy, and with it perhaps the base behind it. *)
Drop(p) ==
  LET h     == held \ {p}
      first == {q \in {p} : ~Referenced(q, h, {})}
      then  == {q \in {anchor[p]} \ {NULL} :
                  first # {} /\ ~Referenced(q, h, first)}
  IN  /\ PythonRuns /\ p \in held
      /\ held' = h
      /\ Dealloc(first \cup then)
      /\ UNCHANGED <<owned, creating_base, known, calls, failed, history>>

(* C code allocates a chunk, or frees one no decoding is about. *)
CMalloc(c) ==
  /\ PythonRuns /\ ~Alive(c) /\ \A p \in Proxy : p_ptr[p] # c
  /\ owned' = owned \cup {c}
  /\ UNCHANGED <<p_ptr, anchor, proxy_dict, held, creating_base, known, calls, failed,
                 history>>

CFree(c) ==
  /\ PythonRuns /\ c \in owned /\ \A k \in 1..Len(calls) : calls[k].chunk # c
  /\ owned' = owned \ {c}
  /\ UNCHANGED <<p_ptr, anchor, proxy_dict, held, creating_base, known, calls, failed,
                 history>>

(* The assertion has failed: the program has been aborted. *)
Aborted == failed /\ UNCHANGED vars

Next ==
  \/ \E c \in Chunk : Decode(c) \/ CMalloc(c) \/ CFree(c)
  \/ \E p \in Proxy : BaseCreated(p) \/ ReturnProxy(p) \/ Drop(p)
  \/ TypeCreated \/ ReturnBase \/ Aborted

Spec == Init /\ [][Next]_vars

-----------------------------------------------------------------------------
(* A chunk is registered once (assertion of Proxy_Register, proxy.c:80):   *)
(* the creation of its base is safe from all the decodings that run inside *)
(* it, of the same chunk or of others, and the creation of its type from   *)
(* those of other chunks.  Only decoding a chunk inside the creation of    *)
(* its own type, between the look at proxy_dict and the guard, can break   *)
(* it.                                                                     *)
RegisteredOnce == ~raced => ~failed

(* A proxy with a base keeps it, and a base stays registered, as long as   *)
(* Python or a decoding in progress refers to it, whatever finalisers drop *)
(* or free while the proxy for it is being allocated.                      *)
BaseKept ==
  /\ \A p \in held : NoObject(p) = FALSE /\ (anchor[p] # NULL => IsBase(anchor[p]))
  /\ \A k \in 1..Len(calls) : calls[k].base # NULL =>
       IsBase(calls[k].base) /\ p_ptr[calls[k].base] = calls[k].chunk

(* Memory Python holds a proxy to is alive, C's free notwithstanding:      *)
(* "Extend lifetime of the pointed object" (address_proxy.c:263).  A       *)
(* decoding inside the creation of a base gets no base (proxy.c:119), and  *)
(* C's free leaves its proxy dangling; decodings inside the creation of a  *)
(* type or of a proxy do no harm.                                          *)
HeldAlive == \A p \in held : p_ptr[p] # NULL /\ Alive(p_ptr[p])

(* The same, until a decoding begins inside the creation of a base. *)
HeldAliveUninterrupted == ~interrupted => HeldAlive
=============================================================================
