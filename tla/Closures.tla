----------------------------- MODULE Closures -----------------------------
(***************************************************************************)
(* The life of a closure, a Python callable that C can call:               *)
(* closureproxy_ctor and closureproxy_dealloc of function_proxy.c.         *)
(*                                                                         *)
(* A closure is the proxy of a piece of code made by libffi.  Python holds *)
(* it like any object.  A struct keeps it through the entry of             *)
(* proxy_pointing_addr_dict that a store to one of its pointer fields      *)
(* makes; liballocs asks for the entry if it manages the memory the code   *)
(* is in, and so could attach the gc policy to it.  libffi takes the       *)
(* memory from mmap, which it does not (the comment of                     *)
(* function_proxy.c:430), so Managed is empty in the program as it runs.   *)
(***************************************************************************)
EXTENDS Naturals, FiniteSets

CONSTANTS
  Closure,       \* closures, by the address of their code
  Managed,       \* those whose code is in memory liballocs manages
  Slot,          \* pointer fields of structs that Python holds
  MaxPyRef,      \* bound: references Python takes to one closure
  NULL

ASSUME ManagedAssumption == Managed \subseteq Closure
ASSUME NullAssumption == NULL \notin Closure
ASSUME BoundAssumption == MaxPyRef \in Nat \ {0}

VARIABLES
  code,          \* the code of each closure: "none", "live" or "freed"
  pyrefs,        \* references of Python to the closure object
  callable_refs, \* references of closure objects to their callables
  proxy_dict,    \* the closures registered as proxies
  gc_policy,     \* the code that has the gc policy
  field,         \* the pointers in memory
  entry          \* proxy_pointing_addr_dict

vars == <<code, pyrefs, callable_refs, proxy_dict, gc_policy, field, entry>>

(* Closures, and what refers to them, are well-formed. *)
TypeOK ==
  /\ code \in [Closure -> {"none", "live", "freed"}]
  /\ pyrefs \in [Closure -> Nat]
  /\ callable_refs \in [Closure -> Nat]
  /\ proxy_dict \subseteq Closure /\ gc_policy \subseteq Managed
  /\ field \in [Slot -> Closure \cup {NULL}]
  /\ entry \in [Slot -> Closure \cup {NULL}]

Init ==
  /\ code = [c \in Closure |-> "none"]
  /\ pyrefs = [c \in Closure |-> 0]
  /\ callable_refs = [c \in Closure |-> 0]
  /\ proxy_dict = {}
  /\ gc_policy = {}
  /\ field = [s \in Slot |-> NULL]
  /\ entry = [s \in Slot |-> NULL]

(* Mutant: the object is freed without giving up its callable. *)
CreateFailsLeaking(c) ==
  /\ code[c] = "none"
  /\ code' = [code EXCEPT ![c] = "freed"]
  /\ callable_refs' = [callable_refs EXCEPT ![c] = @ + 1]
  /\ UNCHANGED <<pyrefs, proxy_dict, gc_policy, field, entry>>

(* closureproxy_ctor when libffi cannot prepare the code: the object is    *)
(* deallocated before it was ever registered, and gives up its callable.   *)
CreateFails(c) ==
  /\ code[c] = "none"
  /\ code' = [code EXCEPT ![c] = "freed"]
  /\ UNCHANGED <<pyrefs, callable_refs, proxy_dict, gc_policy, field, entry>>

(* closureproxy_ctor: the proxy is registered, and liballocs attaches the  *)
(* gc policy if it can.  The manual policy stays.                          *)
Create(c) ==
  /\ code[c] = "none"
  /\ code' = [code EXCEPT ![c] = "live"]
  /\ callable_refs' = [callable_refs EXCEPT ![c] = @ + 1]
  /\ pyrefs' = [pyrefs EXCEPT ![c] = 1]
  /\ proxy_dict' = proxy_dict \cup {c}
  /\ gc_policy' = gc_policy \cup ({c} \cap Managed)
  /\ UNCHANGED <<field, entry>>

(* closureproxy_dealloc for each of D. *)
Dealloc(D) ==
  /\ code' = [c \in Closure |-> IF c \in D THEN "freed" ELSE code[c]]
  /\ callable_refs' = [c \in Closure |->
                         callable_refs[c] - IF c \in D THEN 1 ELSE 0]
  /\ proxy_dict' = proxy_dict \ D
  /\ gc_policy' = gc_policy \ D

(* Objects nothing refers to once Python's references are r and the        *)
(* entries e.                                                              *)
Unreferenced(r, e) ==
  {c \in Closure : code[c] = "live" /\ r[c] = 0 /\ \A s \in Slot : e[s] # c}

PyIncref(c) ==
  /\ pyrefs[c] \in 1..(MaxPyRef - 1)
  /\ pyrefs' = [pyrefs EXCEPT ![c] = @ + 1]
  /\ UNCHANGED <<code, callable_refs, proxy_dict, gc_policy, field, entry>>

PyDecref(c) ==
  /\ pyrefs[c] > 0
  /\ pyrefs' = [pyrefs EXCEPT ![c] = @ - 1]
  /\ Dealloc(Unreferenced(pyrefs', entry))
  /\ UNCHANGED <<field, entry>>

(* The store of a pointer p to slot s: the entry of the old one goes, the  *)
(* new one gets an entry if its target has the policy.                     *)
StorePointer(s, p) ==
  /\ entry' = [entry EXCEPT ![s] = IF p \in gc_policy THEN p ELSE NULL]
  /\ field' = [field EXCEPT ![s] = p]
  /\ Dealloc(Unreferenced(pyrefs, entry'))
  /\ UNCHANGED pyrefs

(* addrproxy_storeinto with a closure, and with None. *)
Store(s, c) == pyrefs[c] > 0 /\ StorePointer(s, c)
StoreNone(s) == field[s] # NULL /\ StorePointer(s, NULL)

Next ==
  \/ \E c \in Closure : \/ Create(c) \/ CreateFails(c) \/ PyIncref(c) \/ PyDecref(c)
                        \/ \E s \in Slot : Store(s, c)
  \/ \E s \in Slot : StoreNone(s)

Spec == Init /\ [][Next]_vars

-----------------------------------------------------------------------------
(* What a struct points to can be called: a closure stored in a field      *)
(* lives at least as long as the pointer, whatever Python drops.  It is    *)
(* what tests/closure_lifetime.py relies on when it drops its callables    *)
(* and closures before C calls them; where no closure is in managed        *)
(* memory it does not hold.                                                *)
StoredCallable == \A s \in Slot : field[s] # NULL => code[field[s]] = "live"

(* A callable is kept by exactly the closure that calls it, until the code *)
(* is freed and not longer, also when the closure could not be completed.  *)
CallableKept ==
  \A c \in Closure : callable_refs[c] = IF code[c] = "live" THEN 1 ELSE 0

(* Proxies are registered for live code only, so the code libffi makes     *)
(* next at the same address can be registered (the assertion of            *)
(* Proxy_Register).                                                        *)
RegisteredLive == proxy_dict = {c \in Closure : code[c] = "live"}
=============================================================================
