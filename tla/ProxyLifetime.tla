---------------------------- MODULE ProxyLifetime ----------------------------
(***************************************************************************)
(* The shared ownership of foreign memory by Python and by C: proxy.c, and *)
(* the constructors, stores, loads, initialisers and cycle collection      *)
(* hooks of composite_proxy.c and address_proxy.c that go through it.      *)
(*                                                                         *)
(* A chunk is a heap allocation known to liballocs.  It lives while some   *)
(* lifetime policy is attached to it: "manual" (a C free is still to come) *)
(* or "gc" (a base proxy is registered for it).  proxy_dict maps a chunk   *)
(* to its base proxy without owning it; proxy_pointing_addr_dict maps the  *)
(* address of a pointer to the base proxy of the chunk it points to, and   *)
(* owns one reference to it.  Those addresses are the pointer fields of    *)
(* chunks (Slot), the pointer variables of C (Var), and the p_ptr member   *)
(* of the proxies that are not bases themselves (Proxy).                   *)
(*                                                                         *)
(* CPython runs all of this under the interpreter lock, so one operation   *)
(* runs at a time; but dropping the last reference to a proxy frees its    *)
(* chunk, which drops the references held by the chunk's fields, and so    *)
(* on: every deallocation is a C stack of nested tp_dealloc calls that     *)
(* runs in the middle of whatever operation dropped the reference.         *)
(***************************************************************************)
EXTENDS Integers, FiniteSets

CONSTANTS
  Chunk,       \* addresses of heap allocations
  Slot,        \* addresses of the pointer fields inside chunks
  Var,         \* addresses of the instrumented pointer variables of C
  Proxy,       \* Python proxy objects
  Owner,       \* the chunk each slot lies in
  NULL,        \* C's NULL
  MaxHeld,     \* bound: references Python has to proxies, all in all
  MaxShared,   \* bound: those to proxies it has another reference to
  MaxLeaked,   \* bound: references that are never given back
  OldestGen,   \* the oldest generation of CPython's collector (2 in CPython)
  Reinits      \* whether programs make __init__ write a field again: by a
               \* second call, or with attributes that do not all fit

ASSUME OwnerAssumption == Owner \in [Slot -> Chunk]
ASSUME FiniteAssumption ==
  IsFiniteSet(Slot) /\ IsFiniteSet(Var) /\ IsFiniteSet(Proxy)
ASSUME DistinctAssumption ==
  /\ Slot \cap Var = {} /\ (Slot \cup Var) \cap Proxy = {}
  /\ NULL \notin Chunk \cup Slot \cup Var \cup Proxy
ASSUME BoundAssumption ==
  /\ MaxHeld \in Nat /\ MaxShared \in Nat /\ MaxLeaked \in Nat
  /\ OldestGen \in Nat /\ Reinits \in BOOLEAN

Place == Slot \cup Var              \* addresses that hold a C pointer
Loc   == Place \cup Proxy           \* keys of proxy_pointing_addr_dict

VARIABLES
  policies,       \* lifetime policies attached to each chunk; {} = free memory
  field,          \* the pointer stored at each place
  p_ptr,          \* the chunk each proxy points into; NULL = no such object
  ob_refcnt,      \* the reference counter of each proxy
  pyrefs,         \* the references held by Python code, for comparison
  leaked,         \* history: those the code took and will never give back
  proxy_dict,     \* weak: chunk -> base proxy
  pointing_dict,  \* proxy_pointing_addr_dict, strong: location -> base proxy
  frame,          \* the proxy whose tp_dealloc is running, or NULL
  caller,         \* the proxy whose tp_dealloc is suspended below it
  pc,             \* where each tp_dealloc is
  notify_dest,    \* destination of the pointer store in progress, or NULL
  notify_val,     \* the pointer that store will write
  freeing,        \* chunk whose fields C's free is letting go of, or NULL
  init_obj,       \* the proxy being initialised, or NULL
  init_todo,      \* its slots still to be initialised
  init_fresh,     \* whether it is under construction (__init__ can run again)
  init_attrs,     \* whether its fields are being read from attributes
  gen,            \* collector generation of each base proxy
  dict_gen,       \* that of proxy_pointing_addr_dict; Untracked if untracked
  gc_set,         \* unreachable base proxies the collector has still to clear
  gc_hold,        \* the one it is clearing, which it holds a reference to
  condemned,      \* history: chunks a collection without C-owned chunks took
  forgotten       \* history: slots other collections removed the entry of

heapVars  == <<policies, field>>
histVars  == <<condemned, forgotten>>
proxyVars == <<p_ptr, ob_refcnt, pyrefs, leaked>>
stackVars == <<frame, caller, pc>>
storeVars == <<notify_dest, notify_val, freeing>>
initVars  == <<init_obj, init_todo, init_fresh, init_attrs>>
gcVars    == <<gc_set, gc_hold>>
genVars   == <<gen, dict_gen>>
vars == <<heapVars, histVars, proxyVars, proxy_dict, pointing_dict, stackVars,
          storeVars, initVars, gcVars, genVars>>

Untracked == -1

(* Every variable has its type; no reference counter goes below zero.      *)
TypeOK ==
  /\ policies \in [Chunk -> SUBSET {"manual", "gc"}]
  /\ field \in [Place -> Chunk \cup {NULL}]
  /\ p_ptr \in [Proxy -> Chunk \cup {NULL}]
  /\ ob_refcnt \in [Proxy -> Nat]
  /\ pyrefs \in [Proxy -> Nat]
  /\ leaked \in [Proxy -> Nat]
  /\ proxy_dict \in [Chunk -> Proxy \cup {NULL}]
  /\ pointing_dict \in [Loc -> Proxy \cup {NULL}]
  /\ frame \in Proxy \cup {NULL}
  /\ caller \in [Proxy -> Proxy \cup {NULL}]
  /\ pc \in [Proxy -> {"idle", "unregister", "sweep", "unmap", "own"}]
  /\ notify_dest \in Place \cup {NULL}
  /\ notify_val \in Chunk \cup {NULL}
  /\ freeing \in Chunk \cup {NULL}
  /\ init_obj \in Proxy \cup {NULL}
  /\ init_todo \in SUBSET Slot
  /\ init_fresh \in BOOLEAN /\ init_attrs \in BOOLEAN
  /\ gen \in [Proxy -> 0..OldestGen]
  /\ dict_gen \in Untracked..OldestGen
  /\ gc_set \in SUBSET Proxy
  /\ gc_hold \in Proxy \cup {NULL}
  /\ condemned \in SUBSET Chunk
  /\ forgotten \in SUBSET Slot

-----------------------------------------------------------------------------
(* Who holds what.                                                         *)

Live(c)     == policies[c] # {}
Slots(c)    == {s \in Slot : Owner[s] = c}
NoObject(p) == p_ptr[p] = NULL
Holds(p)    == pyrefs[p] > 0                  \* Python code can name p
IsBase(p)   == ~NoObject(p) /\ proxy_dict[p_ptr[p]] = p
GcManaged(c) == c # NULL /\ "gc" \in policies[c]
EntriesOf(p) == {l \in Loc : pointing_dict[l] = p}

(* Memory that C or a proxy still owns: the last base proxy of a chunk that *)
(* is being deallocated is about to free it.                                *)
InUse(c) ==
  "manual" \in policies[c] \/ (GcManaged(c) /\ pc[proxy_dict[c]] = "idle")

(* A place whose content the program may still read: storage that is in    *)
(* use, has been initialised, and is not part of what the collector        *)
(* condemned.                                                              *)
Readable(x) ==
  \/ x \in Var
  \/ /\ x \in Slot /\ InUse(Owner[x])
     /\ Owner[x] \notin condemned /\ x \notin forgotten
     /\ ~(init_fresh /\ x \in init_todo)

Init ==
  /\ policies = [c \in Chunk |-> {}]
  /\ field = [x \in Place |-> NULL]
  /\ p_ptr = [p \in Proxy |-> NULL]
  /\ ob_refcnt = [p \in Proxy |-> 0]
  /\ pyrefs = [p \in Proxy |-> 0]
  /\ leaked = [p \in Proxy |-> 0]
  /\ proxy_dict = [c \in Chunk |-> NULL]
  /\ pointing_dict = [l \in Loc |-> NULL]
  /\ frame = NULL
  /\ caller = [p \in Proxy |-> NULL]
  /\ pc = [p \in Proxy |-> "idle"]
  /\ notify_dest = NULL /\ notify_val = NULL /\ freeing = NULL
  /\ init_obj = NULL /\ init_todo = {} /\ init_fresh = FALSE /\ init_attrs = FALSE
  /\ gen = [p \in Proxy |-> 0]
  /\ dict_gen = Untracked
  /\ gc_set = {} /\ gc_hold = NULL
  /\ condemned = {} /\ forgotten = {}

(* No pointer store, free or deallocation is under way. *)
Quiet == frame = NULL /\ notify_dest = NULL /\ freeing = NULL

(* Nothing at all is: Python or C code decides what happens next. *)
Idle == Quiet /\ init_obj = NULL /\ gc_set = {} /\ gc_hold = NULL

-----------------------------------------------------------------------------
(* Reference counting.                                                     *)

NoDealloc == UNCHANGED stackVars

(* tp_dealloc of q is called, on top of the one running, if any. *)
EnterDealloc(q) ==
  /\ frame' = q
  /\ caller' = [caller EXCEPT ![q] = frame]
  /\ pc' = [pc EXCEPT ![q] = "unregister"]

(* Py_DECREF *)
DecRef(q) ==
  /\ ob_refcnt' = [ob_refcnt EXCEPT ![q] = @ - 1]
  /\ IF ob_refcnt[q] = 1 THEN EnterDealloc(q) ELSE NoDealloc

(* proxy_delref: an entry that does not exist is not an error. *)
DelRef(from) ==
  IF pointing_dict[from] = NULL
  THEN UNCHANGED <<pointing_dict, ob_refcnt, stackVars>>
  ELSE /\ pointing_dict' = [pointing_dict EXCEPT ![from] = NULL]
       /\ DecRef(pointing_dict[from])

(* Mutant: the entry is made without a reference of its own. *)
AddRefToBorrowed(target, from) ==
  /\ pointing_dict' = [pointing_dict EXCEPT ![from] = target]
  /\ UNCHANGED <<ob_refcnt, stackVars, dict_gen>>

(* Proxy_AddRefTo in a build with NDEBUG: PyDict_SetItem replaces the entry *)
(* that is there.  Storing an object CPython's collector tracks makes it    *)
(* track the dictionary too.                                                *)
AddRefTo(target, from) ==
  LET old == pointing_dict[from] IN
  /\ pointing_dict' = [pointing_dict EXCEPT ![from] = target]
  /\ dict_gen' = IF dict_gen = Untracked THEN 0 ELSE dict_gen
  /\ CASE old = NULL ->
            /\ ob_refcnt' = [ob_refcnt EXCEPT ![target] = @ + 1]
            /\ NoDealloc
       [] old = target -> UNCHANGED <<ob_refcnt, stackVars>>
       [] OTHER ->
            /\ ob_refcnt' = [ob_refcnt EXCEPT ![target] = @ + 1, ![old] = @ - 1]
            /\ IF ob_refcnt[old] = 1 THEN EnterDealloc(old) ELSE NoDealloc

(* Mutant: the policy is not attached. *)
RegisterOnly(b, c) ==
  /\ proxy_dict' = [proxy_dict EXCEPT ![c] = b]
  /\ gen' = [gen EXCEPT ![b] = 0]
  /\ UNCHANGED policies

(* Proxy_Register: b becomes the base proxy of c. *)
Register(b, c) ==
  /\ proxy_dict' = [proxy_dict EXCEPT ![c] = b]
  /\ policies' = [policies EXCEPT ![c] = @ \cup {"gc"}]
  /\ gen' = [gen EXCEPT ![b] = 0]

-----------------------------------------------------------------------------
(* tp_dealloc: proxy_dealloc, Proxy_Unregister and the fields of the chunk *)
(* that liballocs lets go of when it frees it.                             *)

(* The history of a chunk ends with the chunk. *)
Forget(c) ==
  condemned' = condemned \ {c} /\ forgotten' = forgotten \ Slots(c)

(* Mutant: the policy is detached whoever is registered. *)
UnregisterAny(p) ==
  LET c == p_ptr[p]
      left == policies[c] \ {"gc"} IN
  /\ frame = p /\ pc[p] = "unregister"
  /\ gc_set' = gc_set \ {p}
  /\ policies' = [policies EXCEPT ![c] = left]
  /\ pc' = [pc EXCEPT ![p] = IF left = {} THEN "sweep" ELSE "unmap"]
  /\ IF left = {} THEN Forget(c) ELSE UNCHANGED histVars
  /\ UNCHANGED <<field, proxyVars, proxy_dict, pointing_dict, frame, caller,
                 storeVars, initVars, gc_hold, genVars>>

(* Proxy_Unregister up to the detach.  A proxy that is not registered has  *)
(* nothing to undo; a chunk with no policy left is freed.                  *)
Unregister(p) ==
  LET c == p_ptr[p]
      left == policies[c] \ {"gc"} IN
  /\ frame = p /\ pc[p] = "unregister"
  /\ IF proxy_dict[c] = p
     THEN /\ gc_set' = gc_set \ {p}
          /\ policies' = [policies EXCEPT ![c] = left]
          /\ pc' = [pc EXCEPT ![p] = IF left = {} THEN "sweep" ELSE "unmap"]
          /\ IF left = {} THEN Forget(c) ELSE UNCHANGED histVars
     ELSE /\ pc' = [pc EXCEPT ![p] = "own"]
          /\ UNCHANGED <<gc_set, policies, histVars>>
  /\ UNCHANGED <<field, proxyVars, proxy_dict, pointing_dict, frame, caller,
                 storeVars, initVars, gc_hold, genVars>>

(* One pointer field of a chunk that is being freed is let go of. *)
SweepSlot(s) ==
  /\ field[s] # NULL
  /\ field' = [field EXCEPT ![s] = NULL]
  /\ IF GcManaged(field[s]) THEN DelRef(s)
     ELSE UNCHANGED <<pointing_dict, ob_refcnt, stackVars>>
  /\ UNCHANGED <<policies, histVars, p_ptr, pyrefs, leaked, proxy_dict, storeVars,
                 initVars, gcVars, genVars>>

Sweep(p) ==
  /\ frame = p /\ pc[p] = "sweep"
  /\ \E s \in Slots(p_ptr[p]) : SweepSlot(s)

EndSweep(p) ==
  /\ frame = p /\ pc[p] = "sweep"
  /\ \A s \in Slots(p_ptr[p]) : field[s] = NULL
  /\ pc' = [pc EXCEPT ![p] = "unmap"]
  /\ UNCHANGED <<heapVars, histVars, proxyVars, proxy_dict, pointing_dict, frame, caller,
                 storeVars, initVars, gcVars, genVars>>

(* The end of Proxy_Unregister: the address is forgotten. *)
Unmap(p) ==
  /\ frame = p /\ pc[p] = "unmap"
  /\ proxy_dict' = [proxy_dict EXCEPT ![p_ptr[p]] = NULL]
  /\ pc' = [pc EXCEPT ![p] = "own"]
  /\ UNCHANGED <<heapVars, histVars, proxyVars, pointing_dict, frame, caller, storeVars,
                 initVars, gcVars, genVars>>

(* A proxy inside a chunk lets go of the base it keeps alive. *)
DropOwnRef(p) ==
  /\ frame = p /\ pc[p] = "own" /\ pointing_dict[p] # NULL
  /\ DelRef(p)
  /\ UNCHANGED <<heapVars, histVars, p_ptr, pyrefs, leaked, proxy_dict, storeVars,
                 initVars, gcVars, genVars>>

(* tp_free; control returns to the deallocation below. *)
FreeObject(p) ==
  /\ frame = p /\ pc[p] = "own" /\ pointing_dict[p] = NULL
  /\ p_ptr' = [p_ptr EXCEPT ![p] = NULL]
  /\ frame' = caller[p]
  /\ caller' = [caller EXCEPT ![p] = NULL]
  /\ pc' = [pc EXCEPT ![p] = "idle"]
  /\ gen' = [gen EXCEPT ![p] = 0]
  /\ UNCHANGED <<heapVars, histVars, ob_refcnt, pyrefs, leaked, proxy_dict, pointing_dict,
                 storeVars, initVars, gcVars, dict_gen>>

Dealloc ==
  \E p \in Proxy : \/ Unregister(p) \/ Sweep(p) \/ EndSweep(p) \/ Unmap(p)
                   \/ DropOwnRef(p) \/ FreeObject(p)

-----------------------------------------------------------------------------
(* Pointer stores.  liballocs is notified before the write: it first calls *)
(* proxy_delref for the old pointer, then proxy_addref for the new one,    *)
(* each only if the chunk pointed to has the gc policy.  Everything the    *)
(* delref deallocates is gone before the addref.                           *)

(* Mutant: the old pointer stays recorded. *)
BeginStoreKeepingOld(dest, val) ==
  /\ notify_dest' = dest
  /\ notify_val' = val
  /\ UNCHANGED <<pointing_dict, ob_refcnt, stackVars>>

BeginStore(dest, val) ==
  /\ notify_dest' = dest
  /\ notify_val' = val
  /\ IF GcManaged(field[dest]) THEN DelRef(dest)
     ELSE UNCHANGED <<pointing_dict, ob_refcnt, stackVars>>

(* Mutant: the write is not announced (no __notify_ptr_write). *)
FinishStoreSilently ==
  /\ frame = NULL /\ notify_dest # NULL
  /\ field' = [field EXCEPT ![notify_dest] = notify_val]
  /\ forgotten' = forgotten \ {notify_dest}
  /\ notify_dest' = NULL /\ notify_val' = NULL
  /\ UNCHANGED <<policies, condemned, proxyVars, proxy_dict, pointing_dict, stackVars,
                 freeing, initVars, gcVars, genVars>>

FinishStore ==
  /\ frame = NULL /\ notify_dest # NULL
  /\ IF GcManaged(notify_val)
     THEN AddRefTo(proxy_dict[notify_val], notify_dest)
     ELSE UNCHANGED <<pointing_dict, ob_refcnt, stackVars, dict_gen>>
  /\ field' = [field EXCEPT ![notify_dest] = notify_val]
  /\ forgotten' = forgotten \ {notify_dest}
  /\ notify_dest' = NULL /\ notify_val' = NULL
  /\ UNCHANGED <<policies, condemned, p_ptr, pyrefs, leaked, proxy_dict, freeing,
                 initVars, gcVars, gen>>

-----------------------------------------------------------------------------
(* Python code: constructors, attribute access, references.                *)

(* What Python code can pass: None, or a proxy it can name.  The object    *)
(* under construction is not one yet.                                      *)
PyValues ==
  {NULL} \cup {p_ptr[q] : q \in {q \in Proxy :
                                 Holds(q) /\ ~(init_fresh /\ q = init_obj)}}

(* The bound on the references of Python. *)
MayHold == Cardinality({r \in Proxy \X (1..MaxHeld) : r[2] <= pyrefs[r[1]]}) < MaxHeld

(* compositeproxy_ctor, arrayproxy_ctor, Proxy_CopyFrom up to the          *)
(* initialiser: malloc returns memory whose content is arbitrary, the      *)
(* proxy is registered for it, and the manual policy is detached.  The     *)
(* initialiser of a struct with one argument begins with the attributes of *)
(* the argument.                                                           *)
Construct(p, c) ==
  /\ Idle /\ MayHold /\ NoObject(p) /\ ~Live(c) /\ proxy_dict[c] = NULL
  /\ \E junk \in [Slots(c) -> Chunk \cup {NULL}] :
       field' = [x \in Place |-> IF x \in Slots(c) THEN junk[x] ELSE field[x]]
  /\ Register(p, c)
  /\ p_ptr' = [p_ptr EXCEPT ![p] = c]
  /\ ob_refcnt' = [ob_refcnt EXCEPT ![p] = 1]
  /\ pyrefs' = [pyrefs EXCEPT ![p] = 1]
  /\ init_obj' = p /\ init_todo' = Slots(c) /\ init_fresh' = TRUE
  /\ init_attrs' \in BOOLEAN
  /\ UNCHANGED <<leaked, histVars, pointing_dict, stackVars, storeVars, gcVars,
                 dict_gen>>

(* Calling __init__ again on an object that exists. *)
Reinit(p) ==
  /\ Idle /\ Reinits /\ Holds(p)
  /\ init_obj' = p /\ init_todo' = Slots(p_ptr[p]) /\ init_fresh' = FALSE
  /\ init_attrs' \in BOOLEAN
  /\ UNCHANGED <<heapVars, histVars, proxyVars, proxy_dict, pointing_dict, stackVars,
                 storeVars, gcVars, genVars>>

(* What a field is initialised from: an argument, the field of a struct    *)
(* that is copied, or a struct C returned by value.                        *)
InitValues ==
  LET others == {q \in Proxy : Holds(q) /\ p_ptr[q] # p_ptr[init_obj]} IN
  PyValues
    \cup {field[s] : s \in {s \in Slot : /\ Readable(s)
                                         /\ \E q \in others : Owner[s] = p_ptr[q]}}
    \cup {field[v] : v \in Var}

(* Mutant: the same field is initialised again and again. *)
InitStoreAgain(s, val) ==
  /\ Quiet /\ init_obj # NULL /\ s \in init_todo /\ val \in InitValues
  /\ BeginStore(s, val)
  /\ UNCHANGED <<heapVars, histVars, p_ptr, pyrefs, leaked, proxy_dict, freeing,
                 initVars, gcVars, genVars>>

InitStore(s, val) ==
  /\ Quiet /\ init_obj # NULL /\ s \in init_todo /\ val \in InitValues
  /\ BeginStore(s, val)
  /\ init_todo' = init_todo \ {s}
  /\ UNCHANGED <<heapVars, histVars, p_ptr, pyrefs, leaked, proxy_dict, freeing,
                 init_obj, init_fresh, init_attrs, gcVars, genVars>>

(* The bound on leaked references. *)
MayLeak == Cardinality({r \in Proxy \X (1..MaxLeaked) : r[2] <= leaked[r[1]]}) < MaxLeaked

(* PyObject_GetAttrString returns a new reference to an attribute, which   *)
(* compositeproxy_init never gives back, whether the field can be stored   *)
(* (the next step, if it is a pointer) or not.                             *)
ReadAttribute(p) ==
  /\ Quiet /\ init_obj # NULL /\ init_attrs /\ MayLeak
  /\ Holds(p) /\ ~(init_fresh /\ p = init_obj)
  /\ ob_refcnt' = [ob_refcnt EXCEPT ![p] = @ + 1]
  /\ leaked' = [leaked EXCEPT ![p] = @ + 1]
  /\ UNCHANGED <<heapVars, histVars, p_ptr, pyrefs, proxy_dict, pointing_dict,
                 stackVars, storeVars, initVars, gcVars, genVars>>

(* An attribute is missing or cannot be stored: all fields are initialised *)
(* again from the arguments, those that were stored included.              *)
AttributesFail ==
  /\ Quiet /\ init_obj # NULL /\ init_attrs
  /\ Reinits \/ init_todo = Slots(p_ptr[init_obj])
  /\ init_todo' = Slots(p_ptr[init_obj]) /\ init_attrs' = FALSE
  /\ UNCHANGED <<heapVars, histVars, proxyVars, proxy_dict, pointing_dict,
                 stackVars, storeVars, init_obj, init_fresh, gcVars, genVars>>

(* memset: liballocs is not told that a pointer was overwritten. *)
InitZero(s) ==
  /\ Quiet /\ init_obj # NULL /\ ~init_attrs /\ s \in init_todo
  /\ field' = [field EXCEPT ![s] = NULL]
  /\ init_todo' = init_todo \ {s}
  /\ UNCHANGED <<policies, histVars, proxyVars, proxy_dict, pointing_dict,
                 stackVars, storeVars, init_obj, init_fresh, init_attrs, gcVars,
                 genVars>>

EndInit ==
  /\ Quiet /\ init_obj # NULL /\ init_todo = {}
  /\ init_obj' = NULL /\ init_fresh' = FALSE /\ init_attrs' = FALSE
  /\ UNCHANGED <<heapVars, histVars, proxyVars, proxy_dict, pointing_dict, stackVars,
                 storeVars, init_todo, gcVars, genVars>>

(* Mutant: a constructor that fails forgets to drop its object. *)
InitFailLeaking ==
  /\ Quiet /\ init_obj # NULL /\ ~init_attrs
  /\ init_obj' = NULL /\ init_todo' = {} /\ init_fresh' = FALSE
  /\ UNCHANGED init_attrs
  /\ pyrefs' = IF init_fresh THEN [pyrefs EXCEPT ![init_obj] = @ - 1] ELSE pyrefs
  /\ UNCHANGED <<heapVars, histVars, p_ptr, ob_refcnt, leaked, proxy_dict,
                 pointing_dict, stackVars, storeVars, gcVars, genVars>>

(* An argument cannot be converted: a constructor drops the new object, a  *)
(* second __init__ leaves the object half initialised.                     *)
InitFail ==
  /\ Quiet /\ init_obj # NULL /\ ~init_attrs
  /\ init_obj' = NULL /\ init_todo' = {} /\ init_fresh' = FALSE
  /\ UNCHANGED init_attrs
  /\ IF init_fresh
     THEN /\ DecRef(init_obj)
          /\ pyrefs' = [pyrefs EXCEPT ![init_obj] = @ - 1]
     ELSE UNCHANGED <<ob_refcnt, stackVars, pyrefs>>
  /\ UNCHANGED <<heapVars, histVars, p_ptr, leaked, proxy_dict, pointing_dict, storeVars,
                 gcVars, genVars>>

(* obj.field = value, obj[i] = value, with value None or a proxy. *)
SetField(p, s, val) ==
  /\ Idle /\ Holds(p) /\ s \in Slots(p_ptr[p]) /\ val \in PyValues
  /\ BeginStore(s, val)
  /\ UNCHANGED <<heapVars, histVars, p_ptr, pyrefs, leaked, proxy_dict, freeing,
                 initVars, gcVars, genVars>>

(* Addresses Python can ask a proxy for: those in the pointers it can read *)
(* (fields of objects it holds, results of C functions) and subobjects.    *)
Decodable ==
  {c \in Chunk : /\ Live(c)
                 /\ \/ \E q \in Proxy : Holds(q) /\ p_ptr[q] = c
                    \/ \E v \in Var : field[v] = c
                    \/ \E s \in Slot : /\ Readable(s) /\ field[s] = c
                                       /\ \E q \in Proxy :
                                            Holds(q) /\ p_ptr[q] = Owner[s]}

(* Proxy_GetOrCreateBase: b is the base proxy of c, created if need be. *)
GetOrCreateBase(c, b) ==
  \/ proxy_dict[c] = b /\ UNCHANGED <<proxy_dict, policies, gen>>
  \/ proxy_dict[c] = NULL /\ NoObject(b) /\ Register(b, c)

(* The bound on references of Python to what it has another one to. *)
MayShare == Cardinality({r \in Proxy \X (1..MaxShared) : r[2] < pyrefs[r[1]]}) < MaxShared

(* ft_getfrom returns the base proxy itself. *)
ReturnBase(c, b) ==
  /\ Idle /\ c \in Decodable /\ GetOrCreateBase(c, b)
  /\ MayHold /\ (Holds(b) => MayShare)
  /\ p_ptr' = [p_ptr EXCEPT ![b] = c]
  /\ ob_refcnt' = [ob_refcnt EXCEPT ![b] = @ + 1]
  /\ pyrefs' = [pyrefs EXCEPT ![b] = @ + 1]
  /\ UNCHANGED <<field, histVars, leaked, pointing_dict, stackVars, storeVars,
                 initVars, gcVars, dict_gen>>

(* Mutant: the new proxy does not keep the base alive. *)
ReturnUnanchored(c, b, d) ==
  /\ Idle /\ MayHold /\ c \in Decodable /\ b # d /\ NoObject(d)
  /\ proxy_dict[c] = b
  /\ p_ptr' = [p_ptr EXCEPT ![d] = c]
  /\ ob_refcnt' = [ob_refcnt EXCEPT ![d] = 1]
  /\ pyrefs' = [pyrefs EXCEPT ![d] = 1]
  /\ UNCHANGED <<heapVars, histVars, leaked, proxy_dict, pointing_dict, stackVars,
                 storeVars, initVars, gcVars, genVars>>

(* ft_getfrom, or a slice, returns a new proxy d that keeps the base alive. *)
ReturnDerived(c, b, d) ==
  /\ Idle /\ MayHold /\ c \in Decodable /\ b # d /\ NoObject(d)
  /\ GetOrCreateBase(c, b)
  /\ p_ptr' = [p_ptr EXCEPT ![b] = c, ![d] = c]
  /\ pointing_dict' = [pointing_dict EXCEPT ![d] = b]
  /\ ob_refcnt' = [ob_refcnt EXCEPT ![b] = @ + 1, ![d] = 1]
  /\ pyrefs' = [pyrefs EXCEPT ![d] = 1]
  /\ dict_gen' = IF dict_gen = Untracked THEN 0 ELSE dict_gen
  /\ UNCHANGED <<field, histVars, leaked, stackVars, storeVars, initVars, gcVars>>

PyIncref(p) ==
  /\ Idle /\ Holds(p) /\ MayHold /\ MayShare
  /\ ob_refcnt' = [ob_refcnt EXCEPT ![p] = @ + 1]
  /\ pyrefs' = [pyrefs EXCEPT ![p] = @ + 1]
  /\ UNCHANGED <<heapVars, histVars, p_ptr, leaked, proxy_dict, pointing_dict, stackVars,
                 storeVars, initVars, gcVars, genVars>>

PyDecref(p) ==
  /\ Idle /\ Holds(p)
  /\ DecRef(p)
  /\ pyrefs' = [pyrefs EXCEPT ![p] = @ - 1]
  /\ UNCHANGED <<heapVars, histVars, p_ptr, leaked, proxy_dict, pointing_dict, storeVars,
                 initVars, gcVars, genVars>>

(* closureproxy_call takes a reference to what the callable returns, and   *)
(* makes the tuple of its arguments, and gives neither back.               *)
CallbackLeaks(p) ==
  /\ Idle /\ Holds(p) /\ MayLeak
  /\ ob_refcnt' = [ob_refcnt EXCEPT ![p] = @ + 1]
  /\ leaked' = [leaked EXCEPT ![p] = @ + 1]
  /\ UNCHANGED <<heapVars, histVars, p_ptr, pyrefs, proxy_dict, pointing_dict,
                 stackVars, storeVars, initVars, gcVars, genVars>>

-----------------------------------------------------------------------------
(* C code, compiled so that its pointer stores notify liballocs.  It obeys *)
(* C's own rules: it touches memory it owns or has a pointer to, a value   *)
(* loaded from memory goes to a fresh variable first, and what it frees it *)
(* has no untracked pointer to any more.                                   *)

CReaches(c) == Live(c) /\ ("manual" \in policies[c] \/ \E v \in Var : field[v] = c)

CMalloc(c, v) ==
  /\ Idle /\ ~Live(c) /\ proxy_dict[c] = NULL /\ field[v] = NULL
  /\ policies' = [policies EXCEPT ![c] = {"manual"}]
  /\ field' = [x \in Place |-> IF x = v THEN c
                               ELSE IF x \in Slots(c) THEN NULL ELSE field[x]]
  /\ UNCHANGED <<histVars, proxyVars, proxy_dict, pointing_dict, stackVars,
                 storeVars, initVars, gcVars, genVars>>

CWrite(dest, val) ==
  /\ Idle
  /\ dest \in Slot => CReaches(Owner[dest])
  /\ \/ val \in PyValues                                 \* a call argument
     \/ \E v \in Var \ {dest} : val = field[v]
     \/ \E s \in Slot : /\ Readable(s) /\ CReaches(Owner[s]) /\ val = field[s]
                        /\ dest \in Var /\ field[dest] = NULL
  /\ BeginStore(dest, val)
  /\ UNCHANGED <<heapVars, histVars, p_ptr, pyrefs, leaked, proxy_dict, freeing,
                 initVars, gcVars, genVars>>

(* free: the chunk survives while a base proxy is registered for it. *)
CFree(c) ==
  /\ Idle /\ "manual" \in policies[c]
  /\ \A x \in Place : field[x] = c /\ Readable(x) =>
       pointing_dict[x] # NULL /\ pointing_dict[x] = proxy_dict[c]
  /\ policies' = [policies EXCEPT ![c] = @ \ {"manual"}]
  /\ freeing' = IF policies[c] = {"manual"} THEN c ELSE NULL
  /\ IF policies[c] = {"manual"} THEN Forget(c) ELSE UNCHANGED histVars
  /\ UNCHANGED <<field, proxyVars, proxy_dict, pointing_dict, stackVars,
                 notify_dest, notify_val, initVars, gcVars, genVars>>

CFreeSweep ==
  /\ frame = NULL /\ freeing # NULL
  /\ \E s \in Slots(freeing) : SweepSlot(s)

CFreeEnd ==
  /\ frame = NULL /\ freeing # NULL
  /\ \A s \in Slots(freeing) : field[s] = NULL
  /\ freeing' = NULL
  /\ UNCHANGED <<heapVars, histVars, proxyVars, proxy_dict, pointing_dict, stackVars,
                 notify_dest, notify_val, initVars, gcVars, genVars>>

-----------------------------------------------------------------------------
(* CPython's cyclic collector, driven by tp_traverse and tp_clear.         *)

(* Mutant: references from anywhere count as references from the garbage. *)
ClosedGarbageAnywhere(young) ==
  UNION {U \in SUBSET young : \A p \in U : ob_refcnt[p] = Cardinality(EntriesOf(p))}

(* Base proxies all of whose references are in fields of one another.      *)
ClosedGarbage(young) ==
  UNION {U \in SUBSET young : \A p \in U :
           ob_refcnt[p] = Cardinality({s \in Slot : /\ pointing_dict[s] = p
                                                    /\ proxy_dict[Owner[s]] \in U})}

(* While the collector examines proxy_pointing_addr_dict itself, which its *)
(* C variable keeps alive, everything the dictionary owns is reachable.    *)
Garbage(g) ==
  IF dict_gen <= g THEN {}
  ELSE ClosedGarbage({p \in Proxy : IsBase(p) /\ gen[p] <= g})

Older(g) == IF g < OldestGen THEN g + 1 ELSE OldestGen

Collect(g) ==
  /\ Idle
  /\ gc_set' = Garbage(g)
  /\ gen' = [p \in Proxy |-> IF IsBase(p) /\ gen[p] <= g /\ p \notin Garbage(g)
                             THEN Older(g) ELSE gen[p]]
  /\ dict_gen' = IF dict_gen = Untracked \/ dict_gen > g THEN dict_gen
                 ELSE IF g = OldestGen /\ \A l \in Loc : pointing_dict[l] = NULL
                 THEN Untracked         \* _PyDict_MaybeUntrack
                 ELSE Older(g)
  /\ condemned' = LET taken == {p_ptr[p] : p \in Garbage(g)} IN
                  IF \E c \in taken : "manual" \in policies[c]
                  THEN condemned ELSE condemned \cup taken
  /\ UNCHANGED <<heapVars, forgotten, proxyVars, proxy_dict, pointing_dict,
                 stackVars, storeVars, initVars, gc_hold>>

ClearStart(p) ==
  /\ Quiet /\ gc_hold = NULL /\ p \in gc_set
  /\ gc_hold' = p
  /\ ob_refcnt' = [ob_refcnt EXCEPT ![p] = @ + 1]
  /\ UNCHANGED <<heapVars, histVars, p_ptr, pyrefs, leaked, proxy_dict, pointing_dict,
                 stackVars, storeVars, initVars, gc_set, genVars>>

(* Proxy_TraverseRef with visit = Proxy_ClearRef: the entry goes, the      *)
(* pointer itself stays in memory.                                         *)
ClearSlot(s) ==
  /\ Quiet /\ gc_hold # NULL /\ s \in Slots(p_ptr[gc_hold])
  /\ pointing_dict[s] # NULL
  /\ DelRef(s)
  /\ forgotten' = IF Owner[s] \in condemned THEN forgotten
                  ELSE forgotten \cup {s}
  /\ UNCHANGED <<heapVars, condemned, p_ptr, pyrefs, leaked, proxy_dict, storeVars,
                 initVars, gcVars, genVars>>

ClearEnd ==
  /\ Quiet /\ gc_hold # NULL
  /\ \A s \in Slots(p_ptr[gc_hold]) : pointing_dict[s] = NULL
  /\ DecRef(gc_hold)
  /\ gc_set' = gc_set \ {gc_hold}
  /\ gc_hold' = NULL
  /\ UNCHANGED <<heapVars, histVars, p_ptr, pyrefs, leaked, proxy_dict, pointing_dict,
                 storeVars, initVars, genVars>>

-----------------------------------------------------------------------------
(* Steps that follow once an operation has begun. *)
Runtime ==
  \/ Dealloc \/ FinishStore \/ CFreeSweep \/ CFreeEnd
  \/ \E p \in Proxy : ClearStart(p)
  \/ \E s \in Slot : ClearSlot(s)
  \/ ClearEnd
  \/ \E s \in Slot : InitZero(s)
  \/ \E s \in Slot, val \in Chunk \cup {NULL} : InitStore(s, val)
  \/ \E p \in Proxy : ReadAttribute(p)
  \/ AttributesFail \/ EndInit \/ InitFail

PythonStep ==
  \/ \E p \in Proxy, c \in Chunk : Construct(p, c)
  \/ \E p \in Proxy : Reinit(p)
  \/ \E p \in Proxy, s \in Slot, val \in Chunk \cup {NULL} : SetField(p, s, val)
  \/ \E c \in Chunk, b \in Proxy : ReturnBase(c, b)
  \/ \E c \in Chunk, b, d \in Proxy : ReturnDerived(c, b, d)
  \/ \E p \in Proxy : PyIncref(p)
  \/ \E p \in Proxy : PyDecref(p)
  \/ \E p \in Proxy : CallbackLeaks(p)

CStep ==
  \/ \E c \in Chunk, v \in Var : CMalloc(c, v)
  \/ \E dest \in Place, val \in Chunk \cup {NULL} : CWrite(dest, val)
  \/ \E c \in Chunk : CFree(c)

Next ==
  \/ Runtime \/ PythonStep \/ CStep
  \/ \E g \in 0..OldestGen : Collect(g)

Spec == Init /\ [][Next]_vars

(* The C code runs on once an operation has begun. *)
FairSpec == Spec /\ WF_vars(Runtime)

(* CPython's collector runs every generation again and again. *)
CollectingSpec ==
  FairSpec /\ \A g \in 0..OldestGen : WF_vars(Collect(g))

-----------------------------------------------------------------------------
(* Correctness.                                                            *)

(* The reference counter of a proxy is the number of references to it that *)
(* exist, Python's, the entries of proxy_pointing_addr_dict (one per       *)
(* recorded pointer) and the collector's temporary one, and of those that  *)
(* two places of the code leak: the attributes read by compositeproxy_init *)
(* (composite_proxy.c:108), and the arguments and the result of a callback *)
(* (function_proxy.c:373,382).  No other path loses one or gives one back  *)
(* twice.                                                                  *)
CountsExact ==
  \A p \in Proxy :
    ob_refcnt[p] = pyrefs[p] + leaked[p] + Cardinality(EntriesOf(p))
                   + (IF gc_hold = p THEN 1 ELSE 0)

(* Every entry names the registered base proxy of a chunk that is alive    *)
(* under the gc policy, whatever deallocation is in progress               *)
(* (proxy.c:27-35: "We should only be called if a proxy is registered").   *)
EntriesSound ==
  \A l \in Loc : LET q == pointing_dict[l] IN
    q # NULL => pc[q] = "idle" /\ IsBase(q) /\ GcManaged(p_ptr[q])

(* A chunk has the gc policy exactly while a base proxy that can still be  *)
(* used is registered for it, so liballocs never calls proxy_addref for a  *)
(* chunk without proxy (the assertions at proxy.c:30-32).                  *)
PolicyHasProxy ==
  \A c \in Chunk : GcManaged(c) <=>
    /\ proxy_dict[c] # NULL /\ p_ptr[proxy_dict[c]] = c
    /\ pc[proxy_dict[c]] \in {"idle", "unregister"}

(* What Python code holds a proxy to is never freed, be it the whole       *)
(* allocation or a part of it, and whatever C frees in between.            *)
HeldMemoryAlive ==
  \A p \in Proxy : Holds(p) => p_ptr[p] # NULL /\ GcManaged(p_ptr[p])

(* No pointer that can still be read points to freed memory.  The place    *)
(* being written is exempt until the write is done.                        *)
NoDangling ==
  \A x \in Place :
    Readable(x) /\ x # notify_dest /\ field[x] # NULL => Live(field[x])

(* Entries for pointers that are no longer there: a second __init__ leaves *)
(* them behind when it zeroes a field.                                     *)
StaleEntries ==
  {s \in Slot : /\ pointing_dict[s] # NULL
                /\ ~(Live(Owner[s]) /\ field[s] = p_ptr[pointing_dict[s]])}

(* Where __init__ never runs twice, proxy_pointing_addr_dict records only  *)
(* pointers that are in memory: nothing is kept alive for a field that was *)
(* overwritten or freed, so no entry outlives its location.                *)
NoStaleEntries == Quiet /\ ~Reinits => StaleEntries = {}

(* A collection whose garbage holds no chunk C still owns frees all of it, *)
(* as long as no stale entry refers to it: the collector never half-clears *)
(* an object the program goes on using.                                    *)
ClearedIsFreed == Idle /\ StaleEntries = {} => condemned = {}

(* Whatever an operation sets off (a cascade of deallocations, a pass of   *)
(* the collector, an initialisation) comes to an end.                      *)
OperationsEnd == []<>Idle

-----------------------------------------------------------------------------
(* What the repository says of the program and the code does not do.       *)

(* proxy.c:20 asserts that a pointer recorded at an address finds no entry *)
(* for that address.  A second __init__ breaks it (memset).                *)
FreshFrom ==
  frame = NULL /\ notify_dest # NULL /\ GcManaged(notify_val)
    => pointing_dict[notify_dest] = NULL

(* proxy.c:89: attaching the policy extends the lifetime of the object:    *)
(* outside operations, no pointer in memory that is in use dangles.        *)
LifetimeExtended ==
  Idle => \A x \in Place : (x \in Slot => Live(Owner[x])) /\ field[x] # NULL
                             => Live(field[x])

(* tests/gc_struct_cycle.py:5: with the collector enabled, cycles that are *)
(* dropped do not leak.                                                    *)
Lost(p) == p \in ClosedGarbage({q \in Proxy : IsBase(q)})
CyclesReclaimed == \A p \in Proxy : Lost(p) ~> ~Lost(p)
=============================================================================
