----------------------- MODULE FunctionProxiesProofs -----------------------
(***************************************************************************)
(* Proofs about FunctionProxies: first those about closures, for any       *)
(* number of closures and fields, then what holds of the whole.            *)
(*                                                                         *)
(* Closures go only when neither Python nor an entry refers to them, so    *)
(* nothing refers to a closure that is gone, and its callable is given up  *)
(* once.  A pointer in memory is no reference: whether one has an entry    *)
(* depends on who manages the memory of the code, and no theorem says that *)
(* a stored closure lives.                                                 *)
(*                                                                         *)
(* A behaviour of the whole is one of each component, most of which do     *)
(* nothing in it, so that the theorems about components apply.             *)
(***************************************************************************)
EXTENDS FunctionProxies, TLAPS

Referred(r, e) == {c \in Closure : r[c] > 0 \/ \E s \in Slot : e[s] = c}
LiveCode == {c \in Closure : code[c] = "live"}

(* What Python or an entry refers to is live. *)
ReferredLive == Referred(pyrefs, entry) \subseteq LiveCode

IInv == TypeOK /\ CallableKept /\ RegisteredLive /\ ReferredLive

-----------------------------------------------------------------------------
LEMMA InvInit == Init => IInv
BY ManagedAssumption, NullAssumption
DEF Init, IInv, TypeOK, CallableKept, RegisteredLive, ReferredLive,
    Referred, LiveCode

(* Freeing what nothing refers to keeps callables and registry in step     *)
(* with the code.                                                          *)
LEMMA DeallocKeeps ==
  ASSUME IInv, pyrefs' \in [Closure -> Nat],
         entry' \in [Slot -> Closure \cup {NULL}],
         field' \in [Slot -> Closure \cup {NULL}],
         Referred(pyrefs, entry)' \subseteq LiveCode,
         Dealloc(Unreferenced(pyrefs', entry'))
  PROVE  IInv'
<1> DEFINE D == Unreferenced(pyrefs', entry')
<1>0. TypeOK BY DEF IInv
<1>1. /\ code' = [c \in Closure |-> IF c \in D THEN "freed" ELSE code[c]]
      /\ callable_refs' = [c \in Closure |->
                             callable_refs[c] - IF c \in D THEN 1 ELSE 0]
      /\ proxy_dict' = proxy_dict \ D
      /\ gc_policy' = gc_policy \ D
  BY DEF Dealloc
<1>2. D \subseteq LiveCode BY DEF Unreferenced, LiveCode
<1>3. LiveCode' = LiveCode \ D BY <1>1, <1>2 DEF LiveCode
<1>4. \A c \in Closure : callable_refs'[c] = IF code'[c] = "live" THEN 1 ELSE 0
  BY <1>0, <1>1, <1>2 DEF IInv, CallableKept, LiveCode, TypeOK
<1>5. TypeOK'
  <2>1. code' \in [Closure -> {"none", "live", "freed"}] BY <1>0, <1>1 DEF TypeOK
  <2>2. callable_refs' \in [Closure -> Nat]
    <3>1. \A c \in Closure : callable_refs'[c] \in Nat BY <1>4
    <3> QED BY <1>1, <3>1
  <2> QED BY <1>0, <1>1, <2>1, <2>2 DEF TypeOK
<1>6. RegisteredLive' BY <1>1, <1>3 DEF IInv, RegisteredLive, LiveCode
<1>7. ReferredLive'
  <2>1. Referred(pyrefs, entry)' \cap D = {}
    BY DEF Referred, Unreferenced
  <2> QED BY <1>3, <2>1 DEF ReferredLive
<1> QED BY <1>4, <1>5, <1>6, <1>7 DEF IInv, CallableKept

LEMMA InvCreate ==
  ASSUME IInv, NEW c \in Closure, Create(c) PROVE IInv'
<1>0. TypeOK BY DEF IInv
<1>1. /\ code[c] = "none" /\ code' = [code EXCEPT ![c] = "live"]
      /\ callable_refs' = [callable_refs EXCEPT ![c] = @ + 1]
      /\ pyrefs' = [pyrefs EXCEPT ![c] = 1]
      /\ proxy_dict' = proxy_dict \cup {c}
      /\ gc_policy' = gc_policy \cup ({c} \cap Managed)
      /\ UNCHANGED <<field, entry>>
  BY DEF Create
<1>2. LiveCode' = LiveCode \cup {c} BY <1>0, <1>1 DEF LiveCode, TypeOK
<1>3. TypeOK' BY <1>0, <1>1, ManagedAssumption DEF TypeOK
<1>4. CallableKept' BY <1>0, <1>1 DEF IInv, CallableKept, TypeOK
<1>5. RegisteredLive' BY <1>1, <1>2 DEF IInv, RegisteredLive, LiveCode
<1>6. ReferredLive'
  <2>1. \A d \in Closure : d # c => pyrefs'[d] = pyrefs[d] BY <1>0, <1>1 DEF TypeOK
  <2> QED BY <1>1, <1>2, <2>1 DEF IInv, ReferredLive, Referred
<1> QED BY <1>3, <1>4, <1>5, <1>6 DEF IInv

LEMMA InvCreateFails ==
  ASSUME IInv, NEW c \in Closure, CreateFails(c) PROVE IInv'
<1>0. TypeOK BY DEF IInv
<1>1. /\ code[c] = "none" /\ code' = [code EXCEPT ![c] = "freed"]
      /\ UNCHANGED <<pyrefs, callable_refs, proxy_dict, gc_policy, field, entry>>
  BY DEF CreateFails
<1>2. LiveCode' = LiveCode BY <1>0, <1>1 DEF LiveCode, TypeOK
<1>3. TypeOK' BY <1>0, <1>1 DEF TypeOK
<1>4. CallableKept' BY <1>0, <1>1 DEF IInv, CallableKept, TypeOK
<1>5. RegisteredLive' BY <1>1, <1>2 DEF IInv, RegisteredLive, LiveCode
<1>6. ReferredLive' BY <1>1, <1>2 DEF IInv, ReferredLive, Referred
<1> QED BY <1>3, <1>4, <1>5, <1>6 DEF IInv

LEMMA InvPyRefs ==
  ASSUME IInv, NEW c \in Closure, PyIncref(c) \/ PyDecref(c) PROVE IInv'
<1>0. TypeOK BY DEF IInv
<1>1. CASE PyIncref(c)
  <2>1. /\ pyrefs[c] > 0 /\ pyrefs' = [pyrefs EXCEPT ![c] = @ + 1]
        /\ UNCHANGED <<code, callable_refs, proxy_dict, gc_policy, field, entry>>
    BY <1>0, <1>1, BoundAssumption DEF PyIncref, TypeOK
  <2>2. TypeOK' BY <1>0, <2>1 DEF TypeOK
  <2>3. \A d \in Closure : pyrefs'[d] > 0 => pyrefs[d] > 0
    BY <1>0, <2>1 DEF TypeOK
  <2>4. ReferredLive' BY <2>1, <2>3 DEF IInv, ReferredLive, Referred, LiveCode
  <2> QED BY <2>1, <2>2, <2>4
          DEF IInv, CallableKept, RegisteredLive, LiveCode
<1>2. CASE PyDecref(c)
  <2>1. /\ pyrefs[c] > 0 /\ pyrefs' = [pyrefs EXCEPT ![c] = @ - 1]
        /\ UNCHANGED <<field, entry>>
        /\ Dealloc(Unreferenced(pyrefs', entry'))
    BY <1>2 DEF PyDecref, Dealloc, Unreferenced
  <2>2. pyrefs' \in [Closure -> Nat] BY <1>0, <2>1 DEF TypeOK
  <2>3. Referred(pyrefs, entry)' \subseteq LiveCode
    <3>1. \A d \in Closure : pyrefs'[d] > 0 => pyrefs[d] > 0
      BY <1>0, <2>1 DEF TypeOK
    <3> QED BY <2>1, <3>1 DEF IInv, ReferredLive, Referred
  <2> QED BY <1>0, <2>1, <2>2, <2>3, DeallocKeeps DEF IInv, TypeOK
<1> QED BY <1>1, <1>2

(* A store makes an entry for a live closure only: it has a reference.     *)
LEMMA InvStorePointer ==
  ASSUME IInv, NEW s \in Slot, NEW p \in Closure \cup {NULL},
         p # NULL => pyrefs[p] > 0,
         StorePointer(s, p)
  PROVE  IInv'
<1> USE NullAssumption, ManagedAssumption
<1>0. TypeOK BY DEF IInv
<1> DEFINE e == IF p \in gc_policy THEN p ELSE NULL
<1>1. /\ entry' = [entry EXCEPT ![s] = e]
      /\ field' = [field EXCEPT ![s] = p]
      /\ UNCHANGED pyrefs
      /\ Dealloc(Unreferenced(pyrefs', entry'))
  BY DEF StorePointer, Dealloc, Unreferenced
<1>2. p # NULL => p \in LiveCode
  BY DEF IInv, ReferredLive, Referred
<1>4. /\ entry' \in [Slot -> Closure \cup {NULL}]
      /\ field' \in [Slot -> Closure \cup {NULL}]
      /\ pyrefs' \in [Closure -> Nat]
  BY <1>0, <1>1 DEF TypeOK
<1>5. Referred(pyrefs, entry)' \subseteq LiveCode
  <2>1. \A r \in Slot : entry'[r] = entry[r] \/ entry'[r] = NULL \/ entry'[r] = p
    BY <1>0, <1>1 DEF TypeOK
  <2> QED BY <1>1, <1>2, <2>1 DEF IInv, ReferredLive, Referred
<1> QED BY <1>1, <1>4, <1>5, DeallocKeeps DEF IInv

LEMMA InvNext == IInv /\ [Next]_vars => IInv'
<1> SUFFICES ASSUME IInv, [Next]_vars PROVE IInv'
  OBVIOUS
<1>1. CASE \E c \in Closure : Create(c) \/ CreateFails(c)
  BY <1>1, InvCreate, InvCreateFails
<1>2. CASE \E c \in Closure : PyIncref(c) \/ PyDecref(c)
  BY <1>2, InvPyRefs
<1>3. CASE \E c \in Closure, s \in Slot : Store(s, c)
  BY <1>3, InvStorePointer DEF Store
<1>4. CASE \E s \in Slot : StoreNone(s)
  BY <1>4, InvStorePointer DEF StoreNone
<1>5. CASE UNCHANGED vars
  BY <1>5 DEF vars, IInv, TypeOK, CallableKept, RegisteredLive, ReferredLive,
     Referred, LiveCode
<1> QED BY <1>1, <1>2, <1>3, <1>4, <1>5 DEF Next

LEMMA Invariant == Spec => []IInv
<1>1. Init => IInv BY InvInit
<1>2. IInv /\ [Next]_vars => IInv' BY InvNext
<1> QED BY <1>1, <1>2, PTL DEF Spec

-----------------------------------------------------------------------------
(* The results.                                                            *)

(* The counters of closures and callables never go below zero.             *)
THEOREM TypeCorrect == Spec => []TypeOK
<1>1. IInv => TypeOK BY DEF IInv
<1> QED BY <1>1, Invariant, PTL

(* closureproxy_ctor and closureproxy_dealloc balance on every path: each  *)
(* live closure keeps its callable once, and no other does.                *)
THEOREM CallableAlwaysKept == Spec => []CallableKept
<1>1. IInv => CallableKept BY DEF IInv
<1> QED BY <1>1, Invariant, PTL

(* The registry names the live closures, and only those.                   *)
THEOREM RegistryAlwaysLive == Spec => []RegisteredLive
<1>1. IInv => RegisteredLive BY DEF IInv
<1> QED BY <1>1, Invariant, PTL

-----------------------------------------------------------------------------
(* Every behaviour of the whole is one of each component: the components   *)
(* it is not about stand still, in a state they may begin in.              *)

allVars == <<component, vars, setupVars, callVars>>

LEMMA ClosuresBehave == ComponentsSpec => Spec
<1>1. ComponentsInit => Init BY DEF ComponentsInit
<1>2. [ComponentsNext]_allVars => [Next]_vars
  BY DEF ComponentsNext, ClosuresEnded, allVars
<1> QED BY <1>1, <1>2, PTL DEF ComponentsSpec, Spec, allVars

LEMMA CallsBehave == ComponentsSpec => Calls!Spec
<1>1. ComponentsInit => Calls!Init BY DEF ComponentsInit
<1>2. [ComponentsNext]_allVars => [Calls!Next]_Calls!vars
  BY DEF ComponentsNext, allVars, callVars, Calls!vars
<1> QED BY <1>1, <1>2, PTL DEF ComponentsSpec, Calls!Spec, allVars

Alone == component # "nested"

LEMMA SetupsBehave ==
  /\ ComponentsSpec => []Alone \/ [](~Alone)
  /\ ComponentsSpec /\ []Alone => Setup!Spec
  /\ ComponentsSpec /\ [](~Alone) => Nested!Spec
<1>1. ComponentsSpec => []Alone \/ [](~Alone)
  <2>1. Alone /\ [ComponentsNext]_allVars => Alone'
    BY DEF ComponentsNext, allVars, Alone
  <2>2. ~Alone /\ [ComponentsNext]_allVars => ~Alone'
    BY DEF ComponentsNext, allVars, Alone
  <2> QED BY <2>1, <2>2, PTL DEF ComponentsSpec, allVars
<1>2. ComponentsSpec /\ []Alone => Setup!Spec
  <2>1. ComponentsInit /\ Alone => Setup!Init BY DEF ComponentsInit, Alone
  <2>2. Alone /\ [ComponentsNext]_allVars => [Setup!Next]_Setup!vars
    BY DEF ComponentsNext, allVars, setupVars, Setup!vars, Alone
  <2> QED BY <2>1, <2>2, PTL DEF ComponentsSpec, Setup!Spec, allVars
<1>3. ComponentsSpec /\ [](~Alone) => Nested!Spec
  <2>1. ComponentsInit /\ ~Alone => Nested!Init BY DEF ComponentsInit, Alone
  <2>2. ~Alone /\ [ComponentsNext]_allVars => [Nested!Next]_Nested!vars
    BY DEF ComponentsNext, allVars, setupVars, Nested!vars, Alone
  <2> QED BY <2>1, <2>2, PTL DEF ComponentsSpec, Nested!Spec, allVars
<1> QED BY <1>1, <1>2, <1>3

(* The invariants of the two instances of FunctionSetup. *)
LEMMA SetupsSound ==
  ComponentsSpec => [](IF Alone THEN Setup!AInv ELSE Nested!NInv)
<1> DEFINE Sound == IF Alone THEN Setup!AInv ELSE Nested!NInv
<1>1. Setup!Spec => []Setup!AInv BY SetupAssumption, Setup!AloneInvariant
<1>2. Nested!Spec => []Nested!NInv BY NestedAssumption, Nested!NestedInvariant
<1>3. Alone /\ Setup!AInv => Sound OBVIOUS
<1>4. ~Alone /\ Nested!NInv => Sound OBVIOUS
<1> HIDE DEF Sound
<1>5. ComponentsSpec => []Sound
  BY <1>1, <1>2, <1>3, <1>4, SetupsBehave, PTL
<1> QED BY <1>5 DEF Sound

-----------------------------------------------------------------------------
(* The results about the whole.                                            *)

(* The state of each component is well-formed. *)
THEOREM ComponentsTypeCorrect == ComponentsSpec => []ComponentsTypeOK
<1>1. Calls!Spec => []Calls!TypeOK BY CallsAssumption, Calls!TypeCorrect
<1>2. TypeOK /\ Calls!TypeOK /\ (IF Alone THEN Setup!AInv ELSE Nested!NInv)
        => ComponentsTypeOK
  BY DEF ComponentsTypeOK, Alone, Setup!AInv, Nested!NInv
<1> QED BY <1>1, <1>2, TypeCorrect, SetupsSound, ClosuresBehave, CallsBehave, PTL

(* A set-up that returns success has left everything a call reads in       *)
(* place, if finalisers call no functions or no set-up can fail: then also *)
(* for set-ups inside set-ups, of any depth (function_proxy.c:141).        *)
THEOREM SetupsKeepContract == ComponentsSpec => []SetupContract
<1>1. (IF Alone THEN Setup!AInv ELSE Nested!NInv) => SetupContract
  BY DEF SetupContract, Alone, Setup!AInv, Nested!NInv
<1> QED BY <1>1, SetupsSound, PTL

(* Between calls exactly what complete function types use is taken,        *)
(* wherever set-ups fail (function_proxy.c:199).                           *)
THEOREM SetupsLoseNothing == ComponentsSpec => []AllOrNothing
<1>1. Setup!Spec => []Setup!AllOrNothing BY SetupAssumption, Setup!NothingLost
<1>2. ~Alone => AllOrNothing BY DEF AllOrNothing, Alone
<1>3. Setup!AllOrNothing => AllOrNothing BY DEF AllOrNothing
<1> QED BY <1>1, <1>2, <1>3, SetupsBehave, PTL

(* No set-up uses an array that was freed (function_proxy.c:199), not even *)
(* one inside which the same function type is set up, if all can be        *)
(* completed.                                                              *)
THEOREM SetupsUseNoStaleArray == ComponentsSpec => []NoStaleArray
<1>1. (IF Alone THEN Setup!AInv ELSE Nested!NInv) => NoStaleArray
  BY DEF NoStaleArray, Alone, Setup!AInv, Nested!NInv,
         Setup!NoStaleArray, Nested!NoStaleArray
<1> QED BY <1>1, SetupsSound, PTL

(* C is entered with all of its arguments in place (function_proxy.c:294). *)
THEOREM CallsHaveArguments == ComponentsSpec => []ArgsComplete
<1>1. Calls!Spec => []Calls!ArgsComplete BY CallsAssumption, Calls!ArgumentsComplete
<1>2. Calls!ArgsComplete => ArgsComplete BY DEF ArgsComplete
<1> QED BY <1>1, <1>2, CallsBehave, PTL

(* NULL is returned with an exception only, and an exception with NULL     *)
(* only, unless a callback has failed (function_proxy.c:297).              *)
THEOREM CallsReturnNullOnException == ComponentsSpec => []ResultXorError
<1>1. Calls!Spec => []Calls!ResultXorError BY CallsAssumption, Calls!NullMeansException
<1>2. Calls!ResultXorError => ResultXorError BY DEF ResultXorError
<1> QED BY <1>1, <1>2, CallsBehave, PTL
=============================================================================
