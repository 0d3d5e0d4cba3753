-------------------------- MODULE FunctionProxies --------------------------
(***************************************************************************)
(* The three models of function_proxy.c side by side: closures, the set-up *)
(* of function types and calls.  They share no variable, so a behaviour is *)
(* one of one of them, chosen at the beginning.                            *)
(*                                                                         *)
(* Set-ups come in two instances: of any signatures, while finalisers call *)
(* no functions, and of signatures that can be completed, which finalisers *)
(* call inside one another.  FunctionSetup and ForeignCall are taken with  *)
(* their proofs, for the theorems about the whole.                         *)
(***************************************************************************)
EXTENDS Closures

CONSTANTS
  Type, Fun, Ret, Args,           \* signatures of function types
  NoType, NoAbi, NoCall, NoRet,   \* what cannot be used
  MaxArray,                       \* bound: argument arrays
  NestedFun,                      \* function types that can be completed
  NestedArray, NestedDepth,       \* bounds: arrays, set-ups inside set-ups
  CType, Size, DataPtr, Storable, \* types of parameters and results of calls
  Pointer, Hollow, Checked, NullSafe,
  Functions, ClosuresFail,        \* functions, and whether callables fail
  CallDepth,                      \* bound: calls in progress
  JUNK

VARIABLES
  component,                            \* what this behaviour is about
  ff_cif, cifs, ff_rettype, ff_argtypes, arrays, refs, known, setups,
  setup_result, corrupt,                \* of FunctionSetup
  calls, err, ready, crashed, call_result   \* of ForeignCall

setupVars == <<ff_cif, cifs, ff_rettype, ff_argtypes, arrays, refs, known,
               setups, setup_result, corrupt>>
callVars == <<calls, err, ready, crashed, call_result>>

-----------------------------------------------------------------------------
Setup == INSTANCE FunctionSetupProofs
  WITH stack <- setups, returned <- setup_result, MaxDepth <- 1

Nested == INSTANCE FunctionSetupProofs
  WITH stack <- setups, returned <- setup_result, Fun <- NestedFun,
       Ret <- [f \in NestedFun |-> Ret[f]], Args <- [f \in NestedFun |-> Args[f]],
       NoCall <- {}, NoRet <- {}, MaxArray <- NestedArray, MaxDepth <- NestedDepth

Calls == INSTANCE ForeignCallProofs
  WITH stack <- calls, returned <- call_result, Type <- CType, MaxDepth <- CallDepth

ASSUME SetupAssumption == Setup!Assumptions
ASSUME NestedAssumption == Nested!Assumptions /\ Nested!Completable
ASSUME CallsAssumption == Calls!Assumptions

-----------------------------------------------------------------------------
ComponentsInit ==
  /\ component \in {"closures", "setup", "nested", "calls"}
  /\ Init /\ Calls!Init
  /\ IF component = "nested" THEN Nested!Init ELSE Setup!Init

(* Closures that were freed are not made again: the behaviour ends. *)
ClosuresEnded ==
  /\ component = "closures" /\ \A c \in Closure : code[c] = "freed"
  /\ UNCHANGED vars

ComponentsNext ==
  /\ \/ /\ component = "closures" /\ (Next \/ ClosuresEnded)
        /\ UNCHANGED <<setupVars, callVars>>
     \/ component = "setup" /\ Setup!Next /\ UNCHANGED <<vars, callVars>>
     \/ component = "nested" /\ Nested!Next /\ UNCHANGED <<vars, callVars>>
     \/ component = "calls" /\ Calls!Next /\ UNCHANGED <<vars, setupVars>>
  /\ UNCHANGED component

ComponentsSpec ==
  ComponentsInit /\ [][ComponentsNext]_<<component, vars, setupVars, callVars>>

-----------------------------------------------------------------------------
(* The variables of all components are well-formed. *)
ComponentsTypeOK ==
  /\ TypeOK /\ Calls!TypeOK
  /\ IF component = "nested" THEN Nested!TypeOK ELSE Setup!TypeOK

(* A set-up that returns success, also one inside another, has left        *)
(* everything the call needs in place (function_proxy.c:141).              *)
SetupContract ==
  IF component = "nested" THEN Nested!SetupContract ELSE Setup!SetupContract

(* Half a set-up is never kept and nothing is given back twice             *)
(* (function_proxy.c:199).                                                 *)
AllOrNothing == component # "nested" => Setup!AllOrNothing

(* The array a failed set-up has freed is not used (function_proxy.c:199); *)
(* nor is one that a set-up inside another has replaced.                   *)
NoStaleArray ==
  IF component = "nested" THEN Nested!NoStaleArray ELSE Setup!NoStaleArray

(* C is entered with all of its arguments in place (function_proxy.c:294). *)
ArgsComplete == Calls!ArgsComplete

(* NULL is returned with an exception only, and an exception with NULL     *)
(* only, unless a callback has failed (function_proxy.c:385) or an         *)
(* unhandled type was met (foreign_type.c:149).                            *)
ResultXorError == Calls!ResultXorError
=============================================================================
