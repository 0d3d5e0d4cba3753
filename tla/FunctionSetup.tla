--------------------------- MODULE FunctionSetup ---------------------------
(***************************************************************************)
(* How a function type gets ready for calls: funproxytype_setup of         *)
(* function_proxy.c.  The first call of a function, or the first closure   *)
(* made for its type, finds the Python types of the result and of the      *)
(* arguments and their ABI encodings.  When one of them has none, what was *)
(* taken so far is given back and the next call tries again.               *)
(*                                                                         *)
(* Finding a type for the first time creates it, and that allocates: the   *)
(* collector may run, and a finaliser may call a foreign function, so      *)
(* set-ups nest.                                                           *)
(***************************************************************************)
EXTENDS Naturals, Sequences, FiniteSets, SequencesExt

CONSTANTS
  Fun, Type,
  Ret, Args,     \* the signature of each function type
  NoType,        \* types ForeignType_GetOrCreate refuses
  NoAbi,         \* types without an ABI encoding
  NoCall,        \* function types libffi refuses as a whole
  NoRet,         \* function types that do not have exactly one result
  MaxArray,      \* bound: argument arrays that malloc may return
  MaxDepth,      \* bound: nested set-ups; 1 = finalisers call no functions
  NULL, JUNK     \* the end of an array; memory not written yet

(* Assumed of the constants. *)
Assumptions ==
  /\ Ret \in [Fun -> Type] /\ Args \in [Fun -> Seq(Type)]
  /\ NoType \subseteq Type /\ NoAbi \subseteq Type /\ NoCall \cup NoRet \subseteq Fun
  /\ MaxArray \in Nat \ {0} /\ MaxDepth \in Nat \ {0}
  /\ NULL # JUNK /\ {NULL, JUNK} \cap (Type \cup Fun \cup 1..MaxArray) = {}

Array == 1..MaxArray

VARIABLES
  ff_cif,       \* call information: TRUE once set
  cifs,         \* how many were allocated and not freed
  ff_rettype,   \* NULL or the type of the result
  ff_argtypes,  \* JUNK (never written) or an array, also after it was freed
  arrays,       \* contents of the arrays; <<>> = not allocated
  refs,         \* references to types that function types have taken
  known,        \* types that exist
  stack,        \* set-ups in progress, the running one last
  returned,     \* what the last step returned: NULL or a record
  corrupt       \* memory that is not an array any more was used as one

vars == <<ff_cif, cifs, ff_rettype, ff_argtypes, arrays, refs, known, stack,
          returned, corrupt>>

Arity(f) == Len(Args[f])

(* The types the set-up of f looks up: that of the result, then those of   *)
(* the arguments.                                                          *)
Needed(f, i) == IF i = 0 THEN Ret[f] ELSE Args[f][i]

Usable(t) == t \notin NoType \cup NoAbi
Frame == [fun : Fun, arg : Nat, dest : Array \cup {NULL}]

(* The state of the set-ups is well-formed. *)
TypeOK ==
  /\ ff_cif \in [Fun -> BOOLEAN] /\ cifs \in [Fun -> Nat]
  /\ ff_rettype \in [Fun -> Type \cup {NULL}]
  /\ ff_argtypes \in [Fun -> Array \cup {JUNK}]
  /\ arrays \in [Array -> Seq(Type \cup {NULL, JUNK})]
  /\ refs \in [Type -> Nat] /\ known \subseteq Type \ NoType
  /\ stack \in Seq(Frame) /\ Len(stack) <= MaxDepth
  /\ returned \in {NULL} \cup [fun : Fun, ok : BOOLEAN]
  /\ corrupt \in BOOLEAN

Init ==
  /\ ff_cif = [f \in Fun |-> FALSE]
  /\ cifs = [f \in Fun |-> 0]
  /\ ff_rettype = [f \in Fun |-> NULL]
  /\ ff_argtypes = [f \in Fun |-> JUNK]
  /\ arrays = [a \in Array |-> <<>>]
  /\ refs = [t \in Type |-> 0]
  /\ known = {}
  /\ stack = <<>>
  /\ returned = NULL
  /\ corrupt = FALSE

Idle == stack = <<>>
Top  == stack[Len(stack)]
Wanted == Needed(Top.fun, Top.arg)
Pop == stack' = Front(stack)
Returns(f, b) == returned' = [fun |-> f, ok |-> b]

(* A finaliser can only run while a type is being created. *)
Creating == ~Idle /\ Wanted \notin known \cup NoType

-----------------------------------------------------------------------------
(* Mutant: a set-up that failed is taken for complete because the type of  *)
(* the result is there.                                                    *)
EnterByResult(f) ==
  /\ ~corrupt
  /\ Idle \/ Creating
  /\ IF ff_rettype[f] # NULL
       THEN Returns(f, TRUE) /\ UNCHANGED stack
       ELSE /\ Len(stack) < MaxDepth
            /\ stack' = Append(stack, [fun |-> f, arg |-> 0, dest |-> NULL])
            /\ returned' = NULL
  /\ UNCHANGED <<ff_cif, cifs, ff_rettype, ff_argtypes, arrays, refs, known,
                 corrupt>>

(* A call of f, or a closure for its type: the first lines of the set-up. *)
Enter(f) ==
  /\ ~corrupt
  /\ Idle \/ Creating
  /\ IF ff_cif[f] \/ f \in NoRet
       THEN Returns(f, ff_cif[f]) /\ UNCHANGED stack
       ELSE /\ Len(stack) < MaxDepth
            /\ stack' = Append(stack, [fun |-> f, arg |-> 0, dest |-> NULL])
            /\ returned' = NULL
  /\ UNCHANGED <<ff_cif, cifs, ff_rettype, ff_argtypes, arrays, refs, known,
                 corrupt>>

(* The type of the result cannot be used: it is given back at once. *)
RetFails ==
  /\ ~corrupt /\ ~Idle /\ Top.arg = 0 /\ ~Usable(Wanted)
  /\ ff_rettype' = [ff_rettype EXCEPT ![Top.fun] =
                      IF Wanted \in NoType THEN NULL ELSE Wanted]
  /\ known' = known \cup ({Wanted} \ NoType)
  /\ Pop /\ Returns(Top.fun, FALSE)
  /\ UNCHANGED <<ff_cif, cifs, ff_argtypes, arrays, refs, corrupt>>

(* Everything was found: the call information is made.  r are the          *)
(* references, s the arrays at this point.                                 *)
Prepared(f, r, s) ==
  /\ f \notin NoCall
  /\ ff_cif' = [ff_cif EXCEPT ![f] = TRUE]
  /\ cifs' = [cifs EXCEPT ![f] = @ + 1]
  /\ refs' = r /\ arrays' = s
  /\ Returns(f, TRUE)
  /\ UNCHANGED corrupt

(* The entries before the end of an array. *)
Entries(s) == SelectInSeq(s, LAMBDA t : t = NULL) - 1
Occurs(t, s, n) == Cardinality({i \in 1..n : s[i] = t})

(* Undoing the set-up of f with references r and arrays s: ret is what is  *)
(* taken off for the type of the result.                                   *)
Release(f, r, s, ret) ==
  LET a == IF Arity(f) > 0 THEN s[ff_argtypes[f]] ELSE <<NULL>>
      n == Entries(a)
  IN  IF n < 0 \/ JUNK \in {a[i] : i \in 1..n}
        THEN corrupt' = TRUE /\ UNCHANGED <<refs, arrays>>
        ELSE /\ refs' = [t \in Type |-> r[t] - Occurs(t, a, n) - ret[t]]
             /\ arrays' = [x \in Array |->
                  IF Arity(f) > 0 /\ x = ff_argtypes[f] THEN <<>> ELSE s[x]]
             /\ UNCHANGED corrupt

(* Mutant: the type of the result is not given back. *)
UndoneArguments(f, r, s) == Release(f, r, s, [t \in Type |-> 0])

(* Mutant: it is given back twice. *)
UndoneTwice(f, r, s) ==
  Release(f, r, s, [t \in Type |-> IF t = Ret[f] THEN 2 ELSE 0])

(* What was taken so far is given back: each entry of the array up to its  *)
(* end, the array, and the type of the result.  The fields keep pointing   *)
(* to it.                                                                  *)
Undone(f, r, s) ==
  Release(f, r, s, [t \in Type |-> IF t = Ret[f] THEN 1 ELSE 0])

Finish(f, r, s) ==
  /\ Prepared(f, r, s) \/ (f \in NoCall /\ Undone(f, r, s) /\ Returns(f, FALSE)
                           /\ UNCHANGED <<ff_cif, cifs>>)
  /\ Pop

Blank(n) == [i \in 1..(n + 1) |-> IF i = n + 1 THEN NULL ELSE JUNK]

(* The type of the result was found; an array is allocated for the types   *)
(* of the arguments, if there are any.                                     *)
RetFound ==
  /\ ~corrupt /\ ~Idle /\ Top.arg = 0 /\ Usable(Wanted)
  /\ known' = known \cup {Wanted}
  /\ ff_rettype' = [ff_rettype EXCEPT ![Top.fun] = Wanted]
  /\ LET f == Top.fun
         r == [refs EXCEPT ![Wanted] = @ + 1]
     IN  IF Arity(f) = 0
           THEN Finish(f, r, arrays) /\ UNCHANGED ff_argtypes
           ELSE \E a \in {x \in Array : arrays[x] = <<>>} :
                  /\ \A x \in 1..(a - 1) : arrays[x] # <<>>
                  /\ arrays' = [arrays EXCEPT ![a] = Blank(Arity(f))]
                  /\ ff_argtypes' = [ff_argtypes EXCEPT ![f] = a]
                  /\ stack' = [stack EXCEPT ![Len(stack)] =
                                 [fun |-> f, arg |-> 1, dest |-> a]]
                  /\ refs' = r /\ returned' = NULL
                  /\ UNCHANGED <<ff_cif, cifs, corrupt>>

(* Mutant: the array is not ended behind the argument that failed. *)
EndedHere(s, i, t) ==
  [s EXCEPT ![i] = IF t \in NoType THEN NULL ELSE t]

(* An argument that cannot be used: its entry is NULL or the type without  *)
(* encoding, and the array ends behind it.                                 *)
EndedBehind(s, i, t) ==
  [s EXCEPT ![i] = IF t \in NoType THEN NULL ELSE t, ![i + 1] = NULL]

Advance(f, r, s) ==
  /\ stack' = [stack EXCEPT ![Len(stack)] =
                  [fun |-> f, arg |-> Top.arg + 1, dest |-> ff_argtypes[f]]]
  /\ refs' = r /\ arrays' = s /\ returned' = NULL
  /\ UNCHANGED <<ff_cif, cifs, corrupt>>

(* The type of the next argument is looked up.  C does not say whether the *)
(* array is loaded from ff_argtypes before or after the lookup.            *)
Argument ==
  /\ ~corrupt /\ ~Idle /\ Top.arg > 0
  /\ known' = known \cup ({Wanted} \ NoType)
  /\ LET f == Top.fun
         i == Top.arg
         r == IF Wanted \in NoType THEN refs ELSE [refs EXCEPT ![Wanted] = @ + 1]
     IN  \E a \in {Top.dest, ff_argtypes[f]} :
           IF <<>> \in {arrays[a], arrays[ff_argtypes[f]]}
             THEN /\ corrupt' = TRUE /\ returned' = NULL
                  /\ UNCHANGED <<ff_cif, cifs, refs, arrays, stack>>
             ELSE \/ /\ Usable(Wanted)
                     /\ LET s == [arrays EXCEPT ![a][i] = Wanted]
                        IN  IF i = Arity(f) THEN Finish(f, r, s) ELSE Advance(f, r, s)
                  \/ /\ ~Usable(Wanted)
                     /\ Undone(f, r, [arrays EXCEPT ![ff_argtypes[f]] =
                                        EndedBehind(@, i, Wanted)])
                     /\ Pop /\ Returns(f, FALSE) /\ UNCHANGED <<ff_cif, cifs>>
  /\ UNCHANGED <<ff_rettype, ff_argtypes>>

Next == (\E f \in Fun : Enter(f)) \/ RetFails \/ RetFound \/ Argument

Spec == Init /\ [][Next]_vars

-----------------------------------------------------------------------------
Ready(f) ==
  /\ ff_rettype[f] = Ret[f]
  /\ Arity(f) > 0 => arrays[ff_argtypes[f]] = Append(Args[f], NULL)

(* A set-up that returns zero leaves the function type complete: the call  *)
(* or the closure that asked for it reads ff_argtypes and ff_rettype       *)
(* without another look.  This holds for nested set-ups too: one that      *)
(* comes to its end has created every type, so the outer one, which starts *)
(* the arrays afresh, cannot be interrupted again.                         *)
SetupContract ==
  returned # NULL /\ returned.ok => ff_cif[returned.fun] /\ Ready(returned.fun)

(* The places of complete function types that hold t. *)
Uses(t) ==
  UNION {{f} \X {i \in 0..Arity(f) : Needed(f, i) = t} :
           f \in {g \in Fun : ff_cif[g]}}

(* Between calls exactly what complete function types use is taken: no     *)
(* reference, array or call information is lost or given back twice,       *)
(* however often a set-up failed half way and was tried again.             *)
AllOrNothing ==
  Idle /\ ~corrupt =>
    /\ \A t \in Type : refs[t] = Cardinality(Uses(t))
    /\ \A f \in Fun : cifs[f] = IF ff_cif[f] THEN 1 ELSE 0
    /\ \A a \in Array : arrays[a] # <<>> <=>
         Cardinality({f \in Fun : ff_cif[f] /\ Arity(f) > 0 /\ ff_argtypes[f] = a}) = 1

(* The pointer a failed set-up leaves behind is never followed: the retry  *)
(* replaces it first.  Set-ups inside set-ups of the same type replace it  *)
(* too, and if one of them fails, its array was the outer one's: the       *)
(* property is for set-ups that do not nest, or that all succeed.          *)
NoStaleArray == ~corrupt
=============================================================================
