------------------------ MODULE FunctionSetupProofs ------------------------
(***************************************************************************)
(* Setting up function types: what a set-up promises holds for any number  *)
(* of function types and types and for every signature, under either of    *)
(* two conditions.  Where finalisers call no functions, set-ups do not     *)
(* nest: then also nothing is lost or given back twice, however they fail. *)
(* Where no set-up fails they may nest to any depth.                       *)
(*                                                                         *)
(* The argument without nesting: every array belongs to one function type, *)
(* complete or being set up, and the references counted are those of the   *)
(* complete ones and of the entries the running set-up has behind it.      *)
(***************************************************************************)
EXTENDS FunctionSetup, SequenceTheorems, FiniteSetTheorems, TLAPS

Value == Type \cup {NULL, JUNK}

(* The types among the first k that f needs t as. *)
Part(f, k, t) == {i \in 0..(k - 1) : Needed(f, i) = t}

(* s is an array for f, filled up to its k-th entry and ended. *)
Partial(f, k, s) ==
  /\ Len(s) = Arity(f) + 1 /\ s[Arity(f) + 1] = NULL
  /\ \A i \in 1..(k - 1) : s[i] = Args[f][i]

(* The running set-up is at the arguments of f. *)
Writing(f) == ~Idle /\ Top.fun = f /\ Top.arg > 0

(* The running set-up is of an incomplete type, and its array is filled as *)
(* far as it has come.                                                     *)
OnTheWay ==
  ~Idle => /\ ~ff_cif[Top.fun] /\ Top.arg <= Arity(Top.fun)
           /\ Top.arg > 0 =>
                /\ ff_rettype[Top.fun] = Ret[Top.fun]
                /\ Top.dest \in Array /\ Top.dest = ff_argtypes[Top.fun]
                /\ Partial(Top.fun, Top.arg, arrays[Top.dest])

(* Arrays have one owner each. *)
Owns(f) == Arity(f) > 0 /\ (ff_cif[f] \/ Writing(f))
Owned ==
  /\ \A f \in Fun : Owns(f) =>
       ff_argtypes[f] \in Array /\ arrays[ff_argtypes[f]] # <<>>
  /\ \A f, g \in Fun :
       Owns(f) /\ Owns(g) /\ ff_argtypes[f] = ff_argtypes[g] => f = g
  /\ \A a \in Array : arrays[a] # <<>> =>
       \E f \in Fun : Owns(f) /\ ff_argtypes[f] = a

Complete == \A f \in Fun : ff_cif[f] => Ready(f)

(* What the running set-up has taken of t. *)
Taken(t) == IF Idle THEN 0 ELSE Cardinality(Part(Top.fun, Top.arg, t))

Counted ==
  /\ \A f \in Fun : cifs[f] = IF ff_cif[f] THEN 1 ELSE 0
  /\ IsFiniteSet({f \in Fun : ff_cif[f]})
  /\ \A t \in Type : /\ IsFiniteSet(Uses(t))
                     /\ refs[t] = Cardinality(Uses(t)) + Taken(t)

AInv == TypeOK /\ ~corrupt /\ OnTheWay /\ Owned /\ Complete /\ Counted
        /\ SetupContract

-----------------------------------------------------------------------------
(* Signatures and arrays. *)

LEMMA SignatureFacts ==
  ASSUME Assumptions, NEW f \in Fun
  PROVE  /\ Args[f] \in Seq(Type) /\ Arity(f) \in Nat
         /\ \A i \in 1..Arity(f) : Args[f][i] \in Type
         /\ \A i \in 0..Arity(f) : Needed(f, i) \in Type
         /\ Needed(f, 0) = Ret[f] /\ Ret[f] \in Type
         /\ \A i \in 1..Arity(f) : Needed(f, i) = Args[f][i]
<1>1. Args[f] \in Seq(Type) /\ Ret[f] \in Type BY DEF Assumptions
<1>2. Arity(f) \in Nat BY <1>1 DEF Arity
<1>3. \A i \in 1..Arity(f) : Args[f][i] \in Type BY <1>1 DEF Arity
<1> QED BY <1>1, <1>2, <1>3 DEF Needed

LEMMA Distinct ==
  ASSUME Assumptions
  PROVE  /\ NULL # JUNK /\ NULL \notin Type /\ JUNK \notin Type
         /\ NULL \notin Array /\ JUNK \notin Array /\ NULL \notin Fun
         /\ MaxDepth \in Nat \ {0} /\ MaxArray \in Nat \ {0}
BY DEF Assumptions, Array

LEMMA Stored ==
  ASSUME NEW S, NEW s \in Seq(S), NEW i \in 1..Len(s), NEW x \in S,
         NEW u, u = [s EXCEPT ![i] = x]
  PROVE  /\ u \in Seq(S) /\ Len(u) = Len(s) /\ u[i] = x
         /\ \A j \in 1..Len(s) : j # i => u[j] = s[j]
BY ExceptSeq

LEMMA FullArray ==
  ASSUME Assumptions, NEW f \in Fun, NEW s \in Seq(Value)
  PROVE  s = Append(Args[f], NULL) <=> Partial(f, Arity(f) + 1, s)
<1>1. Args[f] \in Seq(Type) /\ Arity(f) \in Nat BY SignatureFacts
<1> DEFINE u == Append(Args[f], NULL)
           n == Arity(f)
<1>2. Args[f] \in Seq(Value) /\ NULL \in Value /\ n = Len(Args[f])
  BY <1>1 DEF Value, Arity
<1>3. /\ u \in Seq(Value) /\ Len(u) = n + 1 /\ u[n + 1] = NULL
      /\ \A i \in 1..n : u[i] = Args[f][i]
  BY <1>2, AppendProperties
<1>4. s = u => Partial(f, n + 1, s) BY <1>1, <1>3 DEF Partial
<1>5. ASSUME Partial(f, n + 1, s) PROVE s = u
  <2>1. Len(s) = Len(u) /\ \A i \in 1..Len(s) : s[i] = u[i]
    BY <1>1, <1>3, <1>5 DEF Partial
  <2> QED BY <1>3, <2>1, SeqEqual
<1> QED BY <1>4, <1>5

LEMMA PartialArray ==
  ASSUME NEW f, NEW k \in Nat, NEW s, Len(s) = Arity(f) + 1,
         s[Arity(f) + 1] = NULL, \A i \in 1..k : s[i] = Args[f][i]
  PROVE  Partial(f, k + 1, s)
<1>1. 1..(k + 1 - 1) = 1..k OBVIOUS
<1> QED BY <1>1 DEF Partial

(* The entries of an array end at its first NULL. *)
LEMMA EntriesAre ==
  ASSUME NEW s \in Seq(Value), NEW n \in Nat, n < Len(s), s[n + 1] = NULL,
         \A i \in 1..n : s[i] # NULL
  PROVE  Entries(s) = n
<1> DEFINE I == {i \in 1..Len(s) : s[i] = NULL}
<1>1. Len(s) \in Nat OBVIOUS
<1>2. n + 1 \in I /\ \A i \in I : n + 1 <= i BY <1>1
<1>3. Min(I) = n + 1 BY <1>1, <1>2 DEF Min
<1>4. SelectInSeq(s, LAMBDA t : t = NULL) = Min(I)
  BY <1>2 DEF SelectInSeq
<1> QED BY <1>3, <1>4 DEF Entries

-----------------------------------------------------------------------------
(* Counting references. *)

LEMMA PartFinite ==
  ASSUME NEW f, NEW k \in Nat, NEW t
  PROVE  IsFiniteSet(Part(f, k, t)) /\ Cardinality(Part(f, k, t)) \in Nat
<1>1. IsFiniteSet(0..(k - 1)) BY FS_Interval
<1>2. Part(f, k, t) \in SUBSET (0..(k - 1)) BY DEF Part
<1> QED BY <1>1, <1>2, FS_Subset, FS_CardinalityType

LEMMA PartGrows ==
  ASSUME NEW f, NEW k \in Nat, NEW t
  PROVE  Cardinality(Part(f, k + 1, t)) =
           Cardinality(Part(f, k, t)) + IF Needed(f, k) = t THEN 1 ELSE 0
<1>1. IsFiniteSet(Part(f, k, t)) BY PartFinite
<1>2. k \notin Part(f, k, t) BY DEF Part
<1>3. 0..(k + 1 - 1) = (0..(k - 1)) \cup {k} OBVIOUS
<1>4. CASE Needed(f, k) = t
  <2>1. Part(f, k + 1, t) = Part(f, k, t) \cup {k} BY <1>3, <1>4 DEF Part
  <2> QED BY <1>1, <1>2, <1>4, <2>1, FS_AddElement
<1>5. CASE Needed(f, k) # t
  <2>1. Part(f, k + 1, t) = Part(f, k, t) BY <1>3, <1>5 DEF Part
  <2> QED BY <1>1, <1>5, <2>1, FS_CardinalityType
<1> QED BY <1>4, <1>5

LEMMA PartEmpty ==
  ASSUME NEW f, NEW t PROVE Cardinality(Part(f, 0, t)) = 0
<1>1. Part(f, 0, t) = {} BY DEF Part
<1> QED BY <1>1, FS_EmptySet

(* Without the type of the result: the entries of the array. *)
LEMMA PartSplits ==
  ASSUME Assumptions, NEW f \in Fun, NEW n \in 0..Arity(f), NEW t,
         NEW s, \A i \in 1..n : s[i] = Args[f][i]
  PROVE  /\ Occurs(t, s, n) \in Nat
         /\ Cardinality(Part(f, n + 1, t)) =
              Occurs(t, s, n) + IF t = Ret[f] THEN 1 ELSE 0
<1> DEFINE O == {i \in 1..n : s[i] = t}
<1>0. n \in Nat BY SignatureFacts
<1>1. IsFiniteSet(O)
  <2>1. IsFiniteSet(1..n) BY <1>0, FS_Interval
  <2> QED BY <2>1, FS_Subset
<1>2. Occurs(t, s, n) = Cardinality(O) BY DEF Occurs
<1>3. Cardinality(O) \in Nat BY <1>1, FS_CardinalityType
<1>4. 0 \notin O BY <1>0
<1>5. \A i \in 1..n : Needed(f, i) = s[i] BY <1>0, SignatureFacts
<1>6. 0..(n + 1 - 1) = (1..n) \cup {0} BY <1>0
<1>7. Needed(f, 0) = Ret[f] BY SignatureFacts
<1>8. CASE t = Ret[f]
  <2>1. Part(f, n + 1, t) = O \cup {0} BY <1>5, <1>6, <1>7, <1>8 DEF Part
  <2>2. Cardinality(O \cup {0}) = Cardinality(O) + 1
    BY <1>1, <1>4, FS_AddElement
  <2> QED BY <1>2, <1>3, <1>8, <2>1, <2>2
<1>9. CASE t # Ret[f]
  <2>1. Part(f, n + 1, t) = O BY <1>5, <1>6, <1>7, <1>9 DEF Part
  <2> QED BY <1>2, <1>3, <1>9, <2>1
<1> QED BY <1>8, <1>9

(* A set-up is completed: the places of its type are counted from now on.  *)
LEMMA UsesGrow ==
  ASSUME Assumptions, TypeOK, NEW f \in Fun, ~ff_cif[f],
         ff_cif' = [ff_cif EXCEPT ![f] = TRUE], NEW t, IsFiniteSet(Uses(t))
  PROVE  /\ IsFiniteSet(Uses(t)')
         /\ Cardinality(Uses(t)') =
              Cardinality(Uses(t)) + Cardinality(Part(f, Arity(f) + 1, t))
<1> DEFINE P == Part(f, Arity(f) + 1, t)
<1>1. Arity(f) \in Nat /\ Arity(f) + 1 \in Nat BY SignatureFacts
<1>2. IsFiniteSet(P) /\ Cardinality(P) \in Nat BY <1>1, PartFinite
<1>3. {g \in Fun : ff_cif'[g]} = {g \in Fun : ff_cif[g]} \cup {f} BY DEF TypeOK
<1>4. 0..(Arity(f) + 1 - 1) = 0..Arity(f) BY <1>1
<1>5. P = {i \in 0..Arity(f) : Needed(f, i) = t}
  <2> DEFINE n == Arity(f)
  <2>1. n \in Nat /\ 0..(n + 1 - 1) = 0..n BY <1>1
  <2> HIDE DEF n
  <2>2. Part(f, n + 1, t) = {i \in 0..n : Needed(f, i) = t}
    BY <2>1 DEF Part
  <2> QED BY <2>2 DEF n
<1> DEFINE V(g) == {g} \X {i \in 0..Arity(g) : Needed(g, i) = t}
           C == {g \in Fun : ff_cif[g]}
<1>a. V(f) = {f} \X P BY <1>5
<1>b. Uses(t) = UNION {V(g) : g \in C} BY DEF Uses
<1>c. Uses(t)' = UNION {V(g) : g \in C \cup {f}} BY <1>3 DEF Uses
<1>d. \A g : \A u \in V(g) : u[1] = g OBVIOUS
<1>6. Uses(t)' = Uses(t) \cup ({f} \X P)
  <2> HIDE DEF V, C
  <2> QED BY <1>a, <1>b, <1>c
<1>7. Uses(t) \cap ({f} \X P) = {}
  <2>1. f \notin C OBVIOUS
  <2> HIDE DEF V, C
  <2> QED BY <1>a, <1>b, <1>d, <2>1
<1>8. IsFiniteSet({f}) /\ Cardinality({f}) = 1 BY FS_Singleton
<1>9. IsFiniteSet({f} \X P) /\ Cardinality({f} \X P) = 1 * Cardinality(P)
  BY <1>2, <1>8, FS_Product
<1>10. /\ IsFiniteSet(Uses(t) \cup ({f} \X P))
       /\ Cardinality(Uses(t) \cup ({f} \X P)) =
            Cardinality(Uses(t)) + Cardinality({f} \X P)
              - Cardinality(Uses(t) \cap ({f} \X P))
  BY <1>9, FS_Union
<1>11. Cardinality(Uses(t)) \in Nat BY FS_CardinalityType
<1>12. Cardinality(Uses(t) \cap ({f} \X P)) = 0 BY <1>7, FS_EmptySet
<1> QED BY <1>2, <1>6, <1>9, <1>10, <1>11, <1>12

LEMMA UsesSame ==
  ASSUME ff_cif' = ff_cif, NEW t PROVE Uses(t)' = Uses(t)
BY DEF Uses

-----------------------------------------------------------------------------
(* Without nesting, the stack is empty or the running set-up alone. *)

LEMMA AloneFrame ==
  ASSUME MaxDepth = 1, TypeOK, ~Idle
  PROVE  /\ Len(stack) = 1 /\ Top = stack[1] /\ Top \in Frame
         /\ Top.fun \in Fun /\ Top.arg \in Nat /\ Top.dest \in Array \cup {NULL}
         /\ Front(stack) = <<>>
         /\ stack = <<Top>>
<1>1. stack \in Seq(Frame) /\ stack # <<>> /\ Len(stack) <= 1
  BY DEF TypeOK, Idle
<1>a. Len(stack) \in Nat \ {0} BY <1>1, EmptySeq
<1>2. Len(stack) = 1 BY <1>1, <1>a
<1>3. Top = stack[1] /\ Top \in Frame BY <1>1, <1>2 DEF Top
<1>4. Top.fun \in Fun /\ Top.arg \in Nat /\ Top.dest \in Array \cup {NULL}
  BY <1>3 DEF Frame
<1>5. Front(stack) = <<>>
  <2>1. Front(stack) = SubSeq(stack, 1, 0) BY <1>2 DEF Front
  <2> QED BY <2>1, SubSeqEmpty
<1>6. stack = <<Top>> BY <1>1, <1>2, <1>3
<1> QED BY <1>2, <1>3, <1>4, <1>5, <1>6

(* What the end of a set-up of f has before it: the array is filled with   *)
(* all entries before the k-th, and the references are taken.              *)
Filled(f, k, s) ==
  /\ s \in [Array -> Seq(Value)]
  /\ Arity(f) > 0 => /\ Top.arg > 0 /\ ff_argtypes[f] \in Array
                     /\ Partial(f, k, s[ff_argtypes[f]])
  /\ \A a \in Array : Arity(f) = 0 \/ a # ff_argtypes[f] => s[a] = arrays[a]

Credited(f, k, r) ==
  /\ r \in [Type -> Nat]
  /\ \A t \in Type : r[t] = Cardinality(Uses(t)) + Cardinality(Part(f, k, t))

(* The type of the result is stored, and no type vanishes. *)
ResultStored(f) ==
  /\ ff_rettype' \in [Fun -> Type \cup {NULL}] /\ ff_rettype'[f] = Ret[f]
  /\ \A g \in Fun : g # f => ff_rettype'[g] = ff_rettype[g]
  /\ known' \subseteq Type \ NoType

LEMMA ValueAs == Value = Type \cup {NULL, JUNK} BY DEF Value

LEMMA ReadyMeans ==
  ASSUME Assumptions, NEW f \in Fun,
         Arity(f) > 0 => arrays[ff_argtypes[f]] \in Seq(Value)
  PROVE  Ready(f) <=>
           /\ ff_rettype[f] = Ret[f]
           /\ Arity(f) > 0 => Partial(f, Arity(f) + 1, arrays[ff_argtypes[f]])
<1>1. CASE Arity(f) > 0
  <2>1. arrays[ff_argtypes[f]] = Append(Args[f], NULL)
        <=> Partial(f, Arity(f) + 1, arrays[ff_argtypes[f]])
    BY <1>1, FullArray
  <2> QED BY <2>1 DEF Ready
<1>2. CASE ~(Arity(f) > 0) BY <1>2 DEF Ready
<1> QED BY <1>1, <1>2

LEMMA PreparedKeeps ==
  ASSUME Assumptions, MaxDepth = 1, AInv, ~Idle, NEW f, f = Top.fun,
         NEW r, NEW s, Prepared(f, r, s), Pop, UNCHANGED ff_argtypes,
         ResultStored(f), Filled(f, Arity(f) + 1, s),
         Credited(f, Arity(f) + 1, r)
  PROVE  AInv'
<1>1. /\ TypeOK /\ ~corrupt /\ OnTheWay /\ Owned /\ Complete /\ Counted
  BY DEF AInv
<1>2. f \in Fun /\ Arity(f) \in Nat /\ stack' = <<>>
  BY <1>1, AloneFrame, SignatureFacts DEF Pop
<1>3. ~ff_cif[f] BY <1>1 DEF OnTheWay
<1>4. /\ ff_cif' = [ff_cif EXCEPT ![f] = TRUE] /\ cifs' = [cifs EXCEPT ![f] = @ + 1]
      /\ refs' = r /\ arrays' = s /\ corrupt' = corrupt
      /\ returned' = [fun |-> f, ok |-> TRUE]
  BY DEF Prepared, Returns
<1>5. Idle' BY <1>2 DEF Idle
<1>6. TypeOK'
  <2>1. stack' \in Seq(Frame) /\ Len(stack') <= MaxDepth BY <1>2
  <2>2. ff_cif' \in [Fun -> BOOLEAN] /\ cifs' \in [Fun -> Nat]
    BY <1>1, <1>2, <1>4 DEF TypeOK
  <2>3. arrays' \in [Array -> Seq(Type \cup {NULL, JUNK})] /\ refs' \in [Type -> Nat]
    BY <1>4 DEF Filled, Credited, Value
  <2>4. returned' \in [fun : Fun, ok : BOOLEAN] BY <1>2, <1>4
  <2>5. /\ ff_argtypes' \in [Fun -> Array \cup {JUNK}] /\ corrupt' \in BOOLEAN
        /\ ff_rettype' \in [Fun -> Type \cup {NULL}] /\ known' \subseteq Type \ NoType
    BY <1>1, <1>4 DEF TypeOK, ResultStored
  <2> QED BY <2>1, <2>2, <2>3, <2>4, <2>5 DEF TypeOK
<1>7. \A g \in Fun : ff_cif'[g] <=> ff_cif[g] \/ g = f
  BY <1>1, <1>2, <1>4 DEF TypeOK
<1>8. \A g \in Fun : Owns(g)' <=> Owns(g)
  <2>1. \A g \in Fun : ~Writing(g)' BY <1>5 DEF Writing
  <2>2. \A g \in Fun : Writing(g) => g = f BY DEF Writing
  <2>3. Arity(f) > 0 => Writing(f) BY DEF Filled, Writing
  <2> QED BY <1>7, <2>1, <2>2, <2>3 DEF Owns, Arity
<1>9. \A a \in Array : arrays'[a] # <<>> <=>
        arrays[a] # <<>> \/ (Arity(f) > 0 /\ a = ff_argtypes[f])
  <2>1. ASSUME Arity(f) > 0 PROVE s[ff_argtypes[f]] # <<>>
    <3>1. Len(s[ff_argtypes[f]]) = Arity(f) + 1 BY <2>1 DEF Filled, Partial
    <3>2. Len(<<>>) # Arity(f) + 1 BY <1>2
    <3> QED BY <3>1, <3>2
  <2> QED BY <1>2, <1>4, <2>1 DEF Filled
<1>10. Arity(f) > 0 => Owns(f) BY DEF Filled, Writing, Owns
<1>11. Owned' BY <1>1, <1>2, <1>8, <1>9, <1>10 DEF Owned
<1>12. Ready(f)'
  <2>1. Arity(f) > 0 => arrays'[ff_argtypes'[f]] = Append(Args[f], NULL)
    BY <1>2, <1>4, FullArray DEF Filled
  <2> QED BY <2>1 DEF Ready, ResultStored, Arity
<1>13. Complete'
  <2>1. SUFFICES ASSUME NEW g \in Fun, ff_cif[g], g # f PROVE Ready(g)'
    BY <1>7, <1>12 DEF Complete
  <2>2. Ready(g) BY <1>1, <2>1 DEF Complete
  <2>3. ASSUME Arity(g) > 0 PROVE arrays'[ff_argtypes[g]] = arrays[ff_argtypes[g]]
    <3>1. Owns(g) BY <2>1, <2>3 DEF Owns
    <3>2. ff_argtypes[g] \in Array BY <1>1, <3>1 DEF Owned
    <3>3. Arity(f) = 0 \/ ff_argtypes[g] # ff_argtypes[f]
      BY <1>1, <1>2, <1>10, <2>1, <3>1 DEF Owned
    <3> QED BY <1>4, <3>2, <3>3 DEF Filled
  <2> QED BY <2>1, <2>2, <2>3 DEF Ready, ResultStored, Arity
<1>14. Counted'
  <2>1. \A g \in Fun : cifs'[g] = IF ff_cif'[g] THEN 1 ELSE 0
    BY <1>1, <1>2, <1>3, <1>4, <1>7 DEF TypeOK, Counted
  <2>2. IsFiniteSet({g \in Fun : ff_cif'[g]})
    <3>1. {g \in Fun : ff_cif'[g]} = {g \in Fun : ff_cif[g]} \cup {f}
      BY <1>2, <1>7
    <3> QED BY <1>1, <3>1, FS_AddElement DEF Counted
  <2>3. ASSUME NEW t \in Type
        PROVE  IsFiniteSet(Uses(t)') /\ refs'[t] = Cardinality(Uses(t)')
    <3>1. IsFiniteSet(Uses(t)) BY <1>1 DEF Counted
    <3>2. r[t] = Cardinality(Uses(t)) + Cardinality(Part(f, Arity(f) + 1, t))
      BY DEF Credited
    <3> QED BY <1>1, <1>2, <1>3, <1>4, <3>1, <3>2, UsesGrow
  <2>4. \A t \in Type : Cardinality(Uses(t)') \in Nat
    BY <2>3, FS_CardinalityType
  <2>5. \A t : Taken(t)' = 0 BY <1>5 DEF Taken
  <2> QED BY <2>1, <2>2, <2>3, <2>4, <2>5 DEF Counted
<1>15. SetupContract' BY <1>2, <1>4, <1>7, <1>12 DEF SetupContract
<1>16. ~corrupt' /\ OnTheWay' BY <1>1, <1>4, <1>5 DEF OnTheWay
<1> QED BY <1>6, <1>11, <1>13, <1>14, <1>15, <1>16 DEF AInv

(* What a set-up that fails gives back is what it has taken: n entries.    *)
LEMMA UndoneEffect ==
  ASSUME Assumptions, MaxDepth = 1, AInv, ~Idle, NEW f, f = Top.fun,
         NEW n \in 0..Arity(f), NEW r, NEW s, Undone(f, r, s),
         Filled(f, n + 1, s), Credited(f, n + 1, r),
         IF Arity(f) > 0 THEN s[ff_argtypes[f]][n + 1] = NULL ELSE n = 0
  PROVE  /\ \A t \in Type : refs'[t] = Cardinality(Uses(t))
         /\ refs' \in [Type -> Nat] /\ arrays' \in [Array -> Seq(Value)]
         /\ \A a \in Array : Arity(f) = 0 \/ a # ff_argtypes[f] =>
              arrays'[a] = arrays[a]
         /\ Arity(f) > 0 => arrays'[ff_argtypes[f]] = <<>>
         /\ corrupt' = corrupt
<1>1. f \in Fun /\ Arity(f) \in Nat /\ n \in Nat
  BY AloneFrame, SignatureFacts DEF AInv
<1> DEFINE a == IF Arity(f) > 0 THEN s[ff_argtypes[f]] ELSE <<NULL>>
           m == Entries(a)
           ret == [t \in Type |-> IF t = Ret[f] THEN 1 ELSE 0]
<1>2. /\ a \in Seq(Value) /\ n < Len(a) /\ a[n + 1] = NULL
      /\ \A i \in 1..n : a[i] = Args[f][i]
  <2>1. CASE Arity(f) > 0
    <3>1. a \in Seq(Value) /\ Partial(f, n + 1, a) BY <2>1 DEF Filled
    <3>2. n + 1 - 1 = n BY <1>1
    <3>3. Len(a) = Arity(f) + 1 /\ \A i \in 1..n : a[i] = Args[f][i]
      BY <3>1, <3>2 DEF Partial
    <3> QED BY <1>1, <2>1, <3>1, <3>3
  <2>2. CASE ~(Arity(f) > 0)
    <3>1. a = <<NULL>> /\ n = 0 BY <2>2
    <3>2. /\ <<NULL>> \in Seq(Value) /\ Len(<<NULL>>) = 1
          /\ <<NULL>>[1] = NULL
      BY DEF Value
    <3>3. \A i \in 1..n : a[i] = Args[f][i] BY <3>1
    <3> HIDE DEF a
    <3> QED BY <3>1, <3>2, <3>3
  <2> QED BY <2>1, <2>2
<1>3. \A i \in 1..n : a[i] \in Type BY <1>1, <1>2, SignatureFacts
<1>4. NULL \notin Type /\ JUNK \notin Type BY Distinct
<1>5. m = n
  <2> HIDE DEF a
  <2> QED BY <1>1, <1>2, <1>3, <1>4, EntriesAre
<1>6. ~(m < 0 \/ JUNK \in {a[i] : i \in 1..m})
  <2> HIDE DEF a, m
  <2> QED BY <1>1, <1>3, <1>4, <1>5
<1>7. /\ refs' = [t \in Type |-> r[t] - Occurs(t, a, m) - ret[t]]
      /\ arrays' = [x \in Array |->
           IF Arity(f) > 0 /\ x = ff_argtypes[f] THEN <<>> ELSE s[x]]
      /\ corrupt' = corrupt
  BY <1>6 DEF Undone, Release
<1>8. ASSUME NEW t \in Type
      PROVE  r[t] - Occurs(t, a, n) - ret[t] = Cardinality(Uses(t))
             /\ Cardinality(Uses(t)) \in Nat
  <2>1. /\ Occurs(t, a, n) \in Nat
        /\ Cardinality(Part(f, n + 1, t)) =
             Occurs(t, a, n) + IF t = Ret[f] THEN 1 ELSE 0
    <3> HIDE DEF a
    <3> QED BY <1>1, <1>2, PartSplits
  <2>2. IsFiniteSet(Uses(t)) BY DEF AInv, Counted
  <2>3. Cardinality(Uses(t)) \in Nat BY <2>2, FS_CardinalityType
  <2>4. r[t] = Cardinality(Uses(t)) + Cardinality(Part(f, n + 1, t))
    BY DEF Credited
  <2> HIDE DEF a
  <2> QED BY <2>1, <2>3, <2>4
<1>9. \A t \in Type : refs'[t] = Cardinality(Uses(t))
  <2> HIDE DEF a, m, ret
  <2> QED BY <1>5, <1>7, <1>8
<1>10. refs' \in [Type -> Nat]
  <2> HIDE DEF a, m, ret
  <2> QED BY <1>7, <1>8, <1>9
<1>11. <<>> \in Seq(Value) OBVIOUS
<1>12. arrays' \in [Array -> Seq(Value)] BY <1>7, <1>11 DEF Filled
<1>13. \A x \in Array : Arity(f) = 0 \/ x # ff_argtypes[f] => arrays'[x] = arrays[x]
  BY <1>1, <1>7 DEF Filled
<1>14. Arity(f) > 0 => arrays'[ff_argtypes[f]] = <<>> BY <1>7 DEF Filled
<1> QED BY <1>7, <1>9, <1>10, <1>12, <1>13, <1>14

LEMMA UndoneKeeps ==
  ASSUME Assumptions, MaxDepth = 1, AInv, ~Idle, NEW f, f = Top.fun,
         NEW n \in 0..Arity(f), NEW r, NEW s, Undone(f, r, s),
         Filled(f, n + 1, s), Credited(f, n + 1, r),
         IF Arity(f) > 0 THEN s[ff_argtypes[f]][n + 1] = NULL ELSE n = 0,
         Pop, Returns(f, FALSE), UNCHANGED <<ff_cif, cifs, ff_argtypes>>,
         ResultStored(f)
  PROVE  AInv'
<1>1. /\ TypeOK /\ ~corrupt /\ OnTheWay /\ Owned /\ Complete /\ Counted
  BY DEF AInv
<1>2. f \in Fun /\ Arity(f) \in Nat /\ stack' = <<>>
  BY <1>1, AloneFrame, SignatureFacts DEF Pop
<1>3. ~ff_cif[f] BY <1>1 DEF OnTheWay
<1>4. /\ \A t \in Type : refs'[t] = Cardinality(Uses(t))
      /\ refs' \in [Type -> Nat] /\ arrays' \in [Array -> Seq(Value)]
      /\ \A a \in Array : Arity(f) = 0 \/ a # ff_argtypes[f] =>
           arrays'[a] = arrays[a]
      /\ Arity(f) > 0 => arrays'[ff_argtypes[f]] = <<>>
      /\ corrupt' = corrupt
  BY UndoneEffect
<1>5. Idle' BY <1>2 DEF Idle
<1>6. returned' = [fun |-> f, ok |-> FALSE] BY DEF Returns
<1>7. TypeOK'
  <2>1. stack' \in Seq(Frame) /\ Len(stack') <= MaxDepth BY <1>2
  <2>2. arrays' \in [Array -> Seq(Type \cup {NULL, JUNK})] BY <1>4 DEF Value
  <2>3. returned' \in [fun : Fun, ok : BOOLEAN] BY <1>2, <1>6
  <2>4. /\ ff_cif' \in [Fun -> BOOLEAN] /\ cifs' \in [Fun -> Nat]
        /\ ff_argtypes' \in [Fun -> Array \cup {JUNK}] /\ corrupt' \in BOOLEAN
        /\ ff_rettype' \in [Fun -> Type \cup {NULL}] /\ known' \subseteq Type \ NoType
    BY <1>1, <1>4 DEF TypeOK, ResultStored
  <2> QED BY <1>4, <2>1, <2>2, <2>3, <2>4 DEF TypeOK
<1>8. \A g \in Fun : Owns(g)' <=> Owns(g) /\ g # f
  <2>1. \A g \in Fun : ~Writing(g)' BY <1>5 DEF Writing
  <2>2. \A g \in Fun : Writing(g) => g = f BY DEF Writing
  <2> QED BY <1>3, <2>1, <2>2 DEF Owns, Arity
<1>9. Arity(f) > 0 => Owns(f) BY DEF Filled, Writing, Owns
<1>10. ASSUME NEW g \in Fun, Owns(g), g # f
       PROVE  /\ ff_argtypes[g] \in Array
              /\ arrays'[ff_argtypes[g]] = arrays[ff_argtypes[g]]
  <2>1. ff_argtypes[g] \in Array BY <1>1, <1>10 DEF Owned
  <2>2. Arity(f) = 0 \/ ff_argtypes[g] # ff_argtypes[f]
    BY <1>1, <1>2, <1>9, <1>10 DEF Owned
  <2> QED BY <1>4, <2>1, <2>2
<1>11. Owned'
  <2>1. \A g \in Fun : Owns(g)' =>
          ff_argtypes'[g] \in Array /\ arrays'[ff_argtypes'[g]] # <<>>
    BY <1>1, <1>8, <1>10 DEF Owned
  <2>2. \A g, h \in Fun :
          Owns(g)' /\ Owns(h)' /\ ff_argtypes'[g] = ff_argtypes'[h] => g = h
    BY <1>1, <1>8 DEF Owned
  <2>3. ASSUME NEW a \in Array, arrays'[a] # <<>>
        PROVE  \E g \in Fun : Owns(g)' /\ ff_argtypes'[g] = a
    <3>1. Arity(f) = 0 \/ a # ff_argtypes[f] BY <1>2, <1>4, <2>3
    <3>2. arrays[a] # <<>> BY <1>4, <2>3, <3>1
    <3>3. PICK g \in Fun : Owns(g) /\ ff_argtypes[g] = a
      BY <1>1, <3>2 DEF Owned
    <3>4. Arity(f) = 0 => ~Owns(f) BY DEF Owns
    <3>5. g # f BY <3>1, <3>3, <3>4
    <3> QED BY <1>8, <3>3, <3>5
  <2> QED BY <2>1, <2>2, <2>3 DEF Owned
<1>12. Complete'
  <2>1. SUFFICES ASSUME NEW g \in Fun, ff_cif[g] PROVE Ready(g)'
    BY DEF Complete
  <2>2. Ready(g) /\ g # f BY <1>1, <1>3, <2>1 DEF Complete
  <2>3. Arity(g) > 0 => arrays'[ff_argtypes[g]] = arrays[ff_argtypes[g]]
    BY <1>10, <2>1, <2>2 DEF Owns
  <2> QED BY <2>2, <2>3 DEF Ready, ResultStored, Arity
<1>13. Counted'
  <2>1. \A t \in Type : IsFiniteSet(Uses(t)) BY <1>1 DEF Counted
  <2>2. \A t \in Type : Cardinality(Uses(t)) \in Nat
    BY <2>1, FS_CardinalityType
  <2>3. \A t : Uses(t)' = Uses(t) BY UsesSame
  <2>4. \A t : Taken(t)' = 0 BY <1>5 DEF Taken
  <2>5. /\ \A g \in Fun : cifs'[g] = IF ff_cif'[g] THEN 1 ELSE 0
        /\ IsFiniteSet({g \in Fun : ff_cif'[g]})
    BY <1>1 DEF Counted
  <2>6. ASSUME NEW t \in Type
        PROVE  /\ IsFiniteSet(Uses(t)')
               /\ refs'[t] = Cardinality(Uses(t)') + Taken(t)'
    BY <1>4, <2>1, <2>2, <2>3, <2>4
  <2> QED BY <2>5, <2>6 DEF Counted
<1>14. SetupContract' BY <1>6 DEF SetupContract
<1>15. ~corrupt' /\ OnTheWay' BY <1>1, <1>4, <1>5 DEF OnTheWay
<1> QED BY <1>7, <1>11, <1>12, <1>13, <1>14, <1>15 DEF AInv

-----------------------------------------------------------------------------
(* The steps without nesting. *)

LEMMA AInvInit == ASSUME Assumptions, Init PROVE AInv
<1>1. Idle BY DEF Init, Idle
<1>2. TypeOK
  <2>1. <<>> \in Seq(Type \cup {NULL, JUNK}) /\ <<>> \in Seq(Frame) OBVIOUS
  <2>2. Len(<<>>) <= MaxDepth BY Distinct
  <2> QED BY <2>1, <2>2 DEF Init, TypeOK
<1>3. \A f \in Fun : ~ff_cif[f] /\ ~Owns(f) BY <1>1 DEF Init, Owns, Writing
<1>4. Owned BY <1>3 DEF Owned, Init
<1>5. Counted
  <2>1. {f \in Fun : ff_cif[f]} = {} BY <1>3
  <2>2. \A t : Uses(t) = {} BY <2>1 DEF Uses
  <2>3. \A t \in Type : refs[t] = Cardinality(Uses(t)) + Taken(t)
    <3>1. SUFFICES ASSUME NEW t \in Type
                   PROVE  refs[t] = Cardinality(Uses(t)) + Taken(t)
      OBVIOUS
    <3>2. refs[t] = 0 BY DEF Init
    <3>3. Uses(t) = {} /\ Taken(t) = 0 BY <1>1, <2>2 DEF Taken
    <3>4. Cardinality({}) = 0 BY FS_EmptySet
    <3> QED BY <3>2, <3>3, <3>4
  <2> QED BY <1>3, <2>1, <2>2, <2>3, FS_EmptySet DEF Counted, Init
<1> QED BY <1>1, <1>2, <1>3, <1>4, <1>5
  DEF AInv, OnTheWay, Complete, SetupContract, Init

(* A set-up starts, or finds its type complete. *)
LEMMA EnterKeeps ==
  ASSUME Assumptions, MaxDepth = 1, AInv, NEW f \in Fun, Enter(f) PROVE AInv'
<1>1. TypeOK /\ ~corrupt /\ OnTheWay /\ Owned /\ Complete /\ Counted
  BY DEF AInv
<1>2. UNCHANGED <<ff_cif, cifs, ff_rettype, ff_argtypes, arrays, refs, known,
                  corrupt>>
  BY DEF Enter
<1>3. CASE ff_cif[f] \/ f \in NoRet
  <2>1. returned' = [fun |-> f, ok |-> ff_cif[f]] /\ UNCHANGED stack
    BY <1>3 DEF Enter, Returns
  <2>2. TypeOK' BY <1>1, <1>2, <2>1 DEF TypeOK
  <2>3. \A g : /\ Writing(g)' = Writing(g) /\ Ready(g)' = Ready(g)
               /\ Owns(g)' = Owns(g) /\ Uses(g)' = Uses(g) /\ Taken(g)' = Taken(g)
    BY <1>2, <2>1 DEF Writing, Ready, Owns, Uses, Taken, Idle, Top
  <2>4. OnTheWay' BY <1>1, <1>2, <2>1 DEF OnTheWay, Idle, Top
  <2>5. Owned' /\ Complete' /\ Counted'
    BY <1>1, <1>2, <2>3 DEF Owned, Complete, Counted
  <2>6. SetupContract' BY <1>1, <1>2, <2>1, <2>3 DEF SetupContract, Complete
  <2> QED BY <1>1, <1>2, <2>2, <2>4, <2>5, <2>6 DEF AInv
<1>4. CASE ~(ff_cif[f] \/ f \in NoRet)
  <2> DEFINE F == [fun |-> f, arg |-> 0, dest |-> NULL]
  <2>1. /\ Len(stack) < 1 /\ stack' = Append(stack, F) /\ returned' = NULL
    BY <1>4 DEF Enter
  <2>2. Idle
    <3>1. stack \in Seq(Frame) BY <1>1 DEF TypeOK
    <3> QED BY <2>1, <3>1, EmptySeq DEF Idle
  <2>3. stack' = <<F>> /\ F \in Frame /\ F.fun = f /\ F.arg = 0
    BY <2>1, <2>2 DEF Idle, Frame
  <2>4. ~Idle' /\ Top' = F BY <2>3 DEF Idle, Top
  <2>5. TypeOK' BY <1>1, <1>2, <2>1, <2>3 DEF TypeOK
  <2>6. \A g : /\ Ready(g)' = Ready(g) /\ Uses(g)' = Uses(g)
               /\ ~Writing(g) /\ ~Writing(g)'
    BY <1>2, <2>2, <2>3, <2>4 DEF Writing, Ready, Uses, Idle
  <2>7. \A g \in Fun : Owns(g)' <=> Owns(g) BY <1>2, <2>6 DEF Owns, Arity
  <2>8. OnTheWay'
    BY <1>2, <1>4, <2>3, <2>4, SignatureFacts DEF OnTheWay, Arity
  <2>9. Owned' /\ Complete' BY <1>1, <1>2, <2>6, <2>7 DEF Owned, Complete
  <2>10. \A t : Taken(t) = 0 /\ Taken(t)' = 0
    <3>1. \A t : Part(Top.fun, Top.arg, t)' = {} BY <2>3, <2>4 DEF Part
    <3>2. \A t : Taken(t)' = Cardinality(Part(Top.fun, Top.arg, t)')
      BY <2>4 DEF Taken
    <3> QED BY <2>2, <3>1, <3>2, FS_EmptySet DEF Taken
  <2>11. Counted' BY <1>1, <1>2, <2>6, <2>10 DEF Counted
  <2>12. SetupContract' BY <2>1 DEF SetupContract
  <2> QED BY <1>1, <1>2, <2>5, <2>8, <2>9, <2>11, <2>12 DEF AInv
<1> QED BY <1>3, <1>4

(* The type of the result cannot be used. *)
LEMMA RetFailsKeeps ==
  ASSUME Assumptions, MaxDepth = 1, AInv, RetFails PROVE AInv'
<1>1. /\ TypeOK /\ ~corrupt /\ OnTheWay /\ Owned /\ Complete /\ Counted
  BY DEF AInv
<1> DEFINE f == Top.fun
<1>2. ~Idle /\ Top.arg = 0 BY DEF RetFails
<1>3. f \in Fun /\ stack' = <<>> BY <1>1, <1>2, AloneFrame DEF RetFails, Pop
<1>4. ~ff_cif[f] BY <1>1, <1>2 DEF OnTheWay
<1>5. Wanted \in Type BY <1>2, <1>3, SignatureFacts DEF Wanted
<1>6. /\ UNCHANGED <<ff_cif, cifs, ff_argtypes, arrays, refs, corrupt>>
      /\ returned' = [fun |-> f, ok |-> FALSE]
      /\ known' = known \cup ({Wanted} \ NoType)
      /\ ff_rettype' \in [Fun -> Type \cup {NULL}]
      /\ \A g \in Fun : g # f => ff_rettype'[g] = ff_rettype[g]
  BY <1>1, <1>3, <1>5 DEF RetFails, Returns, TypeOK
<1>7. Idle' BY <1>3 DEF Idle
<1>8. TypeOK'
  <2>1. stack' \in Seq(Frame) /\ Len(stack') <= MaxDepth BY <1>3
  <2>2. known' \subseteq Type \ NoType BY <1>1, <1>5, <1>6 DEF TypeOK
  <2>3. returned' \in [fun : Fun, ok : BOOLEAN] BY <1>3, <1>6
  <2> QED BY <1>1, <1>6, <2>1, <2>2, <2>3 DEF TypeOK
<1>9. \A g : ~Writing(g) /\ ~Writing(g)' BY <1>2, <1>7 DEF Writing
<1>10. \A g : Owns(g)' <=> Owns(g) BY <1>6, <1>9 DEF Owns, Arity
<1>11. Owned' BY <1>1, <1>6, <1>10 DEF Owned
<1>12. Complete' BY <1>1, <1>4, <1>6 DEF Complete, Ready, Arity
<1>13. \A t : Taken(t) = 0 /\ Taken(t)' = 0
  BY <1>2, <1>7, PartEmpty DEF Taken
<1>14. \A t : Uses(t)' = Uses(t) BY <1>6, UsesSame
<1>15. Counted' BY <1>1, <1>6, <1>13, <1>14 DEF Counted
<1>16. SetupContract' BY <1>6 DEF SetupContract
<1> QED BY <1>1, <1>6, <1>7, <1>8, <1>11, <1>12, <1>15, <1>16
  DEF AInv, OnTheWay

(* The type of the result is found, and for arguments an array allocated.  *)
LEMMA RetFoundKeeps ==
  ASSUME Assumptions, MaxDepth = 1, AInv, RetFound PROVE AInv'
<1>1. /\ TypeOK /\ ~corrupt /\ OnTheWay /\ Owned /\ Complete /\ Counted
  BY DEF AInv
<1> DEFINE f == Top.fun
           r == [refs EXCEPT ![Wanted] = @ + 1]
<1>2. ~Idle /\ Top.arg = 0 BY DEF RetFound
<1>3. f \in Fun /\ Arity(f) \in Nat /\ Ret[f] \in Type /\ Needed(f, 0) = Ret[f]
  BY <1>1, <1>2, AloneFrame, SignatureFacts
<1>4. Wanted = Ret[f] BY <1>2, <1>3 DEF Wanted
<1>5. ~ff_cif[f] BY <1>1, <1>2 DEF OnTheWay
<1>6. ResultStored(f)
  <2>1. Ret[f] \notin NoType BY <1>4 DEF RetFound, Usable
  <2>2. known' = known \cup {Ret[f]} /\ ff_rettype' = [ff_rettype EXCEPT ![f] = Ret[f]]
    BY <1>4 DEF RetFound
  <2> QED BY <1>1, <1>3, <2>1, <2>2 DEF ResultStored, TypeOK
<1>7. Credited(f, 1, r)
  <2>1. r \in [Type -> Nat] BY <1>1, <1>3, <1>4 DEF TypeOK
  <2>2. ASSUME NEW t \in Type
        PROVE  r[t] = Cardinality(Uses(t)) + Cardinality(Part(f, 1, t))
    <3>1. Cardinality(Uses(t)) \in Nat BY <1>1, FS_CardinalityType DEF Counted
    <3>2. Cardinality(Part(f, 0, t)) = 0 BY PartEmpty
    <3>3. Cardinality(Part(f, 0 + 1, t)) = 0 + IF Needed(f, 0) = t THEN 1 ELSE 0
      BY <3>2, PartGrows
    <3>4. Cardinality(Part(f, 1, t)) = IF Ret[f] = t THEN 1 ELSE 0
      BY <1>3, <3>3
    <3>5. refs[t] = Cardinality(Uses(t))
      BY <1>1, <1>2, <3>1, <3>2 DEF Counted, Taken
    <3> QED BY <1>1, <1>3, <1>4, <3>1, <3>4, <3>5 DEF TypeOK
  <2> QED BY <2>1, <2>2 DEF Credited
<1>8. CASE Arity(f) = 0
  <2>1. Finish(f, r, arrays) /\ UNCHANGED ff_argtypes BY <1>8 DEF RetFound
  <2>2. Filled(f, Arity(f) + 1, arrays) BY <1>1, <1>8 DEF Filled, TypeOK, Value
  <2>3. CASE Prepared(f, r, arrays)
    BY <1>2, <1>6, <1>7, <1>8, <2>1, <2>2, <2>3, PreparedKeeps DEF Finish
  <2>4. CASE /\ Undone(f, r, arrays) /\ Returns(f, FALSE)
             /\ UNCHANGED <<ff_cif, cifs>>
    <3>1. 0 \in 0..Arity(f) /\ 0 + 1 = 1 BY <1>8
    <3>2. Filled(f, 0 + 1, arrays) /\ Credited(f, 0 + 1, r)
      BY <1>7, <1>8, <2>2
    <3>3. IF Arity(f) > 0 THEN arrays[ff_argtypes[f]][0 + 1] = NULL ELSE 0 = 0
      BY <1>8
    <3> QED BY <1>2, <1>6, <2>1, <2>4, <3>1, <3>2, <3>3, UndoneKeeps DEF Finish
  <2> QED BY <2>1, <2>3, <2>4 DEF Finish
<1>9. CASE Arity(f) > 0
  <2> DEFINE n == Arity(f)
             F(a) == [fun |-> f, arg |-> 1, dest |-> a]
  <2>1. PICK a \in Array :
          /\ arrays[a] = <<>>
          /\ arrays' = [arrays EXCEPT ![a] = Blank(n)]
          /\ ff_argtypes' = [ff_argtypes EXCEPT ![f] = a]
          /\ stack' = [stack EXCEPT ![Len(stack)] = F(a)]
          /\ refs' = r /\ returned' = NULL
          /\ UNCHANGED <<ff_cif, cifs, corrupt>>
    BY <1>9 DEF RetFound
  <2>2. F(a) \in Frame /\ stack' = <<F(a)>>
    <3>1. F(a) \in Frame BY <1>3 DEF Frame
    <3>2. stack = <<Top>> BY <1>1, <1>2, AloneFrame
    <3>3. [<<Top>> EXCEPT ![1] = F(a)] = <<F(a)>> OBVIOUS
    <3>4. Len(stack) = 1 BY <1>1, <1>2, AloneFrame
    <3> QED BY <2>1, <3>1, <3>2, <3>3, <3>4
  <2>3. ~Idle' /\ Top' = F(a) BY <2>2 DEF Idle, Top
  <2>4. /\ Blank(n) \in Seq(Value) /\ Len(Blank(n)) = n + 1
        /\ Blank(n)[n + 1] = NULL
    <3>1. n + 1 \in Nat BY <1>3
    <3>2. \A i \in 1..(n + 1) : (IF i = n + 1 THEN NULL ELSE JUNK) \in Value
      BY DEF Value
    <3> QED BY <1>3, <3>1, <3>2 DEF Blank
  <2>5. TypeOK'
    <3>1. stack' \in Seq(Frame) /\ Len(stack') <= MaxDepth BY <2>2
    <3>2. arrays' \in [Array -> Seq(Type \cup {NULL, JUNK})]
      BY <1>1, <2>1, <2>4 DEF TypeOK, Value
    <3>3. ff_argtypes' \in [Fun -> Array \cup {JUNK}] BY <1>1, <2>1 DEF TypeOK
    <3> QED BY <1>1, <1>6, <1>7, <2>1, <3>1, <3>2, <3>3
      DEF TypeOK, ResultStored, Credited
  <2>6. \A g \in Fun : g # f => ff_argtypes'[g] = ff_argtypes[g]
    BY <1>1, <2>1 DEF TypeOK
  <2>7. ff_argtypes'[f] = a /\ arrays'[a] = Blank(n)
        /\ \A b \in Array : b # a => arrays'[b] = arrays[b]
    BY <1>1, <1>3, <2>1 DEF TypeOK
  <2>8. OnTheWay'
    <3>2. /\ ff_rettype'[f] = Ret[f] /\ ~ff_cif'[f]
          /\ 1 <= Arity(f) /\ a \in Array
      BY <1>3, <1>5, <1>6, <1>9, <2>1 DEF ResultStored
    <3>3. Partial(Top.fun, Top.arg, arrays[Top.dest])'
      BY <1>3, <2>3, <2>4, <2>7 DEF Partial, Arity
    <3> QED BY <2>3, <2>7, <3>2, <3>3 DEF OnTheWay, Arity
  <2>9. \A g \in Fun : Owns(g)' <=> Owns(g) \/ g = f
    BY <1>2, <1>9, <2>1, <2>3 DEF Owns, Writing, Arity
  <2>10. ~Owns(f) BY <1>2, <1>5 DEF Owns, Writing
  <2>11. \A g \in Fun : Owns(g) => ff_argtypes[g] # a /\ g # f
    BY <1>1, <2>1, <2>10 DEF Owned
  <2>12. Blank(n) # <<>>
    <3>1. Len(<<>>) # n + 1 BY <1>3
    <3> QED BY <2>4, <3>1
  <2>13. Owned'
    <3>1. \A g \in Fun : Owns(g)' =>
            ff_argtypes'[g] \in Array /\ arrays'[ff_argtypes'[g]] # <<>>
      BY <1>1, <2>6, <2>7, <2>9, <2>11, <2>12 DEF Owned
    <3>2. \A g, h \in Fun :
            Owns(g)' /\ Owns(h)' /\ ff_argtypes'[g] = ff_argtypes'[h] => g = h
      BY <1>1, <2>6, <2>7, <2>9, <2>11 DEF Owned
    <3>3. \A b \in Array : arrays'[b] # <<>> =>
            \E g \in Fun : Owns(g)' /\ ff_argtypes'[g] = b
      BY <1>1, <1>3, <2>6, <2>7, <2>9, <2>11 DEF Owned
    <3> QED BY <3>1, <3>2, <3>3 DEF Owned
  <2>14. Complete'
    <3>1. SUFFICES ASSUME NEW g \in Fun, ff_cif[g] PROVE Ready(g)'
      BY <2>1 DEF Complete
    <3>2. g # f /\ Ready(g) BY <1>1, <1>5, <3>1 DEF Complete
    <3>3. Arity(g) > 0 => arrays'[ff_argtypes[g]] = arrays[ff_argtypes[g]]
      BY <1>1, <2>7, <2>11, <3>1 DEF Owns, Owned
    <3> QED BY <1>6, <2>6, <3>2, <3>3 DEF Ready, ResultStored, Arity
  <2>15. Counted'
    <3>1. \A t : Uses(t)' = Uses(t) BY <2>1, UsesSame
    <3>2. \A t : Taken(t)' = Cardinality(Part(f, 1, t))
      BY <2>3 DEF Taken, Part, Needed
    <3> QED BY <1>1, <1>7, <2>1, <3>1, <3>2 DEF Counted, Credited
  <2>16. SetupContract' BY <2>1 DEF SetupContract
  <2> QED BY <1>1, <2>1, <2>5, <2>8, <2>13, <2>14, <2>15, <2>16 DEF AInv
<1> QED BY <1>3, <1>8, <1>9

(* The type of the next argument is looked up.  Nothing replaced the array *)
(* meanwhile, so it is the one that was loaded.                            *)
LEMMA ArgumentKeeps ==
  ASSUME Assumptions, MaxDepth = 1, AInv, Argument PROVE AInv'
<1>1. /\ TypeOK /\ ~corrupt /\ OnTheWay /\ Owned /\ Complete /\ Counted
  BY DEF AInv
<1> DEFINE f == Top.fun
           i == Top.arg
           d == ff_argtypes[f]
           r == IF Wanted \in NoType THEN refs ELSE [refs EXCEPT ![Wanted] = @ + 1]
<1>2. ~Idle /\ i > 0 /\ UNCHANGED <<ff_rettype, ff_argtypes>> BY DEF Argument
<1>3. /\ f \in Fun /\ Arity(f) \in Nat /\ i \in 1..Arity(f) /\ i \in Nat
      /\ \A j \in 1..Arity(f) : Args[f][j] \in Type
  BY <1>1, <1>2, AloneFrame, SignatureFacts DEF OnTheWay
<1>4. Wanted = Args[f][i] /\ Wanted \in Type /\ Wanted = Needed(f, i)
  BY <1>2, <1>3, SignatureFacts DEF Wanted
<1>5. /\ ~ff_cif[f] /\ ff_rettype[f] = Ret[f] /\ d \in Array /\ Top.dest = d
      /\ Partial(f, i, arrays[d]) /\ arrays[d] \in Seq(Value)
      /\ Len(arrays[d]) = Arity(f) + 1
  BY <1>1, <1>2 DEF OnTheWay, Partial, TypeOK, Value
<1>6. arrays[d] # <<>>
  <2>1. Len(<<>>) # Arity(f) + 1 BY <1>3
  <2> QED BY <1>5, <2>1
<1>7. ResultStored(f)
  BY <1>1, <1>2, <1>4, <1>5 DEF ResultStored, Argument, TypeOK
<1>8. Wanted \notin NoType => Credited(f, i + 1, r)
  <2>1. SUFFICES ASSUME Wanted \notin NoType PROVE Credited(f, i + 1, r)
    OBVIOUS
  <2>2. r = [refs EXCEPT ![Wanted] = @ + 1] BY <2>1
  <2>3. r \in [Type -> Nat] BY <1>1, <1>4, <2>2 DEF TypeOK
  <2>4. ASSUME NEW t \in Type
        PROVE  r[t] = Cardinality(Uses(t)) + Cardinality(Part(f, i + 1, t))
    <3>1. Cardinality(Uses(t)) \in Nat BY <1>1, FS_CardinalityType DEF Counted
    <3>2. Cardinality(Part(f, i, t)) \in Nat BY <1>3, PartFinite
    <3>3. Cardinality(Part(f, i + 1, t)) =
            Cardinality(Part(f, i, t)) + IF Wanted = t THEN 1 ELSE 0
      BY <1>3, <1>4, PartGrows
    <3>4. refs[t] = Cardinality(Uses(t)) + Cardinality(Part(f, i, t))
      BY <1>1, <1>2 DEF Counted, Taken
    <3> QED BY <1>1, <1>4, <2>2, <3>1, <3>2, <3>3, <3>4 DEF TypeOK
  <2> QED BY <2>3, <2>4 DEF Credited
<1>9. Wanted \in NoType => Credited(f, i, r)
  BY <1>1, <1>2 DEF Credited, Counted, Taken, TypeOK
<1> DEFINE s == [arrays EXCEPT ![d][i] = Wanted]
           u == [arrays EXCEPT ![d] = EndedBehind(@, i, Wanted)]
<1>10. \/ /\ Usable(Wanted)
          /\ IF i = Arity(f) THEN Finish(f, r, s) ELSE Advance(f, r, s)
       \/ /\ ~Usable(Wanted)
          /\ Undone(f, r, u)
          /\ Pop /\ Returns(f, FALSE) /\ UNCHANGED <<ff_cif, cifs>>
  BY <1>5, <1>6 DEF Argument
<1>11. /\ s \in [Array -> Seq(Value)] /\ Partial(f, i + 1, s[d])
       /\ \A b \in Array : b # d => s[b] = arrays[b]
  <2> DEFINE v == [arrays[d] EXCEPT ![i] = Wanted]
  <2>1. i \in 1..Len(arrays[d]) /\ Wanted \in Value
    BY <1>3, <1>4, <1>5 DEF Value
  <2>2. /\ v \in Seq(Value) /\ Len(v) = Len(arrays[d]) /\ v[i] = Wanted
        /\ \A j \in 1..Len(arrays[d]) : j # i => v[j] = arrays[d][j]
    BY <1>5, <2>1, Stored
  <2>3. s = [arrays EXCEPT ![d] = v] BY <1>1, <1>5 DEF TypeOK
  <2>4. /\ s \in [Array -> Seq(Value)] /\ s[d] = v
        /\ \A b \in Array : b # d => s[b] = arrays[b]
    BY <1>1, <1>5, <2>2, <2>3 DEF TypeOK, Value
  <2>5. Partial(f, i + 1, v)
    <3> HIDE DEF v
    <3>1. Arity(f) + 1 \in 1..Len(arrays[d]) /\ Arity(f) + 1 # i
      BY <1>3, <1>5
    <3>2. arrays[d][Arity(f) + 1] = NULL BY <1>5 DEF Partial
    <3>3. v[Arity(f) + 1] = NULL BY <2>2, <3>1, <3>2
    <3>4. \A j \in 1..(i - 1) : arrays[d][j] = Args[f][j] BY <1>5 DEF Partial
    <3>5. ASSUME NEW j \in 1..i PROVE v[j] = Args[f][j]
      <4>1. CASE j = i BY <1>4, <2>2, <4>1
      <4>2. CASE j # i
        <5>1. j \in 1..(i - 1) /\ j \in 1..Len(arrays[d]) BY <1>3, <1>5, <4>2
        <5> QED BY <2>2, <3>4, <4>2, <5>1
      <4> QED BY <4>1, <4>2
    <3> HIDE DEF f, i
    <3> QED BY <1>3, <1>5, <2>2, <3>3, <3>5, PartialArray
  <2> QED BY <2>4, <2>5
<1>12. Filled(f, i + 1, s)
  <2>1. Top.arg > 0 /\ Arity(f) # 0 BY <1>2, <1>3
  <2> HIDE DEF s, i, f
  <2> QED BY <1>5, <1>11, <2>1 DEF Filled
<1>13. CASE Usable(Wanted) /\ i = Arity(f)
  <2>1. Finish(f, r, s) BY <1>10, <1>13
  <2>2. Credited(f, i + 1, r) BY <1>8, <1>13 DEF Usable
  <2>3. CASE Prepared(f, r, s)
    BY <1>2, <1>7, <1>12, <1>13, <2>1, <2>2, <2>3, PreparedKeeps DEF Finish
  <2>4. CASE /\ Undone(f, r, s) /\ Returns(f, FALSE)
             /\ UNCHANGED <<ff_cif, cifs>>
    <3>1. i \in 0..Arity(f) BY <1>3
    <3>2. s[d][i + 1] = NULL BY <1>11, <1>13 DEF Partial
    <3>3. IF Arity(f) > 0 THEN s[ff_argtypes[f]][i + 1] = NULL ELSE i = 0
      BY <1>2, <1>13, <3>2
    <3> HIDE DEF r, s, i
    <3> QED BY <1>2, <1>7, <1>12, <2>1, <2>2, <2>4, <3>1, <3>3, UndoneKeeps
      DEF Finish
  <2> QED BY <2>1, <2>3, <2>4 DEF Finish
<1>14. CASE ~Usable(Wanted)
  <2> DEFINE n == IF Wanted \in NoType THEN i - 1 ELSE i
             v == EndedBehind(arrays[d], i, Wanted)
             w == [arrays[d] EXCEPT ![i] = IF Wanted \in NoType THEN NULL ELSE Wanted]
  <2>1. n \in 0..Arity(f) /\ Credited(f, n + 1, r) BY <1>3, <1>8, <1>9
  <2>2. i \in 1..Len(arrays[d]) /\ i + 1 \in 1..Len(arrays[d])
        /\ Wanted \in Value /\ NULL \in Value
    BY <1>3, <1>4, <1>5 DEF Value
  <2>3. /\ w \in Seq(Value) /\ Len(w) = Len(arrays[d])
        /\ w[i] = IF Wanted \in NoType THEN NULL ELSE Wanted
        /\ \A j \in 1..Len(arrays[d]) : j # i => w[j] = arrays[d][j]
    BY <1>5, <2>2, Stored
  <2>4. v = [w EXCEPT ![i + 1] = NULL] BY DEF EndedBehind
  <2>5. /\ v \in Seq(Value) /\ Len(v) = Len(w) /\ v[i + 1] = NULL
        /\ \A j \in 1..Len(w) : j # i + 1 => v[j] = w[j]
    <3> HIDE DEF v, w
    <3> QED BY <2>2, <2>3, <2>4, Stored
  <2>6. u = [arrays EXCEPT ![d] = v] OBVIOUS
  <2>7. /\ u \in [Array -> Seq(Value)] /\ u[d] = v
        /\ \A b \in Array : b # d => u[b] = arrays[b]
    <3> HIDE DEF v
    <3> QED BY <1>1, <1>5, <2>5, <2>6 DEF TypeOK, Value
  <2>8. v[n + 1] = NULL /\ Partial(f, n + 1, v)
    <3> HIDE DEF v, w
    <3>1. \A j \in 1..(i - 1) : arrays[d][j] = Args[f][j] BY <1>5 DEF Partial
    <3>2. ASSUME NEW j \in 1..(i - 1) PROVE v[j] = Args[f][j]
      <4>1. j \in 1..Len(arrays[d]) /\ j # i /\ j # i + 1 BY <1>3, <1>5
      <4> QED BY <2>3, <2>5, <3>1, <4>1
    <3>3. v[i] = IF Wanted \in NoType THEN NULL ELSE Wanted
      <4>1. i # i + 1 BY <1>3
      <4> QED BY <2>2, <2>3, <2>5, <4>1
    <3>4. v[Arity(f) + 1] = NULL
      <4>1. CASE i = Arity(f) BY <2>5, <4>1
      <4>2. CASE i # Arity(f)
        <5>1. /\ Arity(f) + 1 # i /\ Arity(f) + 1 # i + 1
              /\ Arity(f) + 1 \in 1..Len(arrays[d])
          BY <1>3, <1>5, <4>2
        <5>2. arrays[d][Arity(f) + 1] = NULL BY <1>5 DEF Partial
        <5> QED BY <2>3, <2>5, <5>1, <5>2
      <4> QED BY <4>1, <4>2
    <3>5. CASE Wanted \in NoType
      <4>1. n = i - 1 /\ n + 1 = i /\ n + 1 - 1 = i - 1 BY <1>3, <3>5
      <4> HIDE DEF n
      <4> QED BY <1>5, <2>3, <2>5, <3>2, <3>3, <3>4, <3>5, <4>1 DEF Partial
    <3>6. CASE Wanted \notin NoType
      <4>1. n = i /\ n + 1 - 1 = i BY <1>3, <3>6
      <4>2. ASSUME NEW j \in 1..i PROVE v[j] = Args[f][j]
        <5>1. j = i \/ j \in 1..(i - 1) BY <1>3
        <5> QED BY <1>4, <3>2, <3>3, <3>6, <5>1
      <4>3. v[i + 1] = NULL /\ Len(v) = Arity(f) + 1 BY <1>5, <2>3, <2>5
      <4> HIDE DEF n, i, f
      <4> QED BY <1>3, <3>4, <4>1, <4>2, <4>3, PartialArray
    <3> QED BY <3>5, <3>6
  <2>9. Filled(f, n + 1, u)
    <3>1. Top.arg > 0 /\ Arity(f) # 0 BY <1>2, <1>3
    <3> HIDE DEF u, v, n, i, f
    <3> QED BY <1>5, <2>7, <2>8, <3>1 DEF Filled
  <2>10. /\ Undone(f, r, u) /\ Pop /\ Returns(f, FALSE)
         /\ UNCHANGED <<ff_cif, cifs>>
    BY <1>10, <1>14
  <2>11. IF Arity(f) > 0 THEN u[ff_argtypes[f]][n + 1] = NULL ELSE n = 0
    <3> HIDE DEF u, v, n
    <3> QED BY <1>3, <2>7, <2>8
  <2> HIDE DEF n, u, v, r
  <2> QED BY <1>2, <1>7, <2>1, <2>9, <2>10, <2>11, UndoneKeeps
<1>15. CASE Usable(Wanted) /\ i # Arity(f)
  <2> DEFINE F == [fun |-> f, arg |-> i + 1, dest |-> d]
  <2>1. /\ stack' = [stack EXCEPT ![Len(stack)] = F]
        /\ refs' = r /\ arrays' = s /\ returned' = NULL
        /\ UNCHANGED <<ff_cif, cifs, corrupt>>
    BY <1>10, <1>15 DEF Advance
  <2>2. F \in Frame /\ stack' = <<F>>
    <3>1. F \in Frame BY <1>3, <1>5 DEF Frame
    <3>2. stack = <<Top>> /\ Len(stack) = 1 BY <1>1, <1>2, AloneFrame
    <3>3. [<<Top>> EXCEPT ![1] = F] = <<F>> OBVIOUS
    <3> QED BY <2>1, <3>1, <3>2, <3>3
  <2>3. ~Idle' /\ Top' = F /\ F.fun = f /\ F.arg = i + 1 /\ F.dest = d
    BY <2>2 DEF Idle, Top
  <2>4. Credited(f, i + 1, r) BY <1>8, <1>15 DEF Usable
  <2> HIDE DEF r, s, F
  <2>5. TypeOK'
    <3>1. stack' \in Seq(Frame) /\ Len(stack') <= MaxDepth BY <2>2
    <3>2. arrays' \in [Array -> Seq(Type \cup {NULL, JUNK})]
      BY <1>11, <2>1 DEF Value
    <3> QED BY <1>1, <1>2, <1>7, <2>1, <2>4, <3>1, <3>2
      DEF TypeOK, ResultStored, Credited
  <2>6. OnTheWay'
    <3>1. i + 1 <= Arity(f) BY <1>3, <1>15
    <3>2. Partial(Top.fun, Top.arg, arrays[Top.dest])'
      BY <1>11, <2>1, <2>3 DEF Partial, Arity
    <3> QED BY <1>2, <1>5, <2>1, <2>3, <3>1, <3>2 DEF OnTheWay, Arity
  <2>7. \A g \in Fun : Owns(g)' <=> Owns(g)
    BY <1>2, <1>3, <2>1, <2>3 DEF Owns, Writing, Arity
  <2>8. \A b \in Array : arrays'[b] # <<>> <=> arrays[b] # <<>>
    <3>1. arrays'[d] # <<>>
      <4>1. Len(arrays'[d]) = Arity(f) + 1 BY <1>11, <2>1 DEF Partial
      <4>2. Len(<<>>) # Arity(f) + 1 BY <1>3
      <4> QED BY <4>1, <4>2
    <3> QED BY <1>6, <1>11, <2>1, <3>1
  <2>9. Owned' BY <1>1, <1>2, <2>7, <2>8 DEF Owned
  <2>10. Complete'
    <3>1. SUFFICES ASSUME NEW g \in Fun, ff_cif[g] PROVE Ready(g)'
      BY <2>1 DEF Complete
    <3>2. g # f /\ Ready(g) BY <1>1, <1>5, <3>1 DEF Complete
    <3>3. ASSUME Arity(g) > 0 PROVE arrays'[ff_argtypes[g]] = arrays[ff_argtypes[g]]
      <4>1. Owns(f) /\ Owns(g) BY <1>2, <1>3, <3>1, <3>3 DEF Owns, Writing
      <4>2. ff_argtypes[g] # d /\ ff_argtypes[g] \in Array
        BY <1>1, <1>3, <3>2, <4>1 DEF Owned
      <4> QED BY <1>11, <2>1, <4>2
    <3> QED BY <1>2, <3>2, <3>3 DEF Ready, Arity
  <2>11. Counted'
    <3>1. \A t : Uses(t)' = Uses(t) BY <2>1, UsesSame
    <3>2. \A t : Taken(t)' = Cardinality(Part(f, i + 1, t))
      BY <2>3 DEF Taken, Part, Needed
    <3> QED BY <1>1, <2>1, <2>4, <3>1, <3>2 DEF Counted, Credited
  <2>12. SetupContract' BY <2>1 DEF SetupContract
  <2> QED BY <1>1, <2>1, <2>5, <2>6, <2>9, <2>10, <2>11, <2>12 DEF AInv
<1> QED BY <1>13, <1>14, <1>15

LEMMA AInvNext ==
  ASSUME Assumptions, MaxDepth = 1, AInv, [Next]_vars PROVE AInv'
<1>1. CASE UNCHANGED vars
  <2>1. TypeOK' BY <1>1 DEF AInv, TypeOK, vars
  <2>2. \A g : /\ Writing(g)' = Writing(g) /\ Ready(g)' = Ready(g)
               /\ Owns(g)' = Owns(g) /\ Uses(g)' = Uses(g) /\ Taken(g)' = Taken(g)
    BY <1>1 DEF vars, Writing, Ready, Owns, Uses, Taken, Idle, Top
  <2>3. OnTheWay' BY <1>1 DEF AInv, vars, OnTheWay, Idle, Top
  <2>4. Owned' /\ Complete' /\ Counted'
    BY <1>1, <2>2 DEF AInv, vars, Owned, Complete, Counted
  <2>5. SetupContract' BY <1>1, <2>2 DEF AInv, vars, SetupContract
  <2> QED BY <1>1, <2>1, <2>3, <2>4, <2>5 DEF AInv, vars
<1>2. CASE \E f \in Fun : Enter(f) BY <1>2, EnterKeeps
<1>3. CASE RetFails BY <1>3, RetFailsKeeps
<1>4. CASE RetFound BY <1>4, RetFoundKeeps
<1>5. CASE Argument BY <1>5, ArgumentKeeps
<1> QED BY <1>1, <1>2, <1>3, <1>4, <1>5 DEF Next

LEMMA AloneInvariant ==
  ASSUME Assumptions, MaxDepth = 1 PROVE Spec => []AInv
<1>1. Init => AInv BY AInvInit
<1>2. AInv /\ [Next]_vars => AInv' BY AInvNext
<1> QED BY <1>1, <1>2, PTL DEF Spec

(* Between calls exactly what complete function types use is taken, if     *)
(* finalisers call no functions: the error paths of funproxytype_setup     *)
(* give back what was taken and nothing else, wherever they start from.    *)
THEOREM NothingLost ==
  ASSUME Assumptions, MaxDepth = 1 PROVE Spec => []AllOrNothing
<1>1. AInv => AllOrNothing
  <2>1. SUFFICES ASSUME AInv, Idle
        PROVE  /\ \A t \in Type : refs[t] = Cardinality(Uses(t))
               /\ \A f \in Fun : cifs[f] = IF ff_cif[f] THEN 1 ELSE 0
               /\ \A a \in Array : arrays[a] # <<>> <=>
                    Cardinality({f \in Fun : /\ ff_cif[f] /\ Arity(f) > 0
                                             /\ ff_argtypes[f] = a}) = 1
    BY DEF AllOrNothing
  <2>2. Owned /\ Counted BY <2>1 DEF AInv
  <2>3. ASSUME NEW t \in Type PROVE refs[t] = Cardinality(Uses(t))
    <3>1. Cardinality(Uses(t)) \in Nat BY <2>2, FS_CardinalityType DEF Counted
    <3> QED BY <2>1, <2>2, <3>1 DEF Counted, Taken
  <2>4. ASSUME NEW a \in Array
        PROVE  arrays[a] # <<>> <=>
                 Cardinality({f \in Fun : /\ ff_cif[f] /\ Arity(f) > 0
                                          /\ ff_argtypes[f] = a}) = 1
    <3> DEFINE O == {f \in Fun : ff_cif[f] /\ Arity(f) > 0 /\ ff_argtypes[f] = a}
    <3>1. \A f \in Fun : Owns(f) /\ ff_argtypes[f] = a <=> f \in O
      BY <2>1 DEF Owns, Writing
    <3>2. IsFiniteSet(O)
      <4>1. O \in SUBSET {f \in Fun : ff_cif[f]} OBVIOUS
      <4> QED BY <2>2, <4>1, FS_Subset DEF Counted
    <3>3. arrays[a] # <<>> <=> O # {}
      <4> HIDE DEF O
      <4>1. O \subseteq Fun BY DEF O
      <4> QED BY <2>2, <3>1, <4>1 DEF Owned
    <3>4. \A f, g \in O : f = g BY <2>2, <3>1 DEF Owned
    <3>5. O # {} <=> \E f : O = {f}
      <4> HIDE DEF O
      <4> QED BY <3>4
    <3>6. Cardinality(O) = 1 <=> \E f : O = {f} BY <3>2, FS_Singleton
    <3> QED BY <3>3, <3>5, <3>6
  <2> QED BY <2>2, <2>3, <2>4 DEF Counted
<1> QED BY <1>1, AloneInvariant, PTL

-----------------------------------------------------------------------------
(* Set-ups that nest.  If each can be completed, the argument is this: one *)
(* that ends has created every type its function type needs, so another of *)
(* the same type further down the stack fills its arrays without being     *)
(* interrupted.  Arrays of different function types are never mixed up.    *)

Completable ==
  /\ NoCall = {}
  /\ \A f \in Fun : \A i \in 0..Arity(f) : Usable(Needed(f, i))

(* The first k types that f needs exist. *)
AllKnown(f, k) == \A i \in 0..Arity(f) : i < k => Needed(f, i) \in known

(* No other set-up of the same type is above the k-th. *)
Uppermost(k) ==
  \A j \in 1..Len(stack) : stack[j].fun = stack[k].fun => j <= k

(* Every set-up in progress has what it needs to go on.  The entries       *)
(* behind it are filled unless another set-up of its type is above it; one *)
(* whose array has been replaced finds the new one complete.               *)
Underway ==
  \A k \in 1..Len(stack) :
    LET f == stack[k].fun
        i == stack[k].arg
    IN  /\ i <= Arity(f) /\ AllKnown(f, i)
        /\ i > 0 => /\ ff_rettype[f] = Ret[f]
                    /\ stack[k].dest \in Array /\ ff_argtypes[f] \in Array
        /\ i > 0 /\ Uppermost(k) =>
             /\ \A j \in 1..(i - 1) : arrays[ff_argtypes[f]][j] = Args[f][j]
             /\ stack[k].dest # ff_argtypes[f] => Ready(f)

(* The arrays set-ups of f may write. *)
Mine(f) ==
  {a \in Array : a = ff_argtypes[f] \/
                 \E k \in 1..Len(stack) : stack[k].fun = f /\ stack[k].dest = a}

Apart ==
  /\ \A f, g \in Fun : Mine(f) \cap Mine(g) # {} => f = g
  /\ \A f \in Fun : \A a \in Mine(f) : Partial(f, 1, arrays[a])

(* A complete type stays ready for calls whenever one can be made. *)
Settled ==
  \A f \in Fun : ff_cif[f] =>
    /\ AllKnown(f, Arity(f) + 1)
    /\ Arity(f) > 0 => ff_argtypes[f] \in Array
    /\ Ready(f) \/ Writing(f)

NInv == TypeOK /\ ~corrupt /\ Underway /\ Apart /\ Settled /\ SetupContract

LEMMA LastFrame ==
  ASSUME TypeOK, ~Idle
  PROVE  /\ Len(stack) \in Nat \ {0} /\ Top = stack[Len(stack)]
         /\ Top \in Frame /\ Top.fun \in Fun /\ Top.arg \in Nat
         /\ Front(stack) \in Seq(Frame) /\ Len(Front(stack)) = Len(stack) - 1
         /\ \A k \in 1..(Len(stack) - 1) : Front(stack)[k] = stack[k]
<1> DEFINE m == Len(stack) - 1
<1>1. stack \in Seq(Frame) /\ stack # <<>> BY DEF TypeOK, Idle
<1>2. Len(stack) \in Nat \ {0} BY <1>1, EmptySeq
<1>3. Top = stack[Len(stack)] BY DEF Top
<1>4. Top \in Frame BY <1>1, <1>2, <1>3
<1>5. \A k \in 1..m : stack[k] \in Frame BY <1>1, <1>2
<1>6. Front(stack) = SubSeq(stack, 1, m) BY DEF Front
<1>7. m \in Nat BY <1>2
<1> HIDE DEF m
<1>8. m \in Int /\ (IF 1 <= m THEN m - 1 + 1 ELSE 0) = m /\ m - 1 + 1 = m
  BY <1>7
<1>9. /\ SubSeq(stack, 1, m) \in Seq(Frame)
      /\ Len(SubSeq(stack, 1, m)) = IF 1 <= m THEN m - 1 + 1 ELSE 0
      /\ \A k \in 1..(m - 1 + 1) : SubSeq(stack, 1, m)[k] = stack[1 + k - 1]
  BY <1>5, <1>8, SubSeqProperties
<1>10. \A k \in 1..m : 1 + k - 1 = k BY <1>7
<1>11. \A k \in 1..m : SubSeq(stack, 1, m)[k] = stack[k] BY <1>8, <1>9, <1>10
<1> QED BY <1>2, <1>3, <1>4, <1>6, <1>8, <1>9, <1>11 DEF Frame, m

LEMMA TopUnderway ==
  ASSUME TypeOK, Underway, ~Idle
  PROVE  /\ Top.arg <= Arity(Top.fun) /\ AllKnown(Top.fun, Top.arg)
         /\ Top.arg > 0 =>
              /\ ff_rettype[Top.fun] = Ret[Top.fun]
              /\ Top.dest \in Array /\ ff_argtypes[Top.fun] \in Array
              /\ \A j \in 1..(Top.arg - 1) :
                   arrays[ff_argtypes[Top.fun]][j] = Args[Top.fun][j]
              /\ Top.dest # ff_argtypes[Top.fun] => Ready(Top.fun)
<1> DEFINE n == Len(stack)
<1>1. n \in Nat \ {0} /\ n \in 1..n /\ Top = stack[n] BY LastFrame
<1>2. Uppermost(n) BY DEF Uppermost
<1> HIDE DEF n
<1>3. n \in 1..Len(stack) BY <1>1 DEF n
<1> QED BY <1>1, <1>2, <1>3 DEF Underway

(* What happens in the arrays of one type does not concern another. *)
LEMMA OthersReady ==
  ASSUME Assumptions, Apart, NEW f \in Fun, NEW g \in Fun, g # f, Ready(g),
         Arity(g) > 0 => ff_argtypes[g] \in Array,
         \A b \in Array : b \notin Mine(f) /\ arrays[b] # <<>> =>
           arrays'[b] = arrays[b],
         ff_rettype'[g] = ff_rettype[g], ff_argtypes'[g] = ff_argtypes[g]
  PROVE  Ready(g)'
<1>1. ASSUME Arity(g) > 0 PROVE arrays'[ff_argtypes[g]] = arrays[ff_argtypes[g]]
  <2>1. ff_argtypes[g] \in Mine(g) BY <1>1 DEF Mine
  <2>2. ff_argtypes[g] \notin Mine(f) BY <2>1 DEF Apart
  <2>3. Len(arrays[ff_argtypes[g]]) = Arity(g) + 1
    BY <2>1 DEF Apart, Partial
  <2>4. Len(<<>>) # Arity(g) + 1 BY SignatureFacts
  <2>5. arrays[ff_argtypes[g]] # <<>> BY <2>3, <2>4
  <2> QED BY <1>1, <2>2, <2>5
<1> QED BY <1>1 DEF Ready, Arity

LEMMA NeverEmpty ==
  ASSUME Assumptions, Apart, NEW f \in Fun, NEW a \in Mine(f)
  PROVE  arrays[a] # <<>>
<1>1. Len(arrays[a]) = Arity(f) + 1 BY DEF Apart, Partial
<1>2. Len(<<>>) # Arity(f) + 1 BY SignatureFacts
<1> QED BY <1>1, <1>2

(* While Python code can call functions, complete types are ready. *)
LEMMA ReadyForCalls ==
  ASSUME Assumptions, NInv, Idle \/ Creating, NEW f \in Fun, ff_cif[f]
  PROVE  Ready(f)
<1>1. AllKnown(f, Arity(f) + 1) /\ (Ready(f) \/ Writing(f))
  BY DEF NInv, Settled
<1>2. ASSUME Writing(f) PROVE FALSE
  <2>1. ~Idle /\ Top.fun = f /\ Wanted \notin known
    BY <1>2 DEF Writing, Creating
  <2>a. Top.arg \in Nat BY <2>1, LastFrame DEF NInv
  <2>b. Top.arg <= Arity(f) BY <2>1, TopUnderway DEF NInv
  <2>2. Top.arg \in Nat /\ Top.arg <= Arity(f) /\ Arity(f) \in Nat
    BY <2>a, <2>b, SignatureFacts
  <2>3. Top.arg \in 0..Arity(f) /\ Top.arg < Arity(f) + 1 BY <2>2
  <2> QED BY <1>1, <2>1, <2>3 DEF AllKnown, Wanted
<1> QED BY <1>1, <1>2

(* A set-up ends with its type complete. *)
LEMMA CompletedKeeps ==
  ASSUME Assumptions, NInv, ~Idle, NEW f, f = Top.fun,
         TypeOK', ~corrupt', Pop, Returns(f, TRUE), UNCHANGED ff_argtypes,
         ff_cif' = [ff_cif EXCEPT ![f] = TRUE],
         known \subseteq known', AllKnown(f, Arity(f) + 1)', Ready(f)',
         Arity(f) > 0 => ff_argtypes[f] \in Array,
         ff_rettype'[f] = Ret[f],
         \A g \in Fun : g # f => ff_rettype'[g] = ff_rettype[g],
         \A b \in Array : b \notin Mine(f) => arrays'[b] = arrays[b],
         \A b \in Mine(f) : Partial(f, 1, arrays'[b])
  PROVE  NInv'
<1>1. TypeOK /\ ~corrupt /\ Underway /\ Apart /\ Settled BY DEF NInv
<1> DEFINE n == Len(stack)
<1>2. /\ n \in Nat \ {0} /\ Top = stack[n] /\ f \in Fun
      /\ stack' \in Seq(Frame) /\ Len(stack') = n - 1
      /\ \A k \in 1..(n - 1) : stack'[k] = stack[k]
  BY <1>1, LastFrame DEF Pop
<1>3. \A k \in 1..(n - 1) : k \in 1..n /\ stack[k].fun \in Fun
                            /\ stack[k].arg \in Nat
  <2>1. \A k \in 1..n : stack[k] \in Frame BY <1>1 DEF TypeOK
  <2> HIDE DEF n
  <2>2. \A k \in 1..(n - 1) : k \in 1..n BY <1>2
  <2> QED BY <2>1, <2>2 DEF Frame
<1>4. \A g \in Fun : ff_cif'[g] <=> ff_cif[g] \/ g = f
  BY <1>1, <1>2 DEF TypeOK
<1>5. ASSUME NEW g \in Fun, g # f, Ready(g),
             Arity(g) > 0 => ff_argtypes[g] \in Array
      PROVE  Ready(g)'
  BY <1>1, <1>2, <1>5, OthersReady
<1>6. ASSUME NEW g \in Fun, g # f, ff_argtypes[g] \in Array
      PROVE  arrays'[ff_argtypes[g]] = arrays[ff_argtypes[g]]
  <2>1. ff_argtypes[g] \in Mine(g) BY <1>6 DEF Mine
  <2>2. ff_argtypes[g] \notin Mine(f) BY <1>1, <1>2, <1>6, <2>1 DEF Apart
  <2> QED BY <1>6, <2>2
<1>7. \A g, k : AllKnown(g, k) => AllKnown(g, k)'
  BY DEF AllKnown, Needed, Arity
<1>8. Underway'
  <2>1. SUFFICES ASSUME NEW k \in 1..(n - 1), NEW g, g = stack[k].fun,
                        NEW i, i = stack[k].arg
        PROVE  /\ i <= Arity(g) /\ AllKnown(g, i)'
               /\ i > 0 => /\ ff_rettype'[g] = Ret[g]
                           /\ stack[k].dest \in Array /\ ff_argtypes[g] \in Array
               /\ i > 0 /\ Uppermost(k)' =>
                    /\ \A j \in 1..(i - 1) :
                         arrays'[ff_argtypes[g]][j] = Args[g][j]
                    /\ stack[k].dest # ff_argtypes[g] => Ready(g)'
    BY <1>2 DEF Underway, Arity
  <2>2. /\ i <= Arity(g) /\ AllKnown(g, i)
        /\ i > 0 => /\ ff_rettype[g] = Ret[g]
                    /\ stack[k].dest \in Array /\ ff_argtypes[g] \in Array
    BY <1>1, <1>3, <2>1 DEF Underway
  <2>3. g \in Fun /\ i \in Nat /\ Arity(g) \in Nat BY <1>3, <2>1, SignatureFacts
  <2>4. i > 0 => ff_rettype'[g] = Ret[g] BY <2>2, <2>3
  <2>5. CASE g = f
    <3>1. ASSUME i > 0 PROVE Partial(f, Arity(f) + 1, arrays'[ff_argtypes[f]])
      <4>1. Arity(f) > 0 BY <2>2, <2>3, <2>5, <3>1
      <4>2. arrays'[ff_argtypes[f]] = Append(Args[f], NULL)
        BY <4>1 DEF Ready, Arity
      <4>3. arrays'[ff_argtypes[f]] \in Seq(Value) BY <4>1 DEF TypeOK, Value
      <4> QED BY <1>2, <4>2, <4>3, FullArray
    <3>2. ASSUME i > 0, NEW j \in 1..(i - 1)
          PROVE  arrays'[ff_argtypes[f]][j] = Args[f][j]
      <4>1. j \in 1..((Arity(f) + 1) - 1) BY <2>2, <2>3, <2>5, <3>2
      <4> QED BY <3>1, <3>2, <4>1 DEF Partial
    <3> QED BY <1>7, <2>2, <2>4, <2>5, <3>2
  <2>6. CASE g # f
    <3>1. Uppermost(k)' => Uppermost(k)
      <4>1. SUFFICES ASSUME Uppermost(k)', NEW j \in 1..n,
                            stack[j].fun = stack[k].fun
            PROVE  j <= k
        BY DEF Uppermost
      <4>2. j # n BY <1>2, <2>1, <2>6, <4>1
      <4>3. j \in 1..(n - 1)
        <5> HIDE DEF n
        <5> QED BY <1>2, <4>1, <4>2
      <4> QED BY <1>2, <4>1, <4>3 DEF Uppermost
    <3>2. i > 0 /\ Uppermost(k) =>
            /\ \A j \in 1..(i - 1) : arrays[ff_argtypes[g]][j] = Args[g][j]
            /\ stack[k].dest # ff_argtypes[g] => Ready(g)
      BY <1>1, <1>3, <2>1 DEF Underway
    <3>3. i > 0 => arrays'[ff_argtypes[g]] = arrays[ff_argtypes[g]]
      BY <1>6, <2>2, <2>3, <2>6
    <3>4. i > 0 /\ Ready(g) => Ready(g)' BY <1>5, <2>2, <2>3, <2>6
    <3> QED BY <1>7, <2>2, <2>4, <3>1, <3>2, <3>3, <3>4
  <2> QED BY <2>5, <2>6
<1>9. \A g : Mine(g)' \subseteq Mine(g) BY <1>2, <1>3 DEF Mine
<1>10. Apart'
  <2>1. \A g, h \in Fun : Mine(g)' \cap Mine(h)' # {} => g = h
    BY <1>1, <1>9 DEF Apart
  <2>2. ASSUME NEW g \in Fun, NEW b \in Mine(g)' PROVE Partial(g, 1, arrays[b])'
    <3>1. b \in Mine(g) /\ b \in Array BY <1>9, <2>2 DEF Mine
    <3>2. CASE g = f BY <3>1, <3>2 DEF Partial, Arity
    <3>3. CASE g # f
      <4>1. b \notin Mine(f) BY <1>1, <1>2, <3>1, <3>3 DEF Apart
      <4> QED BY <1>1, <3>1, <4>1 DEF Apart, Partial, Arity
    <3> QED BY <3>2, <3>3
  <2> QED BY <2>1, <2>2 DEF Apart
<1>11. Settled'
  <2>1. SUFFICES ASSUME NEW g \in Fun, ff_cif'[g]
        PROVE  /\ AllKnown(g, Arity(g) + 1)'
               /\ Arity(g) > 0 => ff_argtypes[g] \in Array
               /\ Ready(g)'
    BY DEF Settled, Arity
  <2>2. CASE g = f BY <2>2
  <2>3. CASE g # f
    <3>1. ff_cif[g] BY <1>4, <2>1, <2>3
    <3>2. ~Writing(g) BY <2>3 DEF Writing
    <3>3. /\ AllKnown(g, Arity(g) + 1) /\ Ready(g)
          /\ Arity(g) > 0 => ff_argtypes[g] \in Array
      BY <1>1, <3>1, <3>2 DEF Settled
    <3> QED BY <1>5, <1>7, <2>3, <3>3
  <2> QED BY <2>2, <2>3
<1>12. SetupContract' BY <1>2, <1>4 DEF SetupContract, Returns
<1> QED BY <1>8, <1>10, <1>11, <1>12 DEF NInv

LEMMA NInvInit == ASSUME Assumptions, Init PROVE NInv
<1>1. stack = <<>> /\ Len(stack) = 0 BY DEF Init
<1>2. TypeOK BY AInvInit DEF AInv
<1>3. Underway BY <1>1 DEF Underway
<1>4. \A f \in Fun : Mine(f) = {}
  <2>1. \A f \in Fun : ff_argtypes[f] \notin Array BY Distinct DEF Init
  <2> QED BY <1>1, <2>1 DEF Mine
<1>5. Apart BY <1>4 DEF Apart
<1> QED BY <1>2, <1>3, <1>5 DEF NInv, Settled, SetupContract, Init

(* A set-up starts inside another. *)
LEMMA EnterNested ==
  ASSUME Assumptions, NInv, NEW f \in Fun, Enter(f) PROVE NInv'
<1>1. TypeOK /\ ~corrupt /\ Underway /\ Apart /\ Settled BY DEF NInv
<1>2. UNCHANGED <<ff_cif, cifs, ff_rettype, ff_argtypes, arrays, refs, known,
                  corrupt>>
  BY DEF Enter
<1>3. \A g : Ready(g)' = Ready(g) BY <1>2 DEF Ready
<1>4. \A g, k : AllKnown(g, k)' = AllKnown(g, k)
  BY <1>2 DEF AllKnown, Needed, Arity
<1>5. \A g \in Fun : ff_cif[g] => Ready(g)
  BY ReadyForCalls DEF Enter
<1>6. Settled' BY <1>1, <1>2, <1>3, <1>4, <1>5 DEF Settled, Arity
<1>7. CASE ff_cif[f] \/ f \in NoRet
  <2>1. returned' = [fun |-> f, ok |-> ff_cif[f]] /\ UNCHANGED stack
    BY <1>7 DEF Enter, Returns
  <2>2. TypeOK' BY <1>1, <1>2, <2>1 DEF TypeOK
  <2>3. \A k : Uppermost(k)' = Uppermost(k) BY <2>1 DEF Uppermost
  <2>4. Underway' BY <1>1, <1>2, <1>3, <1>4, <2>1, <2>3 DEF Underway, Arity
  <2>5. Apart' BY <1>1, <1>2, <2>1 DEF Apart, Mine, Partial, Arity
  <2>6. SetupContract' BY <1>2, <1>3, <1>5, <2>1 DEF SetupContract
  <2> QED BY <1>1, <1>2, <1>6, <2>2, <2>4, <2>5, <2>6 DEF NInv
<1>8. CASE ~(ff_cif[f] \/ f \in NoRet)
  <2> DEFINE F == [fun |-> f, arg |-> 0, dest |-> NULL]
             n == Len(stack)
  <2>1. n < MaxDepth /\ stack' = Append(stack, F) /\ returned' = NULL
    BY <1>8 DEF Enter
  <2>2. F \in Frame /\ F.fun = f /\ F.arg = 0 /\ F.dest = NULL BY DEF Frame
  <2>3. stack \in Seq(Frame) /\ n \in Nat BY <1>1 DEF TypeOK
  <2> HIDE DEF F
  <2>4. /\ stack' \in Seq(Frame) /\ Len(stack') = n + 1 /\ stack'[n + 1] = F
        /\ \A k \in 1..n : stack'[k] = stack[k]
    BY <2>1, <2>2, <2>3, AppendProperties
  <2>5. Len(stack') <= MaxDepth BY <2>1, <2>3, <2>4, Distinct
  <2>6. TypeOK' BY <1>1, <1>2, <2>1, <2>4, <2>5 DEF TypeOK
  <2> HIDE DEF n
  <2>7. \A k \in 1..(n + 1) : k = n + 1 \/ k \in 1..n BY <2>3
  <2>8. \A k \in 1..n : k \in 1..(n + 1) BY <2>3
  <2>9. \A k \in 1..n : Uppermost(k)' => Uppermost(k)
    BY <2>4, <2>8 DEF Uppermost, n
  <2>10. Underway'
    <3>1. SUFFICES ASSUME NEW k \in 1..(n + 1), NEW g, g = stack'[k].fun,
                          NEW i, i = stack'[k].arg
          PROVE  /\ i <= Arity(g) /\ AllKnown(g, i)
                 /\ i > 0 => /\ ff_rettype[g] = Ret[g]
                             /\ stack'[k].dest \in Array /\ ff_argtypes[g] \in Array
                 /\ i > 0 /\ Uppermost(k)' =>
                      /\ \A j \in 1..(i - 1) :
                           arrays[ff_argtypes[g]][j] = Args[g][j]
                      /\ stack'[k].dest # ff_argtypes[g] => Ready(g)
      BY <1>2, <1>3, <1>4, <2>4 DEF Underway, Arity
    <3>2. CASE k = n + 1
      <4>1. g = f /\ i = 0 BY <2>2, <2>4, <3>1, <3>2
      <4>2. Arity(f) \in Nat BY SignatureFacts
      <4>3. AllKnown(f, 0) BY <4>2 DEF AllKnown
      <4> QED BY <4>1, <4>2, <4>3
    <3>3. CASE k \in 1..n
      <4>1. k \in 1..Len(stack) /\ stack'[k] = stack[k] BY <2>4, <3>3 DEF n
      <4> QED BY <1>1, <2>9, <3>1, <3>3, <4>1 DEF Underway
    <3> QED BY <2>7, <3>2, <3>3
  <2>11. \A g : Mine(g)' \subseteq Mine(g)
    <3>1. NULL \notin Array BY Distinct
    <3> QED BY <1>2, <2>2, <2>4, <2>7, <3>1 DEF Mine, n
  <2>12. Apart' BY <1>1, <1>2, <2>11 DEF Apart, Partial, Arity
  <2>13. SetupContract' BY <2>1 DEF SetupContract
  <2> QED BY <1>1, <1>2, <1>6, <2>6, <2>10, <2>12, <2>13 DEF NInv
<1> QED BY <1>7, <1>8

(* The running set-up is now of f, at entry i of array d. *)
Replaced(f, i, d) ==
  /\ Len(stack') = Len(stack)
  /\ stack'[Len(stack)] = [fun |-> f, arg |-> i, dest |-> d]
  /\ \A k \in 1..Len(stack) : k # Len(stack) => stack'[k] = stack[k]

LEMMA TopReplaced ==
  ASSUME TypeOK, ~Idle, NEW f \in Fun, NEW i \in Nat, NEW d \in Array,
         stack' = [stack EXCEPT ![Len(stack)] =
                     [fun |-> f, arg |-> i, dest |-> d]]
  PROVE  Replaced(f, i, d) /\ stack' \in Seq(Frame) /\ Len(stack') = Len(stack)
<1> DEFINE F == [fun |-> f, arg |-> i, dest |-> d]
           n == Len(stack)
<1>1. stack \in Seq(Frame) /\ n \in Nat \ {0} BY LastFrame DEF TypeOK
<1>2. F \in Frame BY DEF Frame
<1> HIDE DEF F
<1>3. stack' = [stack EXCEPT ![n] = F] BY DEF F
<1>4. n \in 1..n BY <1>1
<1>5. /\ stack' \in Seq(Frame) /\ Len(stack') = n /\ stack'[n] = F
      /\ \A k \in 1..n : k # n => stack'[k] = stack[k]
  BY <1>1, <1>2, <1>3, <1>4, Stored
<1> QED BY <1>5 DEF Replaced, F

(* The running set-up goes on with array d. *)
LEMMA GoesOnKeeps ==
  ASSUME Assumptions, NInv, ~Idle, NEW f, f = Top.fun,
         NEW i \in Nat \ {0}, i <= Arity(f), NEW d \in Array,
         TypeOK', ~corrupt', returned' = NULL, ff_cif' = ff_cif,
         Replaced(f, i, d),
         ff_argtypes'[f] = d, ff_rettype'[f] = Ret[f],
         \A g \in Fun : g # f => ff_argtypes'[g] = ff_argtypes[g]
                                 /\ ff_rettype'[g] = ff_rettype[g],
         known \subseteq known', AllKnown(f, i)',
         \A j \in 1..(i - 1) : arrays'[d][j] = Args[f][j],
         \A b \in Array : b \notin Mine(f) /\ arrays[b] # <<>> =>
           arrays'[b] = arrays[b],
         \A b \in Mine(f) \cup {d} : Partial(f, 1, arrays'[b]),
         \A g \in Fun : g # f => d \notin Mine(g)
  PROVE  NInv'
<1>1. TypeOK /\ ~corrupt /\ Underway /\ Apart /\ Settled BY DEF NInv
<1> DEFINE n == Len(stack)
           F == [fun |-> f, arg |-> i, dest |-> d]
<1>2. n \in Nat \ {0} /\ Top = stack[n] /\ f \in Fun /\ n \in 1..n
  BY <1>1, LastFrame
<1>3. F \in Frame /\ F.fun = f /\ F.arg = i /\ F.dest = d BY <1>2 DEF Frame
<1>4. /\ Len(stack') = n /\ stack'[n] = F
      /\ \A k \in 1..n : k # n => stack'[k] = stack[k]
  BY DEF Replaced
<1>5. \A k \in 1..n : stack[k] \in Frame BY <1>1 DEF TypeOK
<1> HIDE DEF F, n
<1>6. \A k \in 1..n : stack[k].fun \in Fun /\ stack[k].arg \in Nat
  BY <1>5 DEF Frame
<1>7. \A k \in 1..n : stack'[k].fun = stack[k].fun BY <1>2, <1>3, <1>4
<1>8. ASSUME NEW g \in Fun, g # f, Ready(g),
             Arity(g) > 0 => ff_argtypes[g] \in Array
      PROVE  Ready(g)'
  BY <1>1, <1>2, <1>8, OthersReady
<1>9. ASSUME NEW g \in Fun, g # f, ff_argtypes[g] \in Array
      PROVE  arrays'[ff_argtypes[g]] = arrays[ff_argtypes[g]]
  <2>1. ff_argtypes[g] \in Mine(g) BY <1>9 DEF Mine
  <2>2. ff_argtypes[g] \notin Mine(f) BY <1>1, <1>2, <1>9, <2>1 DEF Apart
  <2>3. arrays[ff_argtypes[g]] # <<>> BY <1>1, <2>1, NeverEmpty
  <2> QED BY <1>9, <2>2, <2>3
<1>10. \A g, k : AllKnown(g, k) => AllKnown(g, k)'
  BY DEF AllKnown, Needed, Arity
<1>11. Underway'
  <2>1. SUFFICES ASSUME NEW k \in 1..n, NEW g, g = stack'[k].fun,
                        NEW m, m = stack'[k].arg
        PROVE  /\ m <= Arity(g) /\ AllKnown(g, m)'
               /\ m > 0 => /\ ff_rettype'[g] = Ret[g]
                           /\ stack'[k].dest \in Array /\ ff_argtypes'[g] \in Array
               /\ m > 0 /\ Uppermost(k)' =>
                    /\ \A j \in 1..(m - 1) :
                         arrays'[ff_argtypes'[g]][j] = Args[g][j]
                    /\ stack'[k].dest # ff_argtypes'[g] => Ready(g)'
    BY <1>4 DEF Underway, Arity
  <2>2. CASE k = n
    <3>1. g = f /\ m = i /\ stack'[k].dest = d BY <1>3, <1>4, <2>1, <2>2
    <3> QED BY <3>1
  <2>3. CASE k # n
    <3>1. stack'[k] = stack[k] /\ g \in Fun /\ m \in Nat
      BY <1>4, <1>6, <2>1, <2>3
    <3>2. k \in 1..Len(stack) /\ g = stack[k].fun /\ m = stack[k].arg
      BY <2>1, <3>1 DEF n
    <3>3. /\ m <= Arity(g) /\ AllKnown(g, m)
          /\ m > 0 => /\ ff_rettype[g] = Ret[g]
                      /\ stack[k].dest \in Array /\ ff_argtypes[g] \in Array
          /\ m > 0 /\ Uppermost(k) =>
               /\ \A j \in 1..(m - 1) : arrays[ff_argtypes[g]][j] = Args[g][j]
               /\ stack[k].dest # ff_argtypes[g] => Ready(g)
      BY <1>1, <3>2 DEF Underway
    <3>4. CASE g = f
      <4>1. ~Uppermost(k)'
        <5>1. stack'[n].fun = stack'[k].fun BY <1>3, <1>4, <2>1, <3>4
        <5>2. ~(n <= k) BY <1>2, <2>1, <2>3
        <5>3. n \in 1..Len(stack') BY <1>2, <1>4
        <5> QED BY <5>1, <5>2, <5>3 DEF Uppermost
      <4> QED BY <1>10, <3>1, <3>3, <3>4, <4>1
    <3>5. CASE g # f
      <4>1. Uppermost(k)' => Uppermost(k)
        BY <1>4, <1>7, <2>1 DEF Uppermost, n
      <4>2. m > 0 => arrays'[ff_argtypes[g]] = arrays[ff_argtypes[g]]
        BY <1>9, <3>1, <3>3, <3>5
      <4>3. m > 0 /\ Ready(g) => Ready(g)' BY <1>8, <3>1, <3>3, <3>5
      <4> QED BY <1>10, <3>1, <3>3, <3>5, <4>1, <4>2, <4>3
    <3> QED BY <3>4, <3>5
  <2> QED BY <2>2, <2>3
<1>a. ASSUME NEW g \in Fun, NEW b \in Mine(g)'
      PROVE  (g = f /\ b = d) \/ b \in Mine(g)
  <2>1. b \in Array BY <1>a DEF Mine
  <2>2. CASE b = ff_argtypes'[g]
    <3>1. CASE g = f BY <2>2, <3>1
    <3>2. CASE g # f BY <2>1, <2>2, <3>2 DEF Mine
    <3> QED BY <3>1, <3>2
  <2>3. CASE b # ff_argtypes'[g]
    <3>1. PICK k \in 1..n : stack'[k].fun = g /\ stack'[k].dest = b
      BY <1>4, <1>a, <2>3 DEF Mine
    <3>2. CASE k = n BY <1>3, <1>4, <3>1, <3>2
    <3>3. CASE k # n
      <4>1. stack[k].fun = g /\ stack[k].dest = b /\ k \in 1..Len(stack)
        BY <1>4, <3>1, <3>3 DEF n
      <4> QED BY <2>1, <4>1 DEF Mine
    <3> QED BY <3>2, <3>3
  <2> QED BY <2>2, <2>3
<1>12. \A g \in Fun : g # f => Mine(g)' \subseteq Mine(g) BY <1>a
<1>13. Mine(f)' \subseteq Mine(f) \cup {d} BY <1>2, <1>a
<1>14. Apart'
  <2>1. ASSUME NEW g \in Fun, NEW h \in Fun, NEW b,
               b \in Mine(g)', b \in Mine(h)'
        PROVE  g = h
    BY <1>1, <1>2, <1>12, <1>13, <2>1 DEF Apart
  <2>2. ASSUME NEW g \in Fun, NEW b \in Mine(g)' PROVE Partial(g, 1, arrays[b])'
    <3>1. CASE g = f BY <1>13, <2>2, <3>1 DEF Partial, Arity
    <3>2. CASE g # f
      <4>1. b \in Mine(g) /\ b \in Array BY <1>12, <2>2, <3>2 DEF Mine
      <4>2. b \notin Mine(f) BY <1>1, <1>2, <3>2, <4>1 DEF Apart
      <4>3. arrays[b] # <<>> BY <1>1, <4>1, NeverEmpty
      <4>4. arrays'[b] = arrays[b] BY <4>1, <4>2, <4>3
      <4>5. Partial(g, 1, arrays[b]) BY <1>1, <4>1 DEF Apart
      <4> QED BY <4>4, <4>5 DEF Partial, Arity
    <3> QED BY <3>1, <3>2
  <2> QED BY <2>1, <2>2 DEF Apart
<1>15. Settled'
  <2>1. SUFFICES ASSUME NEW g \in Fun, ff_cif[g]
        PROVE  /\ AllKnown(g, Arity(g) + 1)'
               /\ Arity(g) > 0 => ff_argtypes'[g] \in Array
               /\ Ready(g)' \/ Writing(g)'
    BY DEF Settled, Arity
  <2>2. /\ AllKnown(g, Arity(g) + 1)
        /\ Arity(g) > 0 => ff_argtypes[g] \in Array
        /\ Ready(g) \/ Writing(g)
    BY <1>1, <2>1 DEF Settled
  <2>3. CASE g = f
    <3>1. stack' # <<>> BY <1>2, <1>4
    <3>2. Writing(f)' BY <1>3, <1>4, <3>1 DEF Writing, Idle, Top
    <3> QED BY <1>10, <2>2, <2>3, <3>2
  <2>4. CASE g # f
    <3>1. ~Writing(g) BY <2>4 DEF Writing
    <3> QED BY <1>8, <1>10, <2>2, <2>4, <3>1
  <2> QED BY <2>3, <2>4
<1>16. SetupContract' BY DEF SetupContract
<1> QED BY <1>11, <1>14, <1>15, <1>16 DEF NInv

(* The type of the result is found inside other set-ups. *)
LEMMA RetFoundNested ==
  ASSUME Assumptions, Completable, NInv, RetFound PROVE NInv'
<1>1. TypeOK /\ ~corrupt /\ Underway /\ Apart /\ Settled BY DEF NInv
<1>0. PICK f : f = Top.fun OBVIOUS
<1> DEFINE r == [refs EXCEPT ![Wanted] = @ + 1]
<1>2. ~Idle /\ Top.arg = 0 BY DEF RetFound
<1>3. f \in Fun /\ Arity(f) \in Nat /\ Ret[f] \in Type /\ Needed(f, 0) = Ret[f]
  BY <1>0, <1>1, <1>2, LastFrame, SignatureFacts
<1>4. Wanted = Ret[f] BY <1>0, <1>2, <1>3 DEF Wanted
<1>5. /\ ff_rettype' = [ff_rettype EXCEPT ![f] = Ret[f]]
      /\ known' = known \cup {Ret[f]} /\ Ret[f] \notin NoType
  BY <1>0, <1>4 DEF RetFound, Usable
<1>6. /\ ff_rettype' \in [Fun -> Type \cup {NULL}] /\ ff_rettype'[f] = Ret[f]
      /\ \A g \in Fun : g # f => ff_rettype'[g] = ff_rettype[g]
      /\ known \subseteq known' /\ known' \subseteq Type \ NoType
      /\ r \in [Type -> Nat]
  BY <1>1, <1>3, <1>4, <1>5 DEF TypeOK
<1>7. AllKnown(f, 1)'
  <2>1. \A i \in 0..Arity(f) : i < 1 => i = 0 BY <1>3
  <2> QED BY <1>3, <1>5, <2>1 DEF AllKnown, Needed, Arity
<1>8. CASE Arity(f) = 0
  <2>1. Finish(f, r, arrays) /\ UNCHANGED ff_argtypes BY <1>0, <1>8 DEF RetFound
  <2>2. f \notin NoCall BY DEF Completable
  <2>3. /\ Prepared(f, r, arrays) /\ Pop BY <2>1, <2>2 DEF Finish
  <2>4. /\ ff_cif' = [ff_cif EXCEPT ![f] = TRUE]
        /\ cifs' = [cifs EXCEPT ![f] = @ + 1]
        /\ refs' = r /\ arrays' = arrays /\ corrupt' = corrupt /\ Returns(f, TRUE)
    BY <2>3 DEF Prepared
  <2>5. TypeOK'
    <3>1. stack' \in Seq(Frame) /\ Len(stack') = Len(stack) - 1
          /\ Len(stack) \in Nat
      BY <1>1, <1>2, <2>3, LastFrame DEF Pop
    <3>2. Len(stack') <= MaxDepth BY <1>1, <3>1, Distinct DEF TypeOK
    <3>3. returned' \in [fun : Fun, ok : BOOLEAN] BY <1>3, <2>4 DEF Returns
    <3> HIDE DEF r
    <3> QED BY <1>1, <1>3, <1>6, <2>1, <2>4, <3>1, <3>2, <3>3 DEF TypeOK
  <2>6. Ready(f)' BY <1>6, <1>8 DEF Ready, Arity
  <2>7. AllKnown(f, Arity(f) + 1)'
    <3>1. Arity(f) + 1 = 1 BY <1>8
    <3> QED BY <1>7, <3>1 DEF AllKnown, Arity
  <2>8. \A b \in Mine(f) : Partial(f, 1, arrays'[b])
    BY <1>1, <1>3, <2>4 DEF Apart
  <2>9. ~corrupt' BY <1>1, <2>4
  <2>10. Arity(f) > 0 => ff_argtypes[f] \in Array BY <1>8
  <2>11. \A b \in Array : b \notin Mine(f) => arrays'[b] = arrays[b] BY <2>4
  <2>12. /\ Pop /\ Returns(f, TRUE) /\ UNCHANGED ff_argtypes
         /\ ff_cif' = [ff_cif EXCEPT ![f] = TRUE]
    BY <2>1, <2>3, <2>4
  <2> HIDE DEF r
  <2> QED BY <1>0, <1>2, <1>6, <2>5, <2>6, <2>7, <2>8, <2>9, <2>10, <2>11,
             <2>12, CompletedKeeps
<1>9. CASE Arity(f) > 0
  <2> DEFINE n == Arity(f)
  <2>1. PICK a \in Array :
          /\ arrays[a] = <<>>
          /\ arrays' = [arrays EXCEPT ![a] = Blank(n)]
          /\ ff_argtypes' = [ff_argtypes EXCEPT ![f] = a]
          /\ stack' = [stack EXCEPT ![Len(stack)] =
                         [fun |-> f, arg |-> 1, dest |-> a]]
          /\ refs' = r /\ returned' = NULL
          /\ UNCHANGED <<ff_cif, cifs, corrupt>>
    BY <1>0, <1>9 DEF RetFound
  <2>2. /\ Blank(n) \in Seq(Value) /\ Len(Blank(n)) = n + 1
        /\ Blank(n)[n + 1] = NULL
    <3>1. n + 1 \in Nat BY <1>3
    <3>2. \A i \in 1..(n + 1) : (IF i = n + 1 THEN NULL ELSE JUNK) \in Value
      BY DEF Value
    <3> QED BY <1>3, <3>1, <3>2 DEF Blank
  <2>3. TypeOK'
    <3>1. 1 \in Nat OBVIOUS
    <3>3. stack' \in Seq(Frame) /\ Len(stack') = Len(stack)
      BY <1>1, <1>2, <1>3, <2>1, <3>1, TopReplaced
    <3>4. arrays' \in [Array -> Seq(Type \cup {NULL, JUNK})]
      BY <1>1, <2>1, <2>2 DEF TypeOK, Value
    <3>5. ff_argtypes' \in [Fun -> Array \cup {JUNK}] BY <1>1, <2>1 DEF TypeOK
    <3> HIDE DEF r
    <3> QED BY <1>1, <1>6, <2>1, <3>3, <3>4, <3>5 DEF TypeOK
  <2>4. /\ ff_argtypes'[f] = a /\ arrays'[a] = Blank(n)
        /\ \A g \in Fun : g # f => ff_argtypes'[g] = ff_argtypes[g]
        /\ \A b \in Array : b # a => arrays'[b] = arrays[b]
    BY <1>1, <1>3, <2>1 DEF TypeOK
  <2>5. \A g \in Fun : a \notin Mine(g) BY <1>1, <2>1, NeverEmpty
  <2>6. ASSUME NEW b \in Mine(f) \cup {a} PROVE Partial(f, 1, arrays'[b])
    <3>1. CASE b = a BY <1>3, <2>2, <2>4, <3>1 DEF Partial
    <3>2. CASE b # a
      <4>1. b \in Mine(f) /\ b \in Array BY <2>6, <3>2 DEF Mine
      <4> QED BY <1>1, <1>3, <2>4, <3>2, <4>1 DEF Apart
    <3> QED BY <3>1, <3>2
  <2>8. \A b \in Array : b \notin Mine(f) /\ arrays[b] # <<>> =>
          arrays'[b] = arrays[b]
    BY <2>1, <2>4
  <2>9. ~corrupt' /\ 1 <= Arity(f) /\ 1 \in Nat \ {0}
    BY <1>1, <1>3, <1>9, <2>1
  <2>10. /\ returned' = NULL /\ ff_cif' = ff_cif
         /\ stack' = [stack EXCEPT ![Len(stack)] =
                        [fun |-> f, arg |-> 1, dest |-> a]]
    BY <2>1
  <2>11. /\ ff_argtypes'[f] = a /\ ff_rettype'[f] = Ret[f]
         /\ \A g \in Fun : g # f => ff_argtypes'[g] = ff_argtypes[g]
                                  /\ ff_rettype'[g] = ff_rettype[g]
    BY <1>6, <2>4
  <2>12. \A g \in Fun : g # f => a \notin Mine(g) BY <2>5
  <2>13. PICK i \in Nat \ {0} : i = 1 OBVIOUS
  <2>14. \A j \in 1..(i - 1) : arrays'[a][j] = Args[f][j] BY <2>13
  <2>15. i <= Arity(f) /\ Replaced(f, i, a)
    BY <1>1, <1>2, <1>3, <2>9, <2>10, <2>13, TopReplaced
  <2>16. AllKnown(f, i)' BY <1>7, <2>13
  <2>17. ~corrupt' /\ returned' = NULL /\ ff_cif' = ff_cif BY <2>9, <2>10
  <2>18. known \subseteq known' BY <1>6
  <2> HIDE DEF r, n
  <2> QED BY <1>0, <1>2, <2>3, <2>6, <2>8, <2>11, <2>12, <2>14, <2>15, <2>16,
             <2>17, <2>18, GoesOnKeeps
<1> QED BY <1>3, <1>8, <1>9

(* An argument is stored, in the array loaded before its type was looked   *)
(* up or in the one that has replaced it.                                  *)
Written(a, i) == [arrays EXCEPT ![a][i] = Wanted]

LEMMA WriteEffect ==
  ASSUME Assumptions, NInv, ~Idle, NEW f, f = Top.fun, NEW i, i = Top.arg,
         i > 0, NEW a \in {Top.dest, ff_argtypes[f]}, NEW s,
         s = Written(a, i)
  PROVE  /\ f \in Fun /\ Arity(f) \in Nat /\ i \in 1..Arity(f)
         /\ Wanted = Args[f][i] /\ ff_rettype[f] = Ret[f]
         /\ ff_argtypes[f] \in Array
         /\ arrays[a] # <<>> /\ arrays[ff_argtypes[f]] # <<>>
         /\ s \in [Array -> Seq(Value)]
         /\ \A b \in Array : b \notin Mine(f) => s[b] = arrays[b]
         /\ \A b \in Mine(f) : Partial(f, 1, s[b])
         /\ \A j \in 1..i : s[ff_argtypes[f]][j] = Args[f][j]
<1>1. TypeOK /\ Underway /\ Apart BY DEF NInv
<1> DEFINE c == ff_argtypes[f]
<1>2. f \in Fun /\ i \in Nat BY <1>1, LastFrame
<1>3. Arity(f) \in Nat /\ \A j \in 1..Arity(f) : Args[f][j] \in Type
  BY <1>2, SignatureFacts
<1>4. /\ i <= Arity(f) /\ ff_rettype[f] = Ret[f] /\ Top.dest \in Array /\ c \in Array
      /\ \A j \in 1..(i - 1) : arrays[c][j] = Args[f][j]
      /\ Top.dest # c => Ready(f)
  BY <1>1, TopUnderway
<1>5. i \in 1..Arity(f) BY <1>2, <1>3, <1>4
<1>6. Wanted = Args[f][i] /\ Wanted \in Value
  BY <1>2, <1>3, <1>5, SignatureFacts DEF Wanted, Value
<1>7. a \in Array BY <1>4
<1>8. a \in Mine(f) /\ c \in Mine(f)
  <2>1. Top = stack[Len(stack)] /\ Len(stack) \in 1..Len(stack)
    BY <1>1, LastFrame
  <2>2. \E k \in 1..Len(stack) : stack[k].fun = f /\ stack[k].dest = Top.dest
    BY <2>1
  <2> QED BY <1>4, <2>2 DEF Mine
<1>9. arrays[a] # <<>> /\ arrays[c] # <<>> BY <1>1, <1>2, <1>8, NeverEmpty
<1> DEFINE v == [arrays[a] EXCEPT ![i] = Wanted]
<1>10. /\ Partial(f, 1, arrays[a]) /\ arrays[a] \in Seq(Value)
       /\ Len(arrays[a]) = Arity(f) + 1 /\ arrays[a][Arity(f) + 1] = NULL
  BY <1>1, <1>2, <1>7, <1>8 DEF Apart, Partial, TypeOK, Value
<1>11. i \in 1..Len(arrays[a]) /\ Arity(f) + 1 \in 1..Len(arrays[a])
       /\ Arity(f) + 1 # i
  BY <1>2, <1>3, <1>5, <1>10
<1>12. /\ v \in Seq(Value) /\ Len(v) = Arity(f) + 1 /\ v[i] = Wanted
       /\ \A j \in 1..Len(arrays[a]) : j # i => v[j] = arrays[a][j]
  BY <1>6, <1>10, <1>11, Stored
<1>13. s = [arrays EXCEPT ![a] = v] BY DEF Written
<1> HIDE DEF v
<1>14. /\ s \in [Array -> Seq(Value)] /\ s[a] = v
       /\ \A b \in Array : b # a => s[b] = arrays[b]
  BY <1>1, <1>7, <1>12, <1>13 DEF TypeOK, Value
<1>15. \A b \in Array : b \notin Mine(f) => s[b] = arrays[b] BY <1>8, <1>14
<1>16. ASSUME NEW b \in Mine(f) PROVE Partial(f, 1, s[b])
  <2>1. CASE b = a
    <3>1. v[Arity(f) + 1] = NULL BY <1>10, <1>11, <1>12
    <3> QED BY <1>12, <1>14, <2>1, <3>1 DEF Partial
  <2>2. CASE b # a
    <3>1. b \in Array BY DEF Mine
    <3> QED BY <1>1, <1>2, <1>14, <2>2, <3>1 DEF Apart
  <2> QED BY <2>1, <2>2
<1>17. ASSUME NEW j \in 1..i PROVE s[c][j] = Args[f][j]
  <2>1. j \in 1..Arity(f) /\ (j = i \/ j \in 1..(i - 1))
        /\ j \in 1..Len(arrays[a])
    BY <1>2, <1>3, <1>5, <1>10
  <2>2. CASE c = Top.dest
    <3>1. a = c BY <2>2
    <3> QED BY <1>4, <1>6, <1>12, <1>14, <2>1, <3>1
  <2>3. CASE c # Top.dest
    <3>1. Ready(f) BY <1>4, <2>3
    <3>2. arrays[c] = Append(Args[f], NULL) BY <1>3, <1>5, <3>1 DEF Ready
    <3>3. arrays[c] \in Seq(Value) BY <1>1, <1>4 DEF TypeOK, Value
    <3>4. Partial(f, Arity(f) + 1, arrays[c]) BY <1>2, <3>2, <3>3, FullArray
    <3>5. j \in 1..((Arity(f) + 1) - 1) BY <1>3, <2>1
    <3>6. arrays[c][j] = Args[f][j] BY <3>4, <3>5 DEF Partial
    <3>7. CASE a = c BY <1>6, <1>12, <1>14, <2>1, <3>6, <3>7
    <3>8. CASE a # c BY <1>4, <1>14, <3>6, <3>8
    <3> QED BY <3>7, <3>8
  <2> QED BY <2>2, <2>3
<1> QED BY <1>2, <1>3, <1>4, <1>5, <1>6, <1>9, <1>14, <1>15, <1>16, <1>17

LEMMA ArgumentNested ==
  ASSUME Assumptions, Completable, NInv, Argument PROVE NInv'
<1>1. TypeOK /\ ~corrupt /\ Underway /\ Apart /\ Settled BY DEF NInv
<1>2. PICK f : f = Top.fun OBVIOUS
<1>3. PICK i : i = Top.arg OBVIOUS
<1> DEFINE r == IF Wanted \in NoType THEN refs ELSE [refs EXCEPT ![Wanted] = @ + 1]
<1>4. /\ ~Idle /\ i > 0 /\ UNCHANGED <<ff_rettype, ff_argtypes>>
      /\ known' = known \cup ({Wanted} \ NoType)
  BY <1>3 DEF Argument
<1>5. PICK a \in {Top.dest, ff_argtypes[f]} :
        IF <<>> \in {arrays[a], arrays[ff_argtypes[f]]}
          THEN /\ corrupt' = TRUE /\ returned' = NULL
               /\ UNCHANGED <<ff_cif, cifs, refs, arrays, stack>>
          ELSE \/ /\ Usable(Wanted)
                  /\ LET s == [arrays EXCEPT ![a][i] = Wanted]
                     IN  IF i = Arity(f) THEN Finish(f, r, s) ELSE Advance(f, r, s)
               \/ /\ ~Usable(Wanted)
                  /\ Undone(f, r, [arrays EXCEPT ![ff_argtypes[f]] =
                                     EndedBehind(@, i, Wanted)])
                  /\ Pop /\ Returns(f, FALSE) /\ UNCHANGED <<ff_cif, cifs>>
  BY <1>2, <1>3 DEF Argument
<1>6. PICK s : s = Written(a, i) OBVIOUS
<1>7. /\ f \in Fun /\ Arity(f) \in Nat /\ i \in 1..Arity(f)
      /\ Wanted = Args[f][i] /\ ff_rettype[f] = Ret[f]
      /\ ff_argtypes[f] \in Array
      /\ arrays[a] # <<>> /\ arrays[ff_argtypes[f]] # <<>>
      /\ s \in [Array -> Seq(Value)]
      /\ \A b \in Array : b \notin Mine(f) => s[b] = arrays[b]
      /\ \A b \in Mine(f) : Partial(f, 1, s[b])
      /\ \A j \in 1..i : s[ff_argtypes[f]][j] = Args[f][j]
  BY <1>2, <1>3, <1>4, <1>6, WriteEffect
<1>8. Wanted = Needed(f, i) /\ Wanted \in Type /\ Usable(Wanted)
  <2>1. Wanted = Needed(f, i) BY <1>2, <1>3 DEF Wanted
  <2>2. i \in 0..Arity(f) BY <1>7
  <2> QED BY <1>7, <2>1, <2>2, SignatureFacts DEF Completable
<1>9. Wanted \notin NoType /\ known' = known \cup {Wanted}
  BY <1>4, <1>8 DEF Usable
<1>10. known \subseteq known' /\ known' \subseteq Type \ NoType
       /\ r \in [Type -> Nat]
  BY <1>1, <1>8, <1>9 DEF TypeOK
<1>11. IF i = Arity(f) THEN Finish(f, r, s) ELSE Advance(f, r, s)
  BY <1>5, <1>6, <1>7, <1>8 DEF Written
<1>12. AllKnown(f, i + 1)'
  <2>1. AllKnown(f, i) BY <1>1, <1>2, <1>3, <1>4, TopUnderway
  <2>2. i \in Nat BY <1>7
  <2>3. \A j \in 0..Arity(f) : j < i + 1 => j < i \/ j = i BY <2>2
  <2> QED BY <1>8, <1>9, <2>1, <2>3 DEF AllKnown, Needed, Arity
<1>13. i \in Nat /\ i + 1 \in Nat \ {0} BY <1>7
<1> HIDE DEF r
<1>14. CASE i = Arity(f)
  <2>1. Prepared(f, r, s) /\ Pop
    BY <1>11, <1>14 DEF Finish, Completable
  <2>2. /\ ff_cif' = [ff_cif EXCEPT ![f] = TRUE]
        /\ cifs' = [cifs EXCEPT ![f] = @ + 1]
        /\ refs' = r /\ arrays' = s /\ corrupt' = corrupt /\ Returns(f, TRUE)
    BY <2>1 DEF Prepared
  <2>3. TypeOK'
    <3>1. stack' \in Seq(Frame) /\ Len(stack') = Len(stack) - 1
          /\ Len(stack) \in Nat
      BY <1>1, <1>4, <2>1, LastFrame DEF Pop
    <3>2. Len(stack') <= MaxDepth BY <1>1, <3>1, Distinct DEF TypeOK
    <3>3. returned' \in [fun : Fun, ok : BOOLEAN] BY <1>7, <2>2 DEF Returns
    <3>4. arrays' \in [Array -> Seq(Type \cup {NULL, JUNK})]
      BY <1>7, <2>2 DEF Value
    <3> QED BY <1>1, <1>4, <1>7, <1>10, <2>2, <3>1, <3>2, <3>3, <3>4
         DEF TypeOK
  <2>4. Ready(f)'
    <3>1. ff_argtypes[f] \in Mine(f) BY <1>7 DEF Mine
    <3>2. /\ Len(s[ff_argtypes[f]]) = Arity(f) + 1
          /\ s[ff_argtypes[f]][Arity(f) + 1] = NULL
      BY <1>7, <3>1 DEF Partial
    <3>3. Partial(f, Arity(f) + 1, s[ff_argtypes[f]])
      BY <1>7, <1>14, <3>2, PartialArray
    <3>4. s[ff_argtypes[f]] = Append(Args[f], NULL)
      BY <1>7, <3>3, FullArray
    <3> QED BY <1>4, <1>7, <2>2, <3>4 DEF Ready
  <2>5. AllKnown(f, Arity(f) + 1)' BY <1>12, <1>14 DEF Arity
  <2>6. ~corrupt' BY <1>1, <2>2
  <2>7. /\ \A b \in Array : b \notin Mine(f) => arrays'[b] = arrays[b]
        /\ \A b \in Mine(f) : Partial(f, 1, arrays'[b])
    BY <1>7, <2>2
  <2>8. /\ ff_rettype'[f] = Ret[f] /\ UNCHANGED ff_argtypes
        /\ \A g \in Fun : g # f => ff_rettype'[g] = ff_rettype[g]
    BY <1>4, <1>7
  <2>9. /\ Pop /\ Returns(f, TRUE) /\ ff_cif' = [ff_cif EXCEPT ![f] = TRUE]
        /\ known \subseteq known' /\ (Arity(f) > 0 => ff_argtypes[f] \in Array)
    BY <1>7, <1>10, <2>1, <2>2
  <2> QED BY <1>2, <1>4, <2>3, <2>4, <2>5, <2>6, <2>7, <2>8, <2>9, CompletedKeeps
<1>15. CASE i # Arity(f)
  <2>1. PICK d \in Array : d = ff_argtypes[f] BY <1>7
  <2>2. /\ stack' = [stack EXCEPT ![Len(stack)] =
                       [fun |-> f, arg |-> i + 1, dest |-> d]]
        /\ refs' = r /\ arrays' = s /\ returned' = NULL
        /\ UNCHANGED <<ff_cif, cifs, corrupt>>
    BY <1>3, <1>11, <1>15, <2>1 DEF Advance
  <2>3. /\ Replaced(f, i + 1, d) /\ stack' \in Seq(Frame)
        /\ Len(stack') = Len(stack)
    BY <1>1, <1>4, <1>7, <1>13, <2>2, TopReplaced
  <2>4. TypeOK'
    <3>1. arrays' \in [Array -> Seq(Type \cup {NULL, JUNK})]
      BY <1>7, <2>2 DEF Value
    <3> QED BY <1>1, <1>4, <1>10, <2>2, <2>3, <3>1 DEF TypeOK
  <2>5. d \in Mine(f) BY <2>1 DEF Mine
  <2>6. \A g \in Fun : g # f => d \notin Mine(g)
    BY <1>1, <1>7, <2>5 DEF Apart
  <2>7. \A b \in Mine(f) \cup {d} : Partial(f, 1, arrays'[b])
    BY <1>7, <2>2, <2>5
  <2>8. PICK k \in Nat \ {0} : k = i + 1 BY <1>13
  <2>9. \A j \in 1..(k - 1) : arrays'[d][j] = Args[f][j]
    <3>1. 1..(k - 1) = 1..i BY <1>13, <2>8
    <3> QED BY <1>7, <2>1, <2>2, <3>1
  <2>10. k <= Arity(f) /\ Replaced(f, k, d) /\ AllKnown(f, k)'
    BY <1>7, <1>12, <1>15, <2>3, <2>8
  <2>11. /\ ff_argtypes'[f] = d /\ ff_rettype'[f] = Ret[f]
         /\ \A g \in Fun : g # f => ff_argtypes'[g] = ff_argtypes[g]
                                  /\ ff_rettype'[g] = ff_rettype[g]
    BY <1>4, <1>7, <2>1
  <2>12. \A b \in Array : b \notin Mine(f) /\ arrays[b] # <<>> =>
           arrays'[b] = arrays[b]
    BY <1>7, <2>2
  <2>13. ~corrupt' /\ returned' = NULL /\ ff_cif' = ff_cif BY <1>1, <2>2
  <2> QED BY <1>2, <1>4, <1>10, <2>4, <2>6, <2>7, <2>9, <2>10, <2>11, <2>12,
             <2>13, GoesOnKeeps
<1> QED BY <1>14, <1>15

LEMMA NInvNext ==
  ASSUME Assumptions, Completable, NInv, [Next]_vars PROVE NInv'
<1>1. CASE UNCHANGED vars
  <2>1. TypeOK' BY <1>1 DEF NInv, TypeOK, vars
  <2>2. \A g : /\ Writing(g)' = Writing(g) /\ Ready(g)' = Ready(g)
               /\ Mine(g)' = Mine(g) /\ Uppermost(g)' = Uppermost(g)
    BY <1>1 DEF vars, Writing, Ready, Mine, Uppermost, Idle, Top
  <2>3. \A g, k : AllKnown(g, k)' = AllKnown(g, k)
    BY <1>1 DEF vars, AllKnown, Needed, Arity
  <2>4. Underway' BY <1>1, <2>2, <2>3 DEF NInv, vars, Underway, Arity
  <2>5. Apart' BY <1>1, <2>2 DEF NInv, vars, Apart, Partial, Arity
  <2>6. Settled' BY <1>1, <2>2, <2>3 DEF NInv, vars, Settled, Arity
  <2>7. SetupContract' BY <1>1, <2>2 DEF NInv, vars, SetupContract
  <2> QED BY <1>1, <2>1, <2>4, <2>5, <2>6, <2>7 DEF NInv, vars
<1>2. CASE \E f \in Fun : Enter(f) BY <1>2, EnterNested
<1>3. CASE RetFails
  <2>1. ~Idle /\ Top.arg = 0 /\ ~Usable(Wanted) BY <1>3 DEF RetFails
  <2>2. Top.fun \in Fun BY <2>1, LastFrame DEF NInv
  <2>3. 0 \in 0..Arity(Top.fun) BY <2>2, SignatureFacts
  <2>4. Usable(Needed(Top.fun, 0)) BY <2>2, <2>3 DEF Completable
  <2> QED BY <2>1, <2>4 DEF Wanted
<1>4. CASE RetFound BY <1>4, RetFoundNested
<1>5. CASE Argument BY <1>5, ArgumentNested
<1> QED BY <1>1, <1>2, <1>3, <1>4, <1>5 DEF Next

LEMMA NestedInvariant ==
  ASSUME Assumptions, Completable PROVE Spec => []NInv
<1>1. Init => NInv BY NInvInit
<1>2. NInv /\ [Next]_vars => NInv' BY NInvNext
<1> QED BY <1>1, <1>2, PTL DEF Spec

(* A set-up that returns success has left everything a call reads in       *)
(* place (funproxytype_setup), if finalisers call no functions or no       *)
(* set-up can fail: then also for set-ups inside set-ups, of any depth.    *)
THEOREM SetupKeepsContract ==
  ASSUME Assumptions, MaxDepth = 1 \/ Completable PROVE Spec => []SetupContract
<1>1. CASE MaxDepth = 1
  <2>1. AInv => SetupContract BY DEF AInv
  <2> QED BY <1>1, <2>1, AloneInvariant, PTL
<1>2. CASE Completable
  <2>1. NInv => SetupContract BY DEF NInv
  <2> QED BY <1>2, <2>1, NestedInvariant, PTL
<1> QED BY <1>1, <1>2

(* The array of a failed set-up is not followed after it was freed, under  *)
(* the same conditions (function_proxy.c:199).                             *)
THEOREM ArrayNeverStale ==
  ASSUME Assumptions, MaxDepth = 1 \/ Completable PROVE Spec => []NoStaleArray
<1>1. CASE MaxDepth = 1
  <2>1. AInv => NoStaleArray BY DEF AInv, NoStaleArray
  <2> QED BY <1>1, <2>1, AloneInvariant, PTL
<1>2. CASE Completable
  <2>1. NInv => NoStaleArray BY DEF NInv, NoStaleArray
  <2> QED BY <1>2, <2>1, NestedInvariant, PTL
<1> QED BY <1>1, <1>2
=============================================================================
