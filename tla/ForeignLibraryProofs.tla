------------------------ MODULE ForeignLibraryProofs ------------------------
(***************************************************************************)
(* Proofs about ForeignLibrary.  First the creation of types, for every    *)
(* set of types and every program.                                         *)
(*                                                                         *)
(* What makes the recursion right is an account of unfinished types: each  *)
(* of them has a call in progress that will finish it.  The invariant says *)
(* which call that is; when no call is in progress nothing is unfinished.  *)
(*                                                                         *)
(* The order in which types are readied matters to structs, which inherit  *)
(* from their first member: a struct can be readied before its loop has    *)
(* found its base only by a call its first member led to.                  *)
(*                                                                         *)
(* Then the import, of any library.  Of a type that recursively_add_useful *)
(* has returned for one can say that following the types it is built from  *)
(* never leads past a struct or base type that is not in the module        *)
(* (Covered).  The invariant says that every call but the last waits for   *)
(* just one such type (StackInv), so the type of every symbol is covered   *)
(* or waited for (SymbolInv); and so are the members of a struct in the    *)
(* module that got there under its own name (StructInv).                   *)
(***************************************************************************)
EXTENDS ForeignLibrary, SequenceTheorems, TLAPS

Entry(t, f) == [type |-> t, function |-> f]

(* A call of f for t is in progress. *)
On(t, f) == \E k \in 1..Len(stack) : stack[k] = Entry(t, f)

Found(t, i) == IF Supported(related[t][i]) THEN related[t][i] ELSE NULL

(* The members the loop has passed have their final value, no other has. *)
Passed(t) ==
  \A i \in Members(t) :
    member_type[t][i] = IF i < next_member[t] THEN Found(t, i) ELSE NULL

(* A type is unfinished only while a call for it is in progress. *)
Pending(t) ==
  t \in typdict =>
    /\ next_member[t] \in Members(t) => On(t, "InitType")
    /\ HasProxy(t) /\ ~Ready(t) => On(t, "InitType") \/ On(t, "PyType_Ready")

(* A pointer type is readied after its loop only, and then has its base. *)
PointerBase(t) ==
  Kind[t] = "address" =>
    /\ On(t, "PyType_Ready") => next_member[t] \notin Members(t)
    /\ next_member[t] \notin Members(t) /\ Composite(related[t][1])
         => tp_base[t] = related[t][1]

(* Only composite types are bases. *)
BaseComposite(t) == tp_base[t] # NULL => Composite(tp_base[t])

IInv ==
  /\ TypeOK
  /\ related \in Libraries
  /\ \A t \in Type : Passed(t) /\ Pending(t) /\ PointerBase(t) /\ BaseComposite(t)
  /\ PointerInherits

-----------------------------------------------------------------------------
(* The stack of calls.                                                     *)

LEMMA AllButLast ==
  ASSUME NEW S, NEW s \in Seq(S), Len(s) > 0
  PROVE  LET r == SubSeq(s, 1, Len(s) - 1)
         IN  /\ r \in Seq(S) /\ Len(r) = Len(s) - 1
             /\ \A k \in 1..Len(s) - 1 : r[k] = s[k]
<1>1. /\ Len(s) - 1 \in Int /\ 1 \in Int /\ Len(s) \in Nat
      /\ \A i \in 1..Len(s) - 1 : s[i] \in S
  OBVIOUS
<1> DEFINE n == Len(s) - 1
           r == SubSeq(s, 1, n)
<1> HIDE DEF n
<1>2. /\ r \in Seq(S)
      /\ Len(r) = IF 1 <= n THEN n - 1 + 1 ELSE 0
      /\ \A i \in 1..n - 1 + 1 : r[i] = s[1 + i - 1]
  <2>1. n \in Int /\ \A i \in 1..n : s[i] \in S BY <1>1 DEF n
  <2> QED BY <2>1, SubSeqProperties
<1> HIDE DEF r
<1>3. n \in Nat BY <1>1 DEF n
<1>4. Len(r) = n /\ \A k \in 1..n : r[k] = s[k] BY <1>2, <1>3
<1> QED BY <1>2, <1>4 DEF n, r

LEMMA OnPush ==
  ASSUME stack \in Seq(Call), NEW u \in Type, NEW f \in {"InitType", "PyType_Ready"},
         Push(u, f)
  PROVE  /\ stack' \in Seq(Call)
         /\ \A t, g : On(t, g)' <=> On(t, g) \/ (t = u /\ g = f)
<1> DEFINE e == Entry(u, f)
<1>1. stack' = Append(stack, e) /\ e \in Call
  BY DEF Push, Entry, Call
<1>2. /\ stack' \in Seq(Call) /\ Len(stack') = Len(stack) + 1
      /\ \A k \in 1..Len(stack) : stack'[k] = stack[k]
      /\ stack'[Len(stack) + 1] = e
  BY <1>1
<1>3. Len(stack) \in Nat OBVIOUS
<1> HIDE DEF e
<1>4. ASSUME NEW t, NEW g
      PROVE  On(t, g)' <=> On(t, g) \/ Entry(t, g) = e
  <2>1. ASSUME On(t, g)' PROVE On(t, g) \/ Entry(t, g) = e
    <3>1. PICK k \in 1..Len(stack') : stack'[k] = Entry(t, g)
      BY <2>1 DEF On, Entry
    <3> QED BY <3>1, <1>2, <1>3 DEF On
  <2>2. ASSUME On(t, g) PROVE On(t, g)'
    <3>1. PICK k \in 1..Len(stack) : stack[k] = Entry(t, g)
      BY <2>2 DEF On
    <3>2. k \in 1..Len(stack') /\ stack'[k] = Entry(t, g)
      BY <3>1, <1>2, <1>3
    <3> QED BY <3>2 DEF On, Entry
  <2>3. ASSUME Entry(t, g) = e PROVE On(t, g)'
    <3>1. Len(stack') \in 1..Len(stack') /\ stack'[Len(stack')] = Entry(t, g)
      BY <2>3, <1>2, <1>3
    <3> QED BY <3>1 DEF On, Entry
  <2> QED BY <2>1, <2>2, <2>3
<1>5. \A t, g : Entry(t, g) = e <=> t = u /\ g = f
  BY DEF Entry, e
<1> QED BY <1>2, <1>4, <1>5

LEMMA OnPop ==
  ASSUME stack \in Seq(Call), NEW u, NEW f, Running(u, f), Pop
  PROVE  /\ stack' \in Seq(Call)
         /\ \A t, g : On(t, g)' => On(t, g)
         /\ \A t, g : On(t, g) => On(t, g)' \/ (t = u /\ g = f)
<1>0. Len(stack) \in Nat \ {0} /\ stack[Len(stack)] = Entry(u, f)
  BY DEF Running, Idle, Top, Entry
<1>1. /\ Len(stack) \in Nat \ {0} /\ stack[Len(stack)] = Entry(u, f)
      /\ stack' \in Seq(Call) /\ Len(stack') = Len(stack) - 1
      /\ \A k \in 1..Len(stack) - 1 : stack'[k] = stack[k]
  <2>1. stack' = SubSeq(stack, 1, Len(stack) - 1) BY DEF Pop
  <2> QED BY <1>0, <2>1, AllButLast
<1>2. ASSUME NEW t, NEW g, On(t, g)' PROVE On(t, g)
  <2>1. PICK k \in 1..Len(stack') : stack'[k] = Entry(t, g)
    BY <1>2 DEF On, Entry
  <2> QED BY <2>1, <1>1 DEF On
<1>3. ASSUME NEW t, NEW g, On(t, g) PROVE On(t, g)' \/ (t = u /\ g = f)
  <2>1. PICK k \in 1..Len(stack) : stack[k] = Entry(t, g)
    BY <1>3 DEF On
  <2>2. CASE k = Len(stack)
    BY <2>1, <2>2, <1>1 DEF Entry
  <2>3. CASE k # Len(stack)
    <3>1. k \in 1..Len(stack') /\ stack'[k] = Entry(t, g)
      BY <2>1, <2>3, <1>1
    <3> QED BY <3>1 DEF On, Entry
  <2> QED BY <2>2, <2>3
<1> QED BY <1>1, <1>2, <1>3

LEMMA OnReplace ==
  ASSUME stack \in Seq(Call), NEW u \in Type, Running(u, "InitType"),
         stack' = [stack EXCEPT ![Len(stack)] = ReadyCall(u)]
  PROVE  /\ stack' \in Seq(Call)
         /\ On(u, "PyType_Ready")'
         /\ \A t, g : On(t, g)' => On(t, g) \/ (t = u /\ g = "PyType_Ready")
         /\ \A t, g : On(t, g) => On(t, g)' \/ (t = u /\ g = "InitType")
<1>1. /\ Len(stack) \in Nat \ {0} /\ stack[Len(stack)] = Entry(u, "InitType")
  BY DEF Running, Idle, Top, Entry
<1>2. stack' = [stack EXCEPT ![Len(stack)] = Entry(u, "PyType_Ready")]
  BY DEF Entry, ReadyCall
<1>3. Entry(u, "PyType_Ready") \in Call BY DEF Entry, Call
<1>4. /\ stack' \in Seq(Call) /\ Len(stack') = Len(stack)
      /\ \A k \in 1..Len(stack) : k # Len(stack) => stack'[k] = stack[k]
      /\ stack'[Len(stack)] = Entry(u, "PyType_Ready")
  BY <1>1, <1>2, <1>3
<1>5. On(u, "PyType_Ready")'
  <2>1. Len(stack) \in 1..Len(stack') /\ stack'[Len(stack)] = Entry(u, "PyType_Ready")
    <3>1. Len(stack) \in 1..Len(stack) BY <1>1
    <3> QED BY <3>1, <1>4, Zenon
  <2> QED BY <2>1 DEF On, Entry
<1>6. ASSUME NEW t, NEW g, On(t, g)'
      PROVE  On(t, g) \/ (t = u /\ g = "PyType_Ready")
  <2>1. PICK k \in 1..Len(stack') : stack'[k] = Entry(t, g)
    BY <1>6 DEF On, Entry
  <2>2. CASE k = Len(stack)
    BY <2>1, <2>2, <1>4 DEF Entry
  <2>3. CASE k # Len(stack)
    BY <2>1, <2>3, <1>4 DEF On
  <2> QED BY <2>2, <2>3
<1>7. ASSUME NEW t, NEW g, On(t, g)
      PROVE  On(t, g)' \/ (t = u /\ g = "InitType")
  <2>1. PICK k \in 1..Len(stack) : stack[k] = Entry(t, g)
    BY <1>7 DEF On
  <2>2. CASE k = Len(stack)
    BY <2>1, <2>2, <1>1 DEF Entry
  <2>3. CASE k # Len(stack)
    <3>1. k \in 1..Len(stack') /\ stack'[k] = Entry(t, g)
      BY <2>1, <2>3, <1>4
    <3> QED BY <3>1 DEF On, Entry
  <2> QED BY <2>2, <2>3
<1> QED BY <1>4, <1>5, <1>6, <1>7

-----------------------------------------------------------------------------
(* The invariant.                                                          *)

LEMMA LibraryFacts ==
  ASSUME IInv, NEW t \in Type
  PROVE  /\ related[t] \in Seq(Type) /\ Len(related[t]) \in Nat
         /\ \A i \in Members(t) : related[t][i] \in Type
         /\ Kind[t] = "address" => Members(t) = {1}
         /\ next_member[t] \in Nat \ {0}
<1>1. related[t] \in Seq(Type) /\ next_member[t] \in Nat \ {0}
  BY DEF IInv, TypeOK
<1>2. Kind[t] = "address" => Len(related[t]) = 1
  BY LibraryAssumption DEF IInv
<1>3. Len(related[t]) \in Nat /\ \A i \in 1..Len(related[t]) : related[t][i] \in Type
  BY <1>1
<1>4. Kind[t] = "address" => 1..Len(related[t]) = {1}
  <2>1. 1..1 = {1} OBVIOUS
  <2> QED BY <1>2, <2>1, Zenon
<1>5. Members(t) = 1..Len(related[t]) BY DEF Members
<1> QED BY <1>1, <1>3, <1>4, <1>5

LEMMA InvInit == Init => IInv
<1> SUFFICES ASSUME Init PROVE IInv
  OBVIOUS
<1> USE NullAssumption
<1>0. related \in [Type -> Seq(Type)] /\ unions \subseteq Type
  BY LibraryAssumption, UnionAssumption DEF Init
<1>1. TypeOK
  <2>1. ASSUME NEW t \in Type
        PROVE  /\ [i \in Members(t) |-> NULL] \in Seq(Type \cup {NULL})
               /\ Len([i \in Members(t) |-> NULL]) = Len(related[t])
               /\ 1 <= Len(related[t]) + 1
    <3>1. Len(related[t]) \in Nat BY <1>0
    <3> QED BY <3>1 DEF Members
  <2> QED BY <1>0, <2>1 DEF Init, TypeOK
<1>2. ASSUME NEW t \in Type
      PROVE  Passed(t) /\ Pending(t) /\ PointerBase(t) /\ BaseComposite(t)
  <2>1. \A f : ~On(t, f) BY DEF Init, On
  <2>2. Passed(t) BY DEF Init, Passed, Members
  <2>3. Pending(t) /\ BaseComposite(t) BY DEF Init, Pending, BaseComposite
  <2>4. Kind[t] = "address" => 1 \in Members(t)
    <3>1. Kind[t] = "address" => Len(related[t]) = 1
      BY LibraryAssumption DEF Init
    <3> QED BY <3>1 DEF Members
  <2> QED BY <2>1, <2>2, <2>3, <2>4 DEF Init, PointerBase
<1>3. PointerInherits
  BY DEF Init, PointerInherits, Ready
<1> QED BY <1>1, <1>2, <1>3 DEF IInv, Init

(* A new type gets a call of InitType. *)
LEMMA InvCreate == ASSUME IInv, NEW u \in Type, Create(u) PROVE IInv'
<1> USE NullAssumption
<1>0. /\ TypeOK /\ related \in Libraries
      /\ \A t \in Type : Passed(t) /\ Pending(t) /\ PointerBase(t) /\ BaseComposite(t)
      /\ PointerInherits
  BY DEF IInv
<1>1. /\ Supported(u) /\ typdict' = typdict \cup {u}
      /\ UNCHANGED <<related, unions, member_type, next_member, tp_base, tp_mro>>
  BY DEF Create, program
<1>2. /\ stack' \in Seq(Call)
      /\ \A t, g : On(t, g)' <=> On(t, g) \/ (t = u /\ g = "InitType")
  BY <1>0, OnPush DEF Create, TypeOK
<1>3. TypeOK' BY <1>0, <1>1, <1>2 DEF TypeOK, Supported
<1>4. ASSUME NEW t \in Type
      PROVE  (Passed(t) /\ Pending(t) /\ PointerBase(t) /\ BaseComposite(t))'
  <2>1. Passed(t)' /\ BaseComposite(t)'
    BY <1>0, <1>1 DEF Passed, BaseComposite, Found, Members, Supported
  <2>2. Pending(t)' BY <1>0, <1>1, <1>2 DEF Pending, Members, Ready
  <2>3. PointerBase(t)' BY <1>0, <1>1, <1>2 DEF PointerBase, Members
  <2> QED BY <2>1, <2>2, <2>3
<1>5. PointerInherits' BY <1>0, <1>1 DEF PointerInherits, Ready
<1> QED BY <1>0, <1>1, <1>3, <1>4, <1>5 DEF IInv

(* The loop of InitType passes a member, which may have become the base. *)
LEMMA InvPass ==
  ASSUME IInv, NEW u \in Type, ResolveMember(u) \/ SkipMember(u)
  PROVE  IInv'
<1> USE NullAssumption
<1> DEFINE i == next_member[u]
           m == related[u][i]
<1>0. /\ TypeOK /\ related \in Libraries
      /\ \A t \in Type : Passed(t) /\ Pending(t) /\ PointerBase(t) /\ BaseComposite(t)
      /\ PointerInherits
  BY DEF IInv
<1>1. /\ i \in Members(u) /\ i \in Nat \ {0} /\ m \in Type
      /\ next_member' = [next_member EXCEPT ![u] = i + 1]
      /\ UNCHANGED <<related, unions, typdict, tp_mro, stack>>
  BY LibraryFacts DEF ResolveMember, SkipMember, program
<1>2. /\ member_type' \in [Type -> Seq(Type \cup {NULL})]
      /\ member_type'[u][i] = Found(u, i)
      /\ \A j \in Members(u) : j # i => member_type'[u][j] = member_type[u][j]
      /\ \A t \in Type : Len(member_type'[t]) = Len(member_type[t])
      /\ \A t \in Type : t # u => member_type'[t] = member_type[t]
  <2>1. member_type[u] \in Seq(Type \cup {NULL}) /\ Len(member_type[u]) = Len(related[u])
    BY <1>0 DEF TypeOK
  <2>2. CASE ResolveMember(u)
    <3>1. /\ member_type' = [member_type EXCEPT ![u][i] = m]
          /\ Supported(m)
      BY <2>2, <1>0 DEF ResolveMember, TypeOK
    <3>2. /\ [member_type[u] EXCEPT ![i] = m] \in Seq(Type \cup {NULL})
          /\ Len([member_type[u] EXCEPT ![i] = m]) = Len(member_type[u])
      BY <2>1, <1>1 DEF Members
    <3>3. \A j \in Members(u) : [member_type[u] EXCEPT ![i] = m][j] =
                                  IF j = i THEN m ELSE member_type[u][j]
      BY <2>1, <1>1 DEF Members
    <3>4. member_type' = [member_type EXCEPT ![u] = [member_type[u] EXCEPT ![i] = m]]
      BY <3>1
    <3>5. /\ member_type'[u] = [member_type[u] EXCEPT ![i] = m]
          /\ \A t \in Type : t # u => member_type'[t] = member_type[t]
          /\ member_type' \in [Type -> Seq(Type \cup {NULL})]
      BY <3>2, <3>4, <1>0 DEF TypeOK
    <3> QED BY <3>1, <3>2, <3>3, <3>5, <1>1 DEF Found
  <2>3. CASE SkipMember(u)
    <3>1. member_type' = member_type /\ ~Supported(m)
      BY <2>3 DEF SkipMember
    <3>2. member_type[u][i] = NULL
      BY <1>0, <1>1 DEF Passed
    <3> QED BY <3>1, <3>2, <1>0 DEF Found, TypeOK
  <2> QED BY <2>2, <2>3
<1>3. TypeOK'
  <2>1. next_member' \in [Type -> Nat \ {0}] /\ i <= Len(related[u])
    BY <1>0, <1>1, LibraryFacts DEF TypeOK, Members
  <2>2. tp_base' \in [Type -> Type \cup {NULL}]
    BY <1>0, <1>1 DEF ResolveMember, SkipMember, TypeOK
  <2>3. \A t \in Type : next_member'[t] <= Len(related[t]) + 1
    BY <1>0, <1>1, <2>1, LibraryFacts DEF TypeOK
  <2> QED BY <1>0, <1>1, <1>2, <2>1, <2>2, <2>3 DEF TypeOK
<1>4. /\ \A t \in Type : t # u => tp_base'[t] = tp_base[t] /\ next_member'[t] = next_member[t]
      /\ next_member'[u] = i + 1
      /\ tp_base'[u] = IF BaseMember(u, i) THEN m ELSE tp_base[u]
  <2>1. BaseMember(u, i) => Supported(m) BY DEF BaseMember, Composite, Supported
  <2>2. tp_base \in [Type -> Type \cup {NULL}] BY <1>0 DEF TypeOK
  <2>3. next_member \in [Type -> Nat \ {0}] BY <1>0 DEF TypeOK
  <2> QED BY <2>1, <2>2, <2>3, <1>1 DEF ResolveMember, SkipMember
<1>5. \A t, g : On(t, g)' <=> On(t, g)
  BY <1>1 DEF On, Entry
<1>6. ASSUME NEW t \in Type
      PROVE  (Passed(t) /\ Pending(t) /\ PointerBase(t) /\ BaseComposite(t))'
  <2>1. Members(t)' = Members(t) /\ \A j \in Members(t) : Found(t, j)' = Found(t, j)
    BY <1>1 DEF Members, Found, Supported
  <2>2. Passed(t)'
    <3>1. CASE t = u
      <4> SUFFICES ASSUME NEW j \in Members(u)
                   PROVE member_type'[u][j] = IF j < i + 1 THEN Found(u, j) ELSE NULL
        BY <3>1, <2>1, <1>4 DEF Passed
      <4>1. j \in Nat BY LibraryFacts DEF Members
      <4>2. member_type[u][j] = IF j < i THEN Found(u, j) ELSE NULL
        BY <1>0 DEF Passed
      <4> QED BY <4>1, <4>2, <1>1, <1>2
    <3>2. CASE t # u
      BY <3>2, <2>1, <1>0, <1>2, <1>4 DEF Passed
    <3> QED BY <3>1, <3>2
  <2>3. Pending(t)'
    BY <1>0, <1>1, <1>4, <1>5, <2>1 DEF Pending, Ready
  <2>4. PointerBase(t)'
    <3>1. CASE t = u
      <4>1. Kind[u] = "address" => i = 1 /\ i + 1 \notin Members(u)
        BY <1>1, LibraryFacts
      <4>2. Kind[u] = "address" /\ Composite(m) => BaseMember(u, i)
        BY DEF BaseMember, Composite
      <4> QED BY <3>1, <4>1, <4>2, <1>1, <1>4, <2>1 DEF PointerBase
    <3>2. CASE t # u
      BY <3>2, <1>0, <1>1, <1>4, <1>5, <2>1 DEF PointerBase
    <3> QED BY <3>1, <3>2
  <2>5. BaseComposite(t)'
    BY <1>0, <1>4 DEF BaseComposite, BaseMember
  <2> QED BY <2>2, <2>3, <2>4, <2>5
<1>7. PointerInherits' BY <1>0, <1>1 DEF PointerInherits, Ready
<1> QED BY <1>0, <1>1, <1>3, <1>6, <1>7 DEF IInv

(* The loop ends: the call becomes one of PyType_Ready, or returns. *)
LEMMA InvEndInitType == ASSUME IInv, NEW u \in Type, EndInitType(u) PROVE IInv'
<1>0. /\ TypeOK /\ related \in Libraries
      /\ \A t \in Type : Passed(t) /\ Pending(t) /\ PointerBase(t) /\ BaseComposite(t)
      /\ PointerInherits
  BY DEF IInv
<1>1. /\ next_member[u] \notin Members(u)
      /\ UNCHANGED <<related, unions, typdict, member_type, next_member, tp_base, tp_mro>>
  BY DEF EndInitType, program
<1>2. /\ stack' \in Seq(Call)
      /\ HasProxy(u) => On(u, "PyType_Ready")'
      /\ \A t, g : On(t, g)' => On(t, g) \/ (t = u /\ g = "PyType_Ready")
      /\ \A t, g : On(t, g) => On(t, g)' \/ (t = u /\ g = "InitType")
  <2>1. CASE HasProxy(u)
    BY <2>1, <1>0, OnReplace DEF EndInitType, TypeOK
  <2>2. CASE ~HasProxy(u)
    BY <2>2, <1>0, OnPop DEF EndInitType, Pop, TypeOK
  <2> QED BY <2>1, <2>2
<1>3. TypeOK' BY <1>0, <1>1, <1>2 DEF TypeOK
<1>4. ASSUME NEW t \in Type
      PROVE  (Passed(t) /\ Pending(t) /\ PointerBase(t) /\ BaseComposite(t))'
  <2>1. Passed(t)' /\ BaseComposite(t)'
    BY <1>0, <1>1 DEF Passed, BaseComposite, Found, Members, Supported
  <2>2. Pending(t)' BY <1>0, <1>1, <1>2 DEF Pending, Members, Ready
  <2>3. PointerBase(t)' BY <1>0, <1>1, <1>2 DEF PointerBase, Members
  <2> QED BY <2>1, <2>2, <2>3
<1>5. PointerInherits' BY <1>0, <1>1 DEF PointerInherits, Ready
<1> QED BY <1>0, <1>1, <1>3, <1>4, <1>5 DEF IInv

(* PyType_Ready calls itself for the base. *)
LEMMA InvReadyBase == ASSUME IInv, NEW u \in Type, ReadyBase(u) PROVE IInv'
<1>0. /\ TypeOK /\ related \in Libraries
      /\ \A t \in Type : Passed(t) /\ Pending(t) /\ PointerBase(t) /\ BaseComposite(t)
      /\ PointerInherits
  BY DEF IInv
<1>1. /\ tp_base[u] \in Type /\ Composite(tp_base[u])
      /\ Push(tp_base[u], "PyType_Ready")
      /\ UNCHANGED <<related, unions, typdict, member_type, next_member, tp_base, tp_mro>>
  BY <1>0 DEF ReadyBase, TypeOK, BaseComposite, program
<1>2. /\ stack' \in Seq(Call)
      /\ \A t, g : On(t, g)' <=> On(t, g) \/ (t = tp_base[u] /\ g = "PyType_Ready")
  BY <1>0, <1>1, OnPush DEF TypeOK
<1>3. TypeOK' BY <1>0, <1>1, <1>2 DEF TypeOK
<1>4. ASSUME NEW t \in Type
      PROVE  (Passed(t) /\ Pending(t) /\ PointerBase(t) /\ BaseComposite(t))'
  <2>1. Passed(t)' /\ BaseComposite(t)'
    BY <1>0, <1>1 DEF Passed, BaseComposite, Found, Members, Supported
  <2>2. Pending(t)' BY <1>0, <1>1, <1>2 DEF Pending, Members, Ready
  <2>3. PointerBase(t)'
    BY <1>0, <1>1, <1>2 DEF PointerBase, Members, Composite
  <2> QED BY <2>1, <2>2, <2>3
<1>5. PointerInherits' BY <1>0, <1>1 DEF PointerInherits, Ready
<1> QED BY <1>0, <1>1, <1>3, <1>4, <1>5 DEF IInv

(* PyType_Ready returns: the ancestors are fixed, if they were not. *)
LEMMA InvEndReady == ASSUME IInv, NEW u \in Type, EndReady(u) PROVE IInv'
<1> USE NullAssumption
<1>0. /\ TypeOK /\ related \in Libraries
      /\ \A t \in Type : Passed(t) /\ Pending(t) /\ PointerBase(t) /\ BaseComposite(t)
      /\ PointerInherits
  BY DEF IInv
<1>1. /\ Running(u, "PyType_Ready") /\ Pop
      /\ UNCHANGED <<related, unions, typdict, member_type, next_member, tp_base>>
  BY DEF EndReady, program
<1>2. /\ stack' \in Seq(Call)
      /\ \A t, g : On(t, g)' => On(t, g)
      /\ \A t, g : On(t, g) => On(t, g)' \/ (t = u /\ g = "PyType_Ready")
  BY <1>0, <1>1, OnPop DEF TypeOK
<1>3. On(u, "PyType_Ready")
  <2>1. Len(stack) \in 1..Len(stack) /\ stack[Len(stack)] = Entry(u, "PyType_Ready")
    BY <1>0, <1>1 DEF Running, Idle, Top, Entry, TypeOK
  <2> QED BY <2>1 DEF On
<1>4. /\ tp_mro' \in [Type -> SUBSET Type]
      /\ tp_mro'[u] # {}
      /\ \A t \in Type : t # u => tp_mro'[t] = tp_mro[t]
      /\ Ready(u) => tp_mro'[u] = tp_mro[u]
      /\ ~Ready(u) /\ tp_base[u] # NULL =>
           Ready(tp_base[u]) /\ tp_mro'[u] = {u} \cup tp_mro[tp_base[u]]
  <2>1. tp_mro \in [Type -> SUBSET Type] /\ tp_base[u] \in Type \cup {NULL}
    BY <1>0 DEF TypeOK
  <2>2. CASE Ready(u) /\ UNCHANGED tp_mro
    BY <2>1, <2>2 DEF Ready
  <2>3. CASE ~Ready(u) /\ tp_base[u] = NULL /\ tp_mro' = [tp_mro EXCEPT ![u] = {u}]
    BY <2>1, <2>3
  <2>4. CASE /\ ~Ready(u) /\ tp_base[u] # NULL /\ Ready(tp_base[u])
             /\ tp_mro' = [tp_mro EXCEPT ![u] = {u} \cup tp_mro[tp_base[u]]]
    <3>1. {u} \cup tp_mro[tp_base[u]] \in SUBSET Type BY <2>1, <2>4
    <3> QED BY <2>1, <2>4, <3>1
  <2> QED BY <2>2, <2>3, <2>4 DEF EndReady
<1>5. TypeOK' BY <1>0, <1>1, <1>2, <1>4 DEF TypeOK
<1>6. ASSUME NEW t \in Type
      PROVE  (Passed(t) /\ Pending(t) /\ PointerBase(t) /\ BaseComposite(t))'
  <2>1. Passed(t)' /\ BaseComposite(t)'
    BY <1>0, <1>1 DEF Passed, BaseComposite, Found, Members, Supported
  <2>2. Pending(t)' BY <1>0, <1>1, <1>2, <1>4 DEF Pending, Members, Ready
  <2>3. PointerBase(t)' BY <1>0, <1>1, <1>2 DEF PointerBase, Members
  <2> QED BY <2>1, <2>2, <2>3
<1>7. PointerInherits'
  <2> SUFFICES ASSUME NEW t \in Type, NEW p, p = related[t][1],
                      Kind[t] = "address", tp_mro'[t] # {}, Kind[p] = "composite"
               PROVE  tp_mro'[p] # {} /\ tp_mro'[p] \subseteq tp_mro'[t]
    BY <1>1 DEF PointerInherits, Composite, Ready
  <2>1. p \in Type
    <3>1. Members(t) = {1} /\ \A i \in Members(t) : related[t][i] \in Type
      BY LibraryFacts
    <3> QED BY <3>1
  <2>2. CASE tp_mro[t] # {}
    <3>1. tp_mro[p] # {} /\ tp_mro[p] \subseteq tp_mro[t]
      BY <2>2, <1>0 DEF PointerInherits, Composite, Ready
    <3>2. tp_mro'[t] = tp_mro[t] /\ tp_mro'[p] = tp_mro[p]
      BY <2>1, <2>2, <3>1, <1>4 DEF Ready
    <3> QED BY <3>1, <3>2
  <2>3. CASE tp_mro[t] = {}
    <3>1. t = u BY <2>3, <1>4
    <3>2. tp_base[u] = p
      BY <3>1, <1>0, <1>3 DEF PointerBase, Composite
    <3>3. p # u BY <3>1
    <3>4. tp_mro[p] # {} /\ tp_mro'[u] = {u} \cup tp_mro[p]
      BY <2>1, <2>3, <3>1, <3>2, <1>4, NullAssumption DEF Ready
    <3>5. tp_mro'[p] = tp_mro[p] BY <2>1, <3>3, <1>4
    <3> QED BY <3>1, <3>4, <3>5
  <2> QED BY <2>2, <2>3
<1> QED BY <1>0, <1>1, <1>5, <1>6, <1>7 DEF IInv

LEMMA InvNext == IInv /\ [Next]_vars => IInv'
<1> SUFFICES ASSUME IInv, [Next]_vars PROVE IInv'
  OBVIOUS
<1>1. CASE UNCHANGED vars
  <2>1. UNCHANGED <<related, unions, typdict, member_type, next_member, tp_base, tp_mro, stack>>
    BY <1>1 DEF vars, program
  <2>2. \A t, g : On(t, g)' <=> On(t, g) BY <2>1 DEF On, Entry
  <2>3. TypeOK' /\ PointerInherits' /\ related' \in Libraries
    BY <2>1 DEF IInv, TypeOK, PointerInherits, Ready
  <2>4. ASSUME NEW t \in Type
        PROVE  (Passed(t) /\ Pending(t) /\ PointerBase(t) /\ BaseComposite(t))'
    <3>1. Passed(t) /\ Pending(t) /\ PointerBase(t) /\ BaseComposite(t)
      BY DEF IInv
    <3>2. Passed(t)' /\ BaseComposite(t)'
      BY <2>1, <3>1 DEF Passed, BaseComposite, Found, Members, Supported
    <3>3. Pending(t)' BY <2>1, <2>2, <3>1 DEF Pending, Members, Ready
    <3>4. PointerBase(t)' BY <2>1, <2>2, <3>1 DEF PointerBase, Members
    <3> QED BY <3>2, <3>3, <3>4
  <2> QED BY <2>3, <2>4 DEF IInv
<1>2. ASSUME NEW t \in Type, Request(t) PROVE IInv'
  BY <1>1, <1>2, InvCreate DEF Request
<1>3. ASSUME NEW t \in Type, CreateMember(t) PROVE IInv'
  <2>1. related[t][next_member[t]] \in Type
    BY <1>3, LibraryFacts DEF CreateMember
  <2> QED BY <1>3, <2>1, InvCreate DEF CreateMember
<1> QED BY <1>1, <1>2, <1>3, InvPass, InvEndInitType, InvReadyBase, InvEndReady
        DEF Next, Step

LEMMA Invariant == Spec => []IInv
<1> QED BY InvInit, InvNext, PTL DEF Spec

-----------------------------------------------------------------------------
(* The results.                                                            *)

(* Every variable keeps its type: calls that run are for types of the      *)
(* library, and members are initialised one after another.                 *)
THEOREM TypeCorrect == Spec => []TypeOK
<1>1. IInv => TypeOK BY DEF IInv
<1> QED BY <1>1, Invariant, PTL

(* Whenever ForeignType_GetOrCreate has returned, every type in its table  *)
(* is finished, whatever cycles the C types form and in whatever order     *)
(* they were asked for.                                                    *)
THEOREM TableAlwaysFinished == Spec => []TableFinished
<1>1. IInv => TableFinished
  <2> SUFFICES ASSUME IInv, Idle, NEW t \in typdict
               PROVE  Finished(t)
    BY DEF TableFinished
  <2>1. t \in Type BY DEF IInv, TypeOK
  <2>2. \A f : ~On(t, f) BY DEF Idle, On
  <2>3. /\ next_member[t] \notin Members(t)
        /\ HasProxy(t) => Ready(t)
    BY <2>1, <2>2 DEF IInv, Pending
  <2>4. \A i \in Members(t) : i < next_member[t]
    BY <2>1, <2>3, LibraryFacts DEF Members
  <2> QED BY <2>1, <2>3, <2>4 DEF IInv, Passed, Found, Finished
<1> QED BY <1>1, Invariant, PTL

(* A pointer type that can be used has all the ancestors of the composite  *)
(* it points to, at every moment of the recursion.                         *)
THEOREM PointerAlwaysInherits == Spec => []PointerInherits
<1>1. IInv => PointerInherits BY DEF IInv
<1> QED BY <1>1, Invariant, PTL
-----------------------------------------------------------------------------
(* The first member of a struct.                                           *)

Struct(t) == Composite(t) /\ t \notin unions

(* While a struct waits for its first member, all that runs is for types   *)
(* its first member refers to.                                             *)
Inside ==
  \A k, l \in 1..Len(stack) :
    LET t == stack[k].type
    IN  /\ k < l /\ stack[k].function = "InitType"
        /\ next_member[t] = 1 /\ 1 \in Members(t)
        => stack[l].type \in Reaches(related[t][1])

(* Calls are for types in the table, and bases are members in the table. *)
Known ==
  /\ \A k \in 1..Len(stack) : stack[k].type \in typdict
  /\ \A t \in Type : tp_base[t] # NULL =>
       tp_base[t] \in typdict /\ \E i \in Members(t) : tp_base[t] = related[t][i]

(* The base of a struct is its first member, set when the loop passes it. *)
FirstIsBase(t) ==
  Struct(t) =>
    /\ tp_base[t] # NULL => tp_base[t] = related[t][1]
    /\ 1 \in Members(t) /\ Composite(related[t][1]) /\ next_member[t] # 1
         => tp_base[t] = related[t][1]

(* What is decided when PyType_Ready runs. *)
Inherits(t) ==
  Ready(t) => /\ t \in tp_mro[t]
              /\ FirstMemberInherited(t) \/ t \in Reaches(related[t][1])

FirstInv == Inside /\ Known /\ \A t \in Type : FirstIsBase(t) /\ Inherits(t)

LEMMA ReachesMembers ==
  ASSUME IInv, NEW t \in Type
  PROVE  /\ t \in Reaches(t)
         /\ \A u \in Type : \A x \in Reaches(u) : \A i \in Members(x) :
              related[x][i] \in Reaches(u)
<1>1. t \in Reaches(t) BY DEF Reaches
<1>2. ASSUME NEW u \in Type, NEW x \in Reaches(u), NEW i \in Members(x)
      PROVE  related[x][i] \in Reaches(u)
  <2>1. x \in Type /\ related[x][i] \in Type
    <3>1. x \in Type BY DEF Reaches
    <3> QED BY <3>1, LibraryFacts
  <2>2. ASSUME NEW S \in SUBSET Type, u \in S,
               \A y \in S : \A j \in Members(y) : related[y][j] \in S
        PROVE  related[x][i] \in S
    <3>1. x \in S BY <2>2 DEF Reaches
    <3> QED BY <2>2, <3>1
  <2> QED BY <2>1, <2>2 DEF Reaches
<1> QED BY <1>1, <1>2

LEMMA ReachesFixed ==
  ASSUME UNCHANGED related
  PROVE  /\ \A t : Members(t)' = Members(t)
         /\ \A t : Reaches(t)' = Reaches(t)
BY DEF Reaches, Members

(* A call for a member of the type whose call is running. *)
LEMMA InsidePush ==
  ASSUME IInv, Inside, UNCHANGED <<related, next_member>>,
         NEW u \in Type, NEW f \in {"InitType", "PyType_Ready"}, Push(u, f),
         ~Idle => /\ \E i \in Members(Top.type) : u = related[Top.type][i]
                  /\ Top.function = "InitType" => u = related[Top.type][next_member[Top.type]]
  PROVE  Inside'
<1>1. stack \in Seq(Call) /\ Entry(u, f) \in Call BY DEF IInv, TypeOK, Call, Entry
<1>2. /\ stack' = Append(stack, Entry(u, f)) /\ Len(stack) \in Nat
      /\ Len(stack') = Len(stack) + 1 /\ stack'[Len(stack) + 1] = Entry(u, f)
      /\ \A k \in 1..Len(stack) : stack'[k] = stack[k] /\ stack[k].type \in Type
  <2>1. stack' = Append(stack, Entry(u, f)) BY DEF Push, Entry
  <2>2. /\ Len(stack) \in Nat
        /\ Len(stack') = Len(stack) + 1 /\ stack'[Len(stack) + 1] = Entry(u, f)
        /\ \A k \in 1..Len(stack) : stack'[k] = stack[k]
    BY <1>1, <2>1, AppendProperties
  <2>3. \A k \in 1..Len(stack) : stack[k].type \in Type
    <3>1. \A c \in Call : c.type \in Type BY DEF Call
    <3> QED BY <1>1, <3>1
  <2> QED BY <2>1, <2>2, <2>3
<1>0. related' = related /\ next_member' = next_member OBVIOUS
<1> SUFFICES ASSUME NEW k \in 1..Len(stack'), NEW l \in 1..Len(stack'), k < l,
                    stack'[k].function = "InitType",
                    next_member[stack'[k].type] = 1, 1 \in Members(stack'[k].type)
             PROVE  stack'[l].type \in Reaches(related[stack'[k].type][1])
  BY <1>0, ReachesFixed DEF Inside
<1> DEFINE t == stack'[k].type
<1>3. k \in 1..Len(stack) /\ stack'[k] = stack[k] /\ t \in Type BY <1>2
<1>4. CASE l \in 1..Len(stack)
  BY <1>2, <1>3, <1>4 DEF Inside
<1>5. CASE l = Len(stack) + 1
  <2>1. stack'[l].type = u BY <1>2, <1>5 DEF Entry
  <2>2. ~Idle /\ Top = stack[Len(stack)] /\ Len(stack) \in 1..Len(stack) BY <1>2, <1>3 DEF Idle, Top
  <2>3. PICK i \in Members(Top.type) : u = related[Top.type][i] BY <2>2
  <2>4. related[t][1] \in Type BY <1>3, LibraryFacts
  <2>5. CASE k = Len(stack)
    <3>1. u = related[t][1] BY <1>3, <2>2, <2>5
    <3> QED BY <2>1, <2>4, <3>1, ReachesMembers
  <2>6. CASE k < Len(stack)
    <3>1. Top.type \in Reaches(related[t][1]) BY <1>3, <2>2, <2>6 DEF Inside
    <3> QED BY <2>1, <2>3, <2>4, <3>1, ReachesMembers
  <2> QED BY <1>2, <1>3, <2>5, <2>6
<1> QED BY <1>2, <1>4, <1>5

(* No new calls, and no loop starts again. *)
LEMMA InsideKept ==
  ASSUME Inside, UNCHANGED related, Len(stack) \in Nat, Len(stack') \in 0..Len(stack),
         \A k \in 1..Len(stack') :
           /\ stack'[k].type = stack[k].type
           /\ stack'[k].function = "InitType" => stack[k].function = "InitType",
         \A k \in 1..Len(stack) :
           next_member'[stack[k].type] = 1 => next_member[stack[k].type] = 1
  PROVE  Inside'
BY ReachesFixed DEF Inside

(* The running call. *)
LEMMA RunningCall ==
  ASSUME IInv, NEW u \in Type, NEW f, Running(u, f)
  PROVE  /\ stack \in Seq(Call) /\ Len(stack) \in Nat \ {0} /\ ~Idle
         /\ Len(stack) \in 1..Len(stack)
         /\ stack[Len(stack)] = Entry(u, f) /\ Top.type = u /\ Top.function = f
         /\ On(u, f)
<1>1. stack \in Seq(Call) BY DEF IInv, TypeOK
<1>2. Len(stack) \in Nat \ {0} /\ stack[Len(stack)] = Entry(u, f) /\ ~Idle
  BY <1>1 DEF Running, Idle, Top, Entry
<1>3. Top.type = u /\ Top.function = f BY DEF Running, Top
<1> QED BY <1>1, <1>2, <1>3 DEF On
LEMMA TypesOfCalls ==
  ASSUME IInv
  PROVE  \A k \in 1..Len(stack) : stack[k].type \in Type
<1>1. stack \in Seq(Call) /\ \A c \in Call : c.type \in Type BY DEF IInv, TypeOK, Call
<1> QED BY <1>1

(* What a step preserves that changes neither types nor their bases. *)
LEMMA TypesKept ==
  ASSUME FirstInv, UNCHANGED <<related, unions, next_member, tp_base, tp_mro>>
  PROVE  /\ \A t \in Type : FirstIsBase(t)' /\ Inherits(t)'
         /\ \A t \in Type : tp_base'[t] # NULL =>
              tp_base'[t] \in typdict /\ \E i \in Members(t) : tp_base'[t] = related[t][i]
<1>1. \A t \in Type : FirstIsBase(t)'
  BY DEF FirstInv, FirstIsBase, Members, Struct, Composite
<1>2. \A t \in Type : Inherits(t)'
  BY ReachesFixed DEF FirstInv, Inherits, Ready, FirstMemberInherited, Composite
<1> QED BY <1>1, <1>2 DEF FirstInv, Known

LEMMA FirstInit == Init => FirstInv
<1> SUFFICES ASSUME Init PROVE FirstInv
  OBVIOUS
<1>1. Inside /\ Known BY DEF Init, Inside, Known
<1>2. ASSUME NEW t \in Type PROVE FirstIsBase(t) /\ Inherits(t)
  BY DEF Init, FirstIsBase, Inherits, Ready
<1> QED BY <1>1, <1>2 DEF FirstInv

(* GetOrCreate: for a program, or for the member a type has come to. *)
LEMMA FirstCreate ==
  ASSUME IInv, FirstInv, NEW u \in Type, Create(u),
         Idle \/ \E t \in Type : /\ Running(t, "InitType") /\ next_member[t] \in Members(t)
                                 /\ u = related[t][next_member[t]]
  PROVE  FirstInv'
<1>1. /\ Push(u, "InitType") /\ typdict' = typdict \cup {u}
      /\ UNCHANGED <<related, unions, next_member, tp_base, tp_mro>>
  BY DEF Create, program
<1>2. ~Idle => /\ \E i \in Members(Top.type) : u = related[Top.type][i]
               /\ u = related[Top.type][next_member[Top.type]]
  BY RunningCall
<1>3. Inside' BY <1>1, <1>2, InsidePush DEF FirstInv
<1>4. \A k \in 1..Len(stack') : stack'[k].type \in typdict'
  <2>1. stack \in Seq(Call) /\ Entry(u, "InitType") \in Call
    BY DEF IInv, TypeOK, Call, Entry
  <2>2. stack' = Append(stack, Entry(u, "InitType")) BY <1>1 DEF Push, Entry
  <2>3. /\ Len(stack) \in Nat
        /\ Len(stack') = Len(stack) + 1 /\ stack'[Len(stack) + 1] = Entry(u, "InitType")
        /\ \A k \in 1..Len(stack) : stack'[k] = stack[k]
    BY <2>1, <2>2, AppendProperties
  <2>4. Entry(u, "InitType").type = u BY DEF Entry
  <2> QED BY <1>1, <2>3, <2>4 DEF FirstInv, Known
<1>5. Known' BY <1>1, <1>4, TypesKept, ReachesFixed DEF Known
<1> QED BY <1>1, <1>3, <1>5, TypesKept DEF FirstInv

(* The loop passes a member.  If it is the first, it becomes the base. *)
LEMMA FirstPass ==
  ASSUME IInv, FirstInv, NEW u \in Type, ResolveMember(u) \/ SkipMember(u)
  PROVE  FirstInv'
<1> USE NullAssumption
<1> DEFINE i == next_member[u]
           m == related[u][i]
<1>1. /\ i \in Members(u) /\ i \in Nat \ {0} /\ m \in Type /\ u \in typdict
      /\ next_member' = [next_member EXCEPT ![u] = i + 1]
      /\ UNCHANGED <<related, unions, typdict, tp_mro, stack>>
  <2>1. Running(u, "InitType") BY DEF ResolveMember, SkipMember
  <2>2. u \in typdict
    <3>1. Len(stack) \in 1..Len(stack) /\ stack[Len(stack)] = Entry(u, "InitType")
      BY <2>1, RunningCall
    <3>2. Entry(u, "InitType").type = u BY DEF Entry
    <3> QED BY <3>1, <3>2 DEF FirstInv, Known
  <2> QED BY <2>2, LibraryFacts DEF ResolveMember, SkipMember, program
<1>2. /\ tp_base \in [Type -> Type \cup {NULL}] /\ next_member \in [Type -> Nat \ {0}]
  BY DEF IInv, TypeOK
<1>3. /\ \A t \in Type : t # u => tp_base'[t] = tp_base[t] /\ next_member'[t] = next_member[t]
      /\ next_member'[u] = i + 1
      /\ tp_base'[u] = IF BaseMember(u, i) THEN m ELSE tp_base[u]
      /\ BaseMember(u, i) => m \in typdict
  <2>1. BaseMember(u, i) => Supported(m) BY DEF BaseMember, Composite, Supported
  <2> QED BY <1>1, <1>2, <2>1 DEF ResolveMember, SkipMember
<1>4. Inside'
  <2>1. \A t \in Type : next_member'[t] = 1 => next_member[t] = 1 BY <1>1, <1>3
  <2>2. stack \in Seq(Call) BY DEF IInv, TypeOK
  <2>3. Len(stack) \in Nat BY <2>2
  <2> QED BY <1>1, <2>1, <2>3, TypesOfCalls, InsideKept DEF FirstInv
<1>5. Known'
  <2>1. \A k \in 1..Len(stack') : stack'[k].type \in typdict' BY <1>1 DEF FirstInv, Known
  <2>2. ASSUME NEW t \in Type, tp_base'[t] # NULL
        PROVE  tp_base'[t] \in typdict /\ \E j \in Members(t) : tp_base'[t] = related[t][j]
    BY <1>1, <1>3, <2>2 DEF FirstInv, Known
  <2> QED BY <1>1, <2>1, <2>2, ReachesFixed DEF Known
<1>6. ASSUME NEW t \in Type PROVE FirstIsBase(t)'
  <2> SUFFICES ASSUME Struct(t)
               PROVE  /\ tp_base'[t] # NULL => tp_base'[t] = related[t][1]
                      /\ 1 \in Members(t) /\ Composite(related[t][1]) /\ next_member'[t] # 1
                           => tp_base'[t] = related[t][1]
    BY <1>1, ReachesFixed DEF FirstIsBase, Struct, Composite
  <2>0. FirstIsBase(t) BY DEF FirstInv
  <2>1. CASE t # u BY <1>3, <2>0, <2>1 DEF FirstIsBase
  <2>2. CASE t = u
    <3>1. BaseMember(u, i) => i = 1 BY <2>2 DEF BaseMember, Struct
    <3>2. i = 1 /\ Composite(m) => BaseMember(u, i) BY <2>2 DEF BaseMember, Struct, Composite
    <3> QED BY <1>3, <2>0, <2>2, <3>1, <3>2 DEF FirstIsBase
  <2> QED BY <2>1, <2>2
<1>7. \A t \in Type : Inherits(t)'
  BY <1>1, ReachesFixed DEF FirstInv, Inherits, Ready, FirstMemberInherited, Composite
<1> QED BY <1>4, <1>5, <1>6, <1>7 DEF FirstInv

LEMMA FirstEndInitType ==
  ASSUME IInv, FirstInv, NEW u \in Type, EndInitType(u) PROVE FirstInv'
<1>1. UNCHANGED <<related, unions, typdict, next_member, tp_base, tp_mro>> BY DEF EndInitType, program
<1>2. /\ stack \in Seq(Call) /\ Len(stack) \in Nat \ {0}
      /\ stack[Len(stack)] = Entry(u, "InitType")
  BY RunningCall DEF EndInitType
<1>3. /\ Len(stack') \in 0..Len(stack)
      /\ \A k \in 1..Len(stack') :
           /\ stack'[k].type = stack[k].type
           /\ stack'[k].function = "InitType" => stack[k].function = "InitType"
  <2>1. CASE HasProxy(u)
    <3>1. stack' = [stack EXCEPT ![Len(stack)] = Entry(u, "PyType_Ready")]
      BY <2>1 DEF EndInitType, ReadyCall, Entry
    <3>2. Entry(u, "PyType_Ready") \in Call BY DEF Entry, Call
    <3>3. /\ Len(stack') = Len(stack)
          /\ \A k \in 1..Len(stack) : k # Len(stack) => stack'[k] = stack[k]
          /\ stack'[Len(stack)] = Entry(u, "PyType_Ready")
      BY <1>2, <3>1, <3>2
    <3>4. /\ Entry(u, "PyType_Ready").type = u /\ Entry(u, "InitType").type = u
          /\ Entry(u, "InitType").function = "InitType"
      BY DEF Entry
    <3> QED BY <1>2, <3>3, <3>4
  <2>2. CASE ~HasProxy(u)
    <3>1. stack' = SubSeq(stack, 1, Len(stack) - 1) BY <2>2 DEF EndInitType
    <3> QED BY <1>2, <3>1, AllButLast
  <2> QED BY <2>1, <2>2
<1>4. Inside' BY <1>1, <1>2, <1>3, InsideKept DEF FirstInv
<1>5. Known' BY <1>1, <1>3, <1>2, TypesKept, ReachesFixed DEF Known, FirstInv
<1> QED BY <1>1, <1>4, <1>5, TypesKept DEF FirstInv

(* PyType_Ready is called for the base, which is a member. *)
LEMMA FirstReadyBase ==
  ASSUME IInv, FirstInv, NEW u \in Type, ReadyBase(u) PROVE FirstInv'
<1>1. /\ tp_base[u] \in Type /\ tp_base[u] \in typdict
      /\ \E i \in Members(u) : tp_base[u] = related[u][i]
      /\ Push(tp_base[u], "PyType_Ready")
      /\ UNCHANGED <<related, unions, typdict, next_member, tp_base, tp_mro>>
  BY DEF ReadyBase, IInv, TypeOK, FirstInv, Known, program
<1>2. Top.type = u /\ Top.function = "PyType_Ready"
  BY RunningCall DEF ReadyBase
<1>3. Inside' BY <1>1, <1>2, InsidePush DEF FirstInv
<1>4. \A k \in 1..Len(stack') : stack'[k].type \in typdict'
  <2> DEFINE e == Entry(tp_base[u], "PyType_Ready")
  <2>1. stack \in Seq(Call) /\ e \in Call
    BY <1>1 DEF IInv, TypeOK, Call, Entry
  <2>2. stack' = Append(stack, e) BY <1>1 DEF Push, Entry
  <2>3. e.type = tp_base[u] BY DEF Entry
  <2> HIDE DEF e
  <2>4. /\ Len(stack) \in Nat
        /\ Len(stack') = Len(stack) + 1 /\ stack'[Len(stack) + 1] = e
        /\ \A k \in 1..Len(stack) : stack'[k] = stack[k]
    BY <2>1, <2>2, AppendProperties
  <2> QED BY <1>1, <2>3, <2>4 DEF FirstInv, Known
<1>5. Known' BY <1>1, <1>4, TypesKept, ReachesFixed DEF Known
<1> QED BY <1>1, <1>3, <1>5, TypesKept DEF FirstInv

(* The ancestors are fixed.  If the loop has not come to the first member, *)
(* this is a call its first member led to.                                 *)
LEMMA FirstEndReady ==
  ASSUME IInv, FirstInv, NEW u \in Type, EndReady(u) PROVE FirstInv'
<1> USE NullAssumption
<1>1. /\ Running(u, "PyType_Ready") /\ Pop
      /\ UNCHANGED <<related, unions, typdict, next_member, tp_base>>
  BY DEF EndReady, program
<1>2. /\ stack \in Seq(Call) /\ Len(stack) \in Nat \ {0}
      /\ stack[Len(stack)] = Entry(u, "PyType_Ready")
      /\ u \in typdict
  BY <1>1, RunningCall DEF FirstInv, Known, Entry
<1>3. Len(stack') = Len(stack) - 1 /\ \A k \in 1..Len(stack') : stack'[k] = stack[k]
  BY <1>1, <1>2, AllButLast DEF Pop
<1>4. Inside' BY <1>1, <1>2, <1>3, InsideKept DEF FirstInv
<1>5. Known' BY <1>1, <1>2, <1>3, ReachesFixed DEF Known, FirstInv
<1>6. \A t \in Type : FirstIsBase(t)'
  BY <1>1 DEF FirstInv, FirstIsBase, Members, Struct, Composite
<1>7. ASSUME ~Ready(u), Struct(u), 1 \in Members(u), Composite(related[u][1])
      PROVE  \/ u \in Reaches(related[u][1])
             \/ tp_base[u] = related[u][1]
  <2>1. CASE next_member[u] # 1 BY <1>7, <2>1 DEF FirstInv, FirstIsBase
  <2>2. CASE next_member[u] = 1
    <3>1. On(u, "InitType") BY <1>2, <1>7, <2>2 DEF IInv, Pending
    <3>2. PICK k \in 1..Len(stack) : stack[k] = Entry(u, "InitType") BY <3>1 DEF On
    <3>3. /\ stack[k].type = u /\ stack[k].function = "InitType"
          /\ stack[Len(stack)].type = u /\ stack[Len(stack)].function = "PyType_Ready"
      BY <1>2, <3>2 DEF Entry
    <3>4. k < Len(stack) /\ Len(stack) \in 1..Len(stack) BY <1>2, <3>3
    <3> QED BY <1>7, <2>2, <3>3, <3>4 DEF FirstInv, Inside
  <2> QED BY <2>1, <2>2
<1>8. ASSUME NEW t \in Type PROVE Inherits(t)'
  <2> SUFFICES ASSUME tp_mro'[t] # {}
               PROVE  /\ t \in tp_mro'[t]
                      /\ \/ /\ Struct(t) /\ related[t] # <<>> /\ Composite(related[t][1])
                            => related[t][1] \in tp_mro'[t]
                         \/ t \in Reaches(related[t][1])
    BY <1>1, ReachesFixed
       DEF Inherits, Ready, FirstMemberInherited, Struct, Composite
  <2>1. CASE tp_mro'[t] = tp_mro[t]
    BY <2>1 DEF FirstInv, Inherits, Ready, FirstMemberInherited, Struct
  <2>2. CASE tp_mro'[t] # tp_mro[t]
    <3>1. /\ t = u /\ ~Ready(u)
          /\ \/ tp_base[u] = NULL /\ tp_mro'[u] = {u}
             \/ tp_base[u] # NULL /\ Ready(tp_base[u]) /\ tp_mro'[u] = {u} \cup tp_mro[tp_base[u]]
      BY <2>2 DEF EndReady, IInv, TypeOK
    <3>2. u \in tp_mro'[u] BY <3>1
    <3>3. ASSUME Struct(u), related[u] # <<>>, Composite(related[u][1])
          PROVE  related[u][1] \in tp_mro'[u] \/ u \in Reaches(related[u][1])
      <4>1. 1 \in Members(u) /\ related[u][1] \in Type
        <5>1. related[u] \in Seq(Type) BY LibraryFacts
        <5> QED BY <3>3, <5>1 DEF Members
      <4>2. CASE tp_base[u] = related[u][1]
        <5>1. Ready(related[u][1]) /\ tp_mro'[u] = {u} \cup tp_mro[related[u][1]]
          BY <3>1, <4>1, <4>2
        <5>2. related[u][1] \in tp_mro[related[u][1]] BY <4>1, <5>1 DEF FirstInv, Inherits
        <5> QED BY <5>1, <5>2
      <4> QED BY <1>7, <3>1, <3>3, <4>1, <4>2
    <3> QED BY <3>1, <3>2, <3>3
  <2> QED BY <2>1, <2>2
<1> QED BY <1>4, <1>5, <1>6, <1>8 DEF FirstInv

LEMMA FirstNext == IInv /\ FirstInv /\ [Next]_vars => FirstInv'
<1> SUFFICES ASSUME IInv, FirstInv, [Next]_vars PROVE FirstInv'
  OBVIOUS
<1>1. CASE UNCHANGED vars
  <2>1. UNCHANGED <<related, unions, typdict, next_member, tp_base, tp_mro, stack>>
    BY <1>1 DEF vars, program
  <2>2. Inside' BY <2>1, ReachesFixed DEF FirstInv, Inside
  <2>3. Known' BY <2>1, ReachesFixed DEF FirstInv, Known
  <2> QED BY <2>1, <2>2, <2>3, TypesKept DEF FirstInv
<1>2. ASSUME NEW t \in Type, Request(t) PROVE FirstInv'
  BY <1>1, <1>2, FirstCreate DEF Request
<1>3. ASSUME NEW t \in Type, CreateMember(t) PROVE FirstInv'
  <2>1. related[t][next_member[t]] \in Type
    BY <1>3, LibraryFacts DEF CreateMember
  <2> QED BY <1>3, <2>1, FirstCreate DEF CreateMember
<1> QED BY <1>1, <1>2, <1>3, FirstPass, FirstEndInitType, FirstReadyBase, FirstEndReady
        DEF Next, Step

LEMMA FirstInvariant == Spec => []FirstInv
BY FirstInit, FirstNext, Invariant, PTL DEF Spec

(* A struct is a subtype of its first member (composite_proxy.c:335) once  *)
(* GetOrCreate has returned, in whatever order types were asked for and    *)
(* whatever other cycles there are, unless its first member refers back to *)
(* it.                                                                     *)
THEOREM FirstMemberInheritedUnlessCyclic == Spec => []FirstMemberUnlessCyclic
<1>1. IInv /\ TableFinished /\ FirstInv => FirstMemberUnlessCyclic
  <2> SUFFICES ASSUME IInv, TableFinished, FirstInv, Idle, NEW t \in typdict
               PROVE  FirstMemberInherited(t) \/ t \in Reaches(related[t][1])
    BY DEF FirstMemberUnlessCyclic
  <2>1. t \in Type BY DEF IInv, TypeOK
  <2>2. Composite(t) => Ready(t) BY DEF TableFinished, Finished, HasProxy, Composite
  <2> QED BY <2>1, <2>2 DEF FirstInv, Inherits, FirstMemberInherited
<1> QED BY <1>1, Invariant, TableAlwaysFinished, FirstInvariant, PTL

-----------------------------------------------------------------------------
(* What recursively_add_useful_types has done.                             *)

Added(t) == TypeNames[t] \in DOMAIN module

(* In such a set every type is in the module, or what it is built from is  *)
(* in the set.                                                             *)
Followed(S) ==
  \A t \in S : IF Import!Named(t) THEN Added(t)
               ELSE \A i \in DOMAIN parts[t] : parts[t][i] \in S

(* The types recursively_add_useful_types need not be called for again. *)
Covered == UNION {S \in SUBSET LibraryTypes : Followed(S)}

(* The type a call has last called recursively_add_useful_types for. *)
Asked(c) ==
  IF c.function = "add_sym_to_module"
  THEN IF c.next = 0 THEN {SymbolTypes[c.of]} ELSE {}
  ELSE IF /\ c.function = "recursively_add_useful_types"
          /\ c.next - 1 \in DOMAIN parts[c.of]
  THEN {parts[c.of][c.next - 1]} ELSE {}

(* What a call in progress knows. *)
CallOK(c) ==
  /\ c.function = "add_sym_to_module" => SymbolTypes[c.of] \in LibraryTypes
  /\ c.function = "InitType" => c.of \in types
  /\ c.function = "add_type_to_module" =>
       Import!Named(c.of) /\ c.of \in types /\ ~Added(c.of)
  /\ c.function = "recursively_add_useful_types" =>
       /\ IF c.next = 0 THEN Import!Named(c.of) \/ LibraryKind[c.of] = "unsupported"
          ELSE Import!Named(c.of) => Added(c.of)
       /\ \A i \in DOMAIN parts[c.of] : i < c.next - 1 => parts[c.of][i] \in Covered

(* A call and the one it has made. *)
Called(c, d) ==
  /\ d.function # "add_sym_to_module"
  /\ IF Asked(c) = {} THEN d.function = "InitType"
     ELSE /\ d.function \in {"recursively_add_useful_types", "add_type_to_module"}
          /\ Asked(c) = {d.of}

(* What a call in progress may have called, and whoever called it: InitType *)
(* calls nothing but InitType.                                             *)
TypeCalls == {"add_type_to_module", "InitType"}
StackInv ==
  /\ \A k \in 1..Len(calls) : CallOK(calls[k])
  /\ \A k \in 1..Len(calls) : k < Len(calls) => Called(calls[k], calls[k + 1])
  /\ \A k, l \in 1..Len(calls) :
       k < l /\ calls[k].function \in TypeCalls => calls[l].function = "InitType"
  /\ ~Import!Idle => /\ calls[1].function = "add_sym_to_module"
                     /\ Asked(Import!Top) \subseteq Covered

(* SymbolsPresent, of one symbol. *)
Present(sym) ==
  \/ SymbolNames[sym] \in DOMAIN module /\ module[SymbolNames[sym]] \in Symbols
  \/ sym \in unread
  \/ Import!Unhandled(SymbolTypes[sym]) \/ Import!Lost(SymbolTypes[sym])

SymbolInv ==
  \A sym \in Symbols \ todo : SymbolTypes[sym] # NULL =>
    /\ \/ SymbolTypes[sym] \in Covered
       \/ Len(calls) > 1 /\ calls[1].of = sym /\ calls[1].next = 0
    /\ Present(sym) \/ (~Import!Idle /\ calls[1].of = sym)

(* The members of a struct are looked at once it has been added. *)
StructInv ==
  \A t \in LibraryTypes :
    LibraryKind[t] = "struct" /\ ~Import!SharesName(t) /\ Added(t) =>
    \/ \A i \in DOMAIN parts[t] : parts[t][i] \in Covered
    \/ \E k \in 1..Len(calls) : /\ calls[k].function = "recursively_add_useful_types"
                                /\ calls[k].of = t /\ calls[k].next # 0

ImportInv ==
  /\ Import!TypeOK /\ StackInv /\ SymbolInv /\ StructInv
  /\ Import!NothingPending /\ Import!OnlyUnhandledSkipped

-----------------------------------------------------------------------------
(* What a library is like. *)
LEMMA PartsFacts ==
  ASSUME Import!TypeOK, NEW t \in LibraryTypes
  PROVE  /\ parts[t] \in Seq(LibraryTypes) /\ DOMAIN parts[t] = 1..Len(parts[t])
         /\ Len(parts[t]) \in Nat
         /\ \A i \in DOMAIN parts[t] : i \in Nat /\ parts[t][i] \in LibraryTypes
         /\ LibraryKind[t] = "pointer" => DOMAIN parts[t] = {1}
         /\ LibraryKind[t] \in {"base", "unsupported", "bitfield", "enum", "void"} =>
           DOMAIN parts[t] = {}
<1>1. parts \in LibraryParts /\ parts[t] \in Seq(LibraryTypes)
  BY ImportAssumption DEF Import!TypeOK, Import!Assumptions
<1>2. Len(parts[t]) \in Nat /\ DOMAIN parts[t] = 1..Len(parts[t]) BY <1>1
<1>3. \A i \in DOMAIN parts[t] : i \in Nat /\ parts[t][i] \in LibraryTypes BY <1>1
<1>4. LibraryKind[t] = "pointer" => DOMAIN parts[t] = {1}
  <2>1. LibraryKind[t] = "pointer" => Len(parts[t]) = 1
    BY <1>1, ImportAssumption DEF Import!Assumptions
  <2>2. 1..1 = {1} OBVIOUS
  <2> QED BY <1>2, <2>1, <2>2, Zenon
<1>5. LibraryKind[t] \in {"base", "unsupported", "bitfield", "enum", "void"} =>
           DOMAIN parts[t] = {}
  <2>1. LibraryKind[t] \in {"base", "unsupported", "bitfield", "enum", "void"} =>
          parts[t] = <<>>
    BY <1>1, ImportAssumption DEF Import!Assumptions
  <2> QED BY <2>1
<1> QED BY <1>1, <1>2, <1>3, <1>4, <1>5

(* Covered is the largest followed set, and grows with the module. *)
LEMMA CoveredFollowed == Followed(Covered) /\ Covered \subseteq LibraryTypes
BY DEF Followed, Covered

LEMMA CoverNamed ==
  ASSUME NEW t \in LibraryTypes, Import!Named(t), Added(t) PROVE t \in Covered
<1>1. Followed({t}) BY DEF Followed
<1> QED BY <1>1 DEF Covered

LEMMA CoverParts ==
  ASSUME NEW t \in LibraryTypes, ~Import!Named(t),
         \A i \in DOMAIN parts[t] : parts[t][i] \in Covered
  PROVE  t \in Covered
<1>1. Followed(Covered \cup {t}) BY CoveredFollowed DEF Followed
<1>2. Covered \cup {t} \in SUBSET LibraryTypes BY CoveredFollowed
<1> QED BY <1>1, <1>2 DEF Covered

LEMMA CoverGrows ==
  ASSUME parts' = parts, DOMAIN module \subseteq DOMAIN module'
  PROVE  Covered \subseteq Covered'
<1>1. ASSUME NEW S \in SUBSET LibraryTypes, Followed(S) PROVE Followed(S)'
  BY <1>1 DEF Followed, Added, Import!Named
<1> QED BY <1>1 DEF Covered

(* The end of the sequence of calls. *)
LEMMA Returns ==
  ASSUME calls \in Seq(Import!Calls), ~Import!Idle, calls' = Import!Return
  PROVE  /\ calls' \in Seq(Import!Calls) /\ Len(calls) \in Nat \ {0}
         /\ Len(calls') = Len(calls) - 1
         /\ \A k \in 1..Len(calls) - 1 : calls'[k] = calls[k]
<1>1. Len(calls) \in Nat \ {0} BY DEF Import!Idle
<1>2. Len(calls) > 0 BY <1>1
<1> QED BY <1>1, <1>2, AllButLast DEF Import!Return

LEMMA GoesOn ==
  ASSUME calls \in Seq(Import!Calls), ~Import!Idle, NEW f, NEW x, NEW i,
         Import!Call(f, x, i) \in Import!Calls
  PROVE  LET s == Import!GoOn(f, x, i)
         IN  /\ s \in Seq(Import!Calls) /\ Len(calls) \in Nat \ {0}
             /\ Len(s) = Len(calls) /\ s[Len(calls)] = Import!Call(f, x, i)
             /\ \A k \in 1..Len(calls) : k # Len(calls) => s[k] = calls[k]
<1>1. Len(calls) \in Nat \ {0} BY DEF Import!Idle
<1> QED BY <1>1 DEF Import!GoOn

(* What no step takes back. *)
Grow ==
  /\ parts' = parts /\ types \subseteq types' /\ unread \subseteq unread'
  /\ DOMAIN module \subseteq DOMAIN module'
  /\ module' = module \/ Import!Top.function # "InitType"

LEMMA AskedFixed == ASSUME parts' = parts PROVE \A c : Asked(c)' = Asked(c)
BY DEF Asked

(* A step that only adds to the module leaves the waiting calls right. *)
LEMMA KeepCalls ==
  ASSUME Import!TypeOK, StackInv, ~Import!Idle, Grow
  PROVE  \A k \in 1..Len(calls) : k < Len(calls) =>
           \A c : c = calls[k] => CallOK(c)'
<1> SUFFICES ASSUME NEW k \in 1..Len(calls), k < Len(calls), NEW c, c = calls[k]
             PROVE  CallOK(c)'
  OBVIOUS
<1>1. CallOK(c) BY DEF StackInv
<1>2. Covered \subseteq Covered' BY CoverGrows DEF Grow
<1>3. c.function = "add_type_to_module" => module' = module
  <2>1. Len(calls) \in 1..Len(calls) BY DEF Import!TypeOK
  <2> QED BY <2>1 DEF StackInv, TypeCalls, Grow, Import!Top
<1> QED BY <1>1, <1>2, <1>3 DEF CallOK, Grow, Added, Import!Named

(* The call that runs goes on, and may have called something. *)
SameRole(f, x) ==
  /\ x = Import!Top.of
  /\ \/ f = Import!Top.function
     \/ {f, Import!Top.function} \subseteq {"recursively_add_useful_types", "add_type_to_module"}

LEMMA StackReplace ==
  ASSUME Import!TypeOK, StackInv, ~Import!Idle, Grow, NEW f, NEW x, NEW i,
         SameRole(f, x),
         Import!Call(f, x, i) \in Import!Calls, calls' = Import!GoOn(f, x, i),
         CallOK(Import!Call(f, x, i))', Asked(Import!Call(f, x, i)) \subseteq Covered
  PROVE  StackInv' /\ ~Import!Idle' /\ calls' \in Seq(Import!Calls)
<1> DEFINE e == Import!Call(f, x, i)
<1>1. /\ calls' \in Seq(Import!Calls) /\ Len(calls) \in Nat \ {0}
      /\ Len(calls') = Len(calls) /\ calls'[Len(calls)] = e
      /\ \A k \in 1..Len(calls) : k # Len(calls) => calls'[k] = calls[k]
  BY GoesOn DEF Import!TypeOK
<1>2. e.function = f /\ e.of = x /\ e.next = i BY DEF Import!Call
<1>3. Covered \subseteq Covered' BY CoverGrows DEF Grow
<1>a. \A c : Asked(c)' = Asked(c) BY AskedFixed DEF Grow
<1>b. CallOK(e)' OBVIOUS
<1>c. Asked(e) \subseteq Covered OBVIOUS
<1> HIDE DEF e
<1>4. \A k \in 1..Len(calls') : CallOK(calls[k])'
  <2> SUFFICES ASSUME NEW k \in 1..Len(calls') PROVE CallOK(calls[k])'
    OBVIOUS
  <2>1. CASE k = Len(calls) BY <2>1, <1>1, <1>b DEF CallOK
  <2>2. CASE k # Len(calls)
    <3>1. k \in 1..Len(calls) /\ k < Len(calls) /\ calls'[k] = calls[k]
      BY <2>2, <1>1
    <3> QED BY <3>1, KeepCalls DEF CallOK
  <2> QED BY <2>1, <2>2
<1>5. ASSUME NEW k \in 1..Len(calls'), k < Len(calls')
      PROVE  Called(calls[k], calls[k + 1])'
  <2>1. k \in 1..Len(calls) /\ k + 1 \in 1..Len(calls) /\ calls'[k] = calls[k]
    BY <1>1, <1>5
  <2>2. Called(calls[k], calls[k + 1]) BY <1>1, <1>5, <2>1 DEF StackInv
  <2>3. CASE k + 1 = Len(calls)
    BY <2>1, <2>2, <2>3, <1>1, <1>2, <1>a DEF Called, SameRole, Import!Top
  <2>4. CASE k + 1 # Len(calls)
    BY <2>1, <2>2, <2>4, <1>1, <1>a DEF Called
  <2> QED BY <2>3, <2>4
<1>6. ASSUME NEW k \in 1..Len(calls'), NEW l \in 1..Len(calls'), k < l,
             calls'[k].function \in TypeCalls
      PROVE  calls'[l].function = "InitType"
  <2>1. k \in 1..Len(calls) /\ l \in 1..Len(calls) /\ calls'[k] = calls[k]
    BY <1>1, <1>6
  <2>2. calls[l].function = "InitType" BY <1>6, <2>1 DEF StackInv
  <2> QED BY <1>1, <1>2, <2>1, <2>2 DEF SameRole, Import!Top
<1>7. calls'[1].function = "add_sym_to_module"
  <2>1. 1 \in 1..Len(calls) /\ calls[1].function = "add_sym_to_module"
    BY <1>1 DEF StackInv
  <2> QED BY <1>1, <1>2, <2>1 DEF SameRole, Import!Top
<1>8. ~Import!Idle' BY <1>1 DEF Import!Idle
<1>9. Import!Top' = e BY <1>1 DEF Import!Top
<1> QED BY <1>1, <1>3, <1>4, <1>5, <1>6, <1>7, <1>8, <1>9, <1>a, <1>c DEF StackInv

LEMMA StackPush ==
  ASSUME Import!TypeOK, StackInv, ~Import!Idle, Grow, NEW f, NEW x, NEW i, NEW d,
         SameRole(f, x),
         Import!Call(f, x, i) \in Import!Calls, d \in Import!Calls,
         calls' = Append(Import!GoOn(f, x, i), d),
         CallOK(Import!Call(f, x, i))', CallOK(d)', Asked(d) = {},
         Called(Import!Call(f, x, i), d),
         f \in TypeCalls => d.function = "InitType"
  PROVE  StackInv' /\ ~Import!Idle' /\ calls' \in Seq(Import!Calls)
<1> DEFINE e == Import!Call(f, x, i)
           n == Len(calls)
           s == Import!GoOn(f, x, i)
<1>0. /\ s \in Seq(Import!Calls) /\ n \in Nat \ {0} /\ Len(s) = n /\ s[n] = e
      /\ \A k \in 1..n : k # n => s[k] = calls[k]
  BY GoesOn DEF Import!TypeOK
<1>1. /\ calls' \in Seq(Import!Calls) /\ n \in Nat \ {0}
      /\ Len(calls') = n + 1 /\ calls'[n] = e /\ calls'[n + 1] = d
      /\ \A k \in 1..n : k # n => calls'[k] = calls[k]
  <2>1. calls' = Append(s, d) OBVIOUS
  <2> HIDE DEF s, n, e
  <2> QED BY <1>0, <2>1, AppendProperties
<1>2. e.function = f /\ e.of = x /\ e.next = i BY DEF Import!Call
<1>3. Covered \subseteq Covered' BY CoverGrows DEF Grow
<1>a. \A c : Asked(c)' = Asked(c) BY AskedFixed DEF Grow
<1>b. CallOK(e)' /\ CallOK(d)' OBVIOUS
<1>c. Called(e, d) OBVIOUS
<1> HIDE DEF e, s
<1>4. \A k \in 1..Len(calls') : CallOK(calls[k])'
  <2> SUFFICES ASSUME NEW k \in 1..Len(calls') PROVE CallOK(calls[k])'
    OBVIOUS
  <2>1. CASE k = n BY <2>1, <1>1, <1>b DEF CallOK
  <2>2. CASE k = n + 1 BY <2>2, <1>1, <1>b DEF CallOK
  <2>3. CASE k # n /\ k # n + 1
    <3>1. k \in 1..n /\ k < n /\ calls'[k] = calls[k] BY <2>3, <1>1
    <3> QED BY <3>1, KeepCalls DEF CallOK
  <2> QED BY <2>1, <2>2, <2>3
<1>5. ASSUME NEW k \in 1..Len(calls'), k < Len(calls')
      PROVE  Called(calls[k], calls[k + 1])'
  <2>0. k \in 1..n BY <1>1, <1>5
  <2>1. CASE k = n BY <2>1, <1>1, <1>a, <1>c DEF Called
  <2>2. CASE k < n
    <3>1. k + 1 \in 1..n /\ calls'[k] = calls[k] BY <1>1, <2>0, <2>2
    <3>2. Called(calls[k], calls[k + 1]) BY <2>0, <2>2, <3>1 DEF StackInv
    <3>3. CASE k + 1 = n
      BY <3>1, <3>2, <3>3, <1>1, <1>2, <1>a DEF Called, SameRole, Import!Top
    <3>4. CASE k + 1 # n
      BY <3>1, <3>2, <3>4, <1>1, <1>a DEF Called
    <3> QED BY <3>3, <3>4
  <2> QED BY <1>1, <2>0, <2>1, <2>2
<1>6. ASSUME NEW k \in 1..Len(calls'), NEW l \in 1..Len(calls'), k < l,
             calls'[k].function \in TypeCalls
      PROVE  calls'[l].function = "InitType"
  <2>1. k \in 1..n BY <1>1, <1>6
  <2>2. CASE k = n BY <1>1, <1>2, <1>6, <2>2
  <2>3. CASE k < n
    <3>1. calls'[k] = calls[k] BY <1>1, <2>1, <2>3
    <3>2. n \in 1..n /\ calls[n].function = "InitType"
      BY <1>1, <1>6, <2>1, <2>3, <3>1 DEF StackInv
    <3>3. f = "InitType" BY <3>2 DEF SameRole, Import!Top
    <3>4. d.function = "InitType" BY <3>3 DEF TypeCalls
    <3>5. l < n => calls[l].function = "InitType"
      BY <1>1, <1>6, <2>1, <3>1 DEF StackInv
    <3> QED BY <1>1, <1>2, <1>6, <3>3, <3>4, <3>5
  <2> QED BY <1>1, <2>1, <2>2, <2>3
<1>7. calls'[1].function = "add_sym_to_module"
  <2>1. 1 \in 1..n /\ calls[1].function = "add_sym_to_module"
    BY <1>1 DEF StackInv
  <2> QED BY <1>1, <1>2, <2>1 DEF SameRole, Import!Top
<1>8. ~Import!Idle' BY <1>1 DEF Import!Idle
<1>9. Import!Top' = d BY <1>1 DEF Import!Top
<1> QED BY <1>1, <1>3, <1>4, <1>5, <1>6, <1>7, <1>8, <1>9, <1>a DEF StackInv

(* The call returns.  If it was for a type its caller asked for, that is   *)
(* in the module by now.                                                   *)
LEMMA StackPop ==
  ASSUME Import!TypeOK, StackInv, ~Import!Idle, Grow, calls' = Import!Return,
         Import!Top.function \notin {"InitType", "add_sym_to_module"} =>
           \A c : Asked(c) = {Import!Top.of} => Asked(c) \subseteq Covered'
  PROVE  StackInv' /\ calls' \in Seq(Import!Calls)
<1> DEFINE n == Len(calls)
<1>1. /\ calls' \in Seq(Import!Calls) /\ n \in Nat \ {0} /\ Len(calls') = n - 1
      /\ \A k \in 1..n - 1 : calls'[k] = calls[k]
  BY Returns DEF Import!TypeOK
<1>a. \A c : Asked(c)' = Asked(c) BY AskedFixed DEF Grow
<1>4. \A k \in 1..Len(calls') : CallOK(calls[k])'
  <2> SUFFICES ASSUME NEW k \in 1..Len(calls') PROVE CallOK(calls[k])'
    OBVIOUS
  <2>1. k \in 1..n /\ k < n /\ calls'[k] = calls[k] BY <1>1
  <2> QED BY <2>1, KeepCalls DEF CallOK
<1>5. ASSUME NEW k \in 1..Len(calls'), k < Len(calls')
      PROVE  Called(calls[k], calls[k + 1])'
  <2>1. /\ k \in 1..n /\ k < n /\ k + 1 \in 1..n - 1
        /\ calls'[k] = calls[k] /\ calls'[k + 1] = calls[k + 1]
    BY <1>1, <1>5
  <2>2. Called(calls[k], calls[k + 1]) BY <2>1 DEF StackInv
  <2> QED BY <2>1, <2>2, <1>a DEF Called
<1>6. ASSUME NEW k \in 1..Len(calls'), NEW l \in 1..Len(calls'), k < l,
             calls'[k].function \in TypeCalls
      PROVE  calls'[l].function = "InitType"
  <2>1. k \in 1..n /\ l \in 1..n /\ calls'[k] = calls[k] /\ calls'[l] = calls[l]
    BY <1>1
  <2> QED BY <1>6, <2>1 DEF StackInv
<1>7. ASSUME ~Import!Idle'
      PROVE  calls'[1].function = "add_sym_to_module" /\ Asked(Import!Top)' \subseteq Covered'
  <2>1. n - 1 \in 1..n - 1 /\ 1 \in 1..n - 1 BY <1>1, <1>7 DEF Import!Idle
  <2>2. calls'[1] = calls[1] /\ Import!Top' = calls[n - 1]
    BY <1>1, <2>1 DEF Import!Top
  <2>3. Called(calls[n - 1], calls[n]) BY <1>1, <2>1 DEF StackInv
  <2>4. Asked(calls[n - 1]) \subseteq Covered'
    <3>1. CASE Asked(calls[n - 1]) = {} BY <3>1
    <3>2. CASE Asked(calls[n - 1]) # {}
      <4>1. Import!Top.function \notin {"InitType", "add_sym_to_module"} /\ Asked(calls[n - 1]) = {Import!Top.of}
        BY <2>3, <3>2 DEF Called, Import!Top
      <4> QED BY <4>1
    <3> QED BY <3>1, <3>2
  <2> QED BY <1>1, <1>a, <2>1, <2>2, <2>4 DEF StackInv
<1> QED BY <1>1, <1>4, <1>5, <1>6, <1>7 DEF StackInv

(* The call that runs. *)
LEMMA TopFacts ==
  ASSUME Import!TypeOK, StackInv, ~Import!Idle
  PROVE  /\ Len(calls) \in Nat \ {0} /\ Len(calls) \in 1..Len(calls)
         /\ Import!Top = calls[Len(calls)] /\ Import!Top \in Import!Calls /\ CallOK(Import!Top)
         /\ Asked(Import!Top) \subseteq Covered
         /\ calls[1].function = "add_sym_to_module"
<1>1. Len(calls) \in Nat \ {0} BY DEF Import!TypeOK, Import!Idle
<1>2. Len(calls) \in 1..Len(calls) BY <1>1
<1> QED BY <1>1, <1>2 DEF Import!TypeOK, StackInv, Import!Top

(* Asking for a type that is not rejected. *)
LEMMA GetOrCreateStack ==
  ASSUME Import!TypeOK, StackInv, ~Import!Idle, NEW f, NEW x, NEW i,
         NEW u \in LibraryTypes, SameRole(f, x),
         Import!Call(f, x, i) \in Import!Calls, Import!GetOrCreate(u, Import!GoOn(f, x, i)),
         UNCHANGED <<parts, module, unread>>,
         CallOK(Import!Call(f, x, i))', Asked(Import!Call(f, x, i)) = {}
  PROVE  /\ StackInv' /\ ~Import!Idle' /\ calls' \in Seq(Import!Calls)
         /\ Len(calls) <= Len(calls') /\ calls'[Len(calls)] = Import!Call(f, x, i)
         /\ \A k \in 1..Len(calls) : k # Len(calls) => calls'[k] = calls[k]
<1>1. Grow BY DEF Grow, Import!GetOrCreate
<1> DEFINE e == Import!Call(f, x, i)
           n == Len(calls)
           s == Import!GoOn(f, x, i)
<1>2. /\ s \in Seq(Import!Calls) /\ n \in Nat \ {0} /\ Len(s) = n /\ s[n] = e
      /\ \A k \in 1..n : k # n => s[k] = calls[k]
  BY GoesOn DEF Import!TypeOK
<1>3. CASE calls' = s
  <2>1. StackInv' /\ ~Import!Idle' /\ calls' \in Seq(Import!Calls)
    BY <1>1, <1>3, StackReplace
  <2> HIDE DEF s, e, n
  <2> QED BY <1>2, <1>3, <2>1 DEF e, n
<1>4. CASE calls' = Append(s, Import!Call("InitType", u, 1))
  <2> DEFINE d == Import!Call("InitType", u, 1)
  <2>1. d \in Import!Calls /\ d.function = "InitType" /\ d.of = u
    BY DEF Import!Call, Import!Calls
  <2>2. CallOK(d)' BY <2>1 DEF CallOK, Import!GetOrCreate, Import!Call
  <2>3. Asked(d) = {} /\ Called(e, d) BY <2>1 DEF Asked, Called
  <2> HIDE DEF d
  <2>4. StackInv' /\ ~Import!Idle' /\ calls' \in Seq(Import!Calls)
    <3>1. calls' = Append(Import!GoOn(f, x, i), d) BY <1>4 DEF d
    <3> QED BY <1>1, <3>1, <2>1, <2>2, <2>3, StackPush
  <2>5. calls' = Append(s, d) BY <1>4 DEF d
  <2> HIDE DEF s, e, n
  <2>6. Len(calls') = n + 1 /\ \A k \in 1..n : calls'[k] = s[k]
    BY <1>2, <2>1, <2>5, AppendProperties
  <2>7. n \in 1..n /\ n <= n + 1 BY <1>2
  <2> QED BY <1>2, <2>4, <2>6, <2>7 DEF e, n
<1> QED BY <1>3, <1>4 DEF Import!GetOrCreate

(* What is bound stays bound, a type only to itself. *)
KeepsNames == \A n \in DOMAIN module : module'[n] = module[n] \/ module'[n] \in Symbols

(* Only a symbol takes the name of a symbol, or of a type.                 *)
LEMMA PresentKept ==
  ASSUME Import!TypeOK, Grow, KeepsNames, NEW sym \in Symbols,
         SymbolTypes[sym] \in LibraryTypes, Present(sym)
  PROVE  Present(sym)'
<1>1. Import!Disturbed => Import!Disturbed'
  BY DEF Import!Disturbed, Grow, Import!Unhandled
<1>2. Import!Lost(SymbolTypes[sym]) => Import!Lost(SymbolTypes[sym])'
  BY <1>1, ImportAssumption DEF Import!Lost, Grow, KeepsNames, Import!Assumptions
<1> QED BY <1>2 DEF Present, Grow, KeepsNames, Import!Unhandled

(* What every step but Load has to show of symbols and structs. *)
LEMMA SymbolKept ==
  ASSUME ImportInv, Grow, KeepsNames, ~Import!Idle, todo' = todo, StackInv',
         calls' \in Seq(Import!Calls),
         Len(calls) > 1 => ~Import!Idle' /\ calls'[1] = calls[1],
         Len(calls) = 1 => \/ ~Import!Idle' /\ calls'[1].of = calls[1].of
                           \/ \A sym \in Symbols : calls[1].of = sym => Present(sym)'
  PROVE  SymbolInv'
<1> SUFFICES ASSUME NEW sym \in Symbols \ todo, SymbolTypes[sym] # NULL
             PROVE  /\ \/ SymbolTypes[sym] \in Covered'
                       \/ Len(calls') > 1 /\ calls'[1].of = sym /\ calls'[1].next = 0
                    /\ Present(sym)' \/ (~Import!Idle' /\ calls'[1].of = sym)
  BY DEF SymbolInv
<1>1. Len(calls) \in Nat \ {0} /\ Len(calls') \in Nat /\ (~Import!Idle' => Len(calls') # 0)
  BY DEF ImportInv, Import!TypeOK, Import!Idle
<1>2. Covered \subseteq Covered' BY CoverGrows DEF Grow
<1>3. SymbolTypes[sym] \in LibraryTypes BY ImportAssumption DEF Import!Assumptions
<1>4. /\ \/ SymbolTypes[sym] \in Covered
         \/ Len(calls) > 1 /\ calls[1].of = sym /\ calls[1].next = 0
      /\ Present(sym) \/ calls[1].of = sym
  BY DEF ImportInv, SymbolInv
<1>5. ASSUME Len(calls) > 1, calls[1].of = sym, calls[1].next = 0,
             ~(Len(calls') > 1)
      PROVE  SymbolTypes[sym] \in Covered'
  <2>1. ~Import!Idle' /\ calls'[1] = calls[1] /\ Len(calls') = 1
    <3>1. \A n \in Nat : n # 0 /\ ~(n > 1) => n = 1 OBVIOUS
    <3> QED BY <1>1, <1>5, <3>1, Zenon
  <2>2. Asked(Import!Top)' \subseteq Covered' BY <2>1 DEF StackInv
  <2>3. calls[1].function = "add_sym_to_module" BY TopFacts DEF ImportInv
  <2>4. Asked(Import!Top)' = {SymbolTypes[sym]}
    BY <1>5, <2>1, <2>3 DEF Asked, Import!Top
  <2> QED BY <2>2, <2>4
<1>6. ASSUME Present(sym) PROVE Present(sym)'
  <2>1. Import!TypeOK BY DEF ImportInv
  <2> QED BY <1>3, <1>6, <2>1, PresentKept
<1>7. Len(calls) > 1 \/ Len(calls) = 1
  <2>1. \A n \in Nat \ {0} : n > 1 \/ n = 1 OBVIOUS
  <2> QED BY <1>1, <2>1, Zenon
<1>8. calls[1].of = sym => Present(sym)' \/ (~Import!Idle' /\ calls'[1].of = sym)
  BY <1>1, <1>7
<1> QED BY <1>1, <1>2, <1>4, <1>5, <1>6, <1>7, <1>8

Looping(t) ==
  \E k \in 1..Len(calls) : /\ calls[k].function = "recursively_add_useful_types"
                           /\ calls[k].of = t /\ calls[k].next # 0

LEMMA StructKept ==
  ASSUME ImportInv, Grow,
         \A t \in LibraryTypes : Looping(t) => Looping(t)'
           \/ \A i \in DOMAIN parts[t] : parts[t][i] \in Covered',
         \A t \in LibraryTypes :
           LibraryKind[t] = "struct" /\ ~Import!SharesName(t) /\ Added(t)' =>
           Added(t) \/ Looping(t)'
  PROVE  StructInv'
<1> SUFFICES ASSUME NEW t \in LibraryTypes, LibraryKind[t] = "struct", ~Import!SharesName(t)', Added(t)'
             PROVE  (\A i \in DOMAIN parts[t] : parts[t][i] \in Covered') \/ Looping(t)'
  BY DEF StructInv, Grow, Looping
<1>1. ~Import!SharesName(t) BY DEF Import!SharesName, Import!Named
<1>2. Covered \subseteq Covered' BY CoverGrows DEF Grow
<1>3. Added(t) => (\A i \in DOMAIN parts[t] : parts[t][i] \in Covered) \/ Looping(t)
  BY <1>1 DEF ImportInv, StructInv, Looping
<1> QED BY <1>1, <1>2, <1>3

(* A call that goes on in its loop, or returns from it when it is done. *)
LEMMA LoopGoesOn ==
  ASSUME Import!TypeOK, StackInv, ~Import!Idle, NEW f, NEW x, NEW i, SameRole(f, x),
         Len(calls) <= Len(calls'), calls' \in Seq(Import!Calls),
         calls'[Len(calls)] = Import!Call(f, x, i),
         \A k \in 1..Len(calls) : k # Len(calls) => calls'[k] = calls[k],
         Import!Top.function = "recursively_add_useful_types" /\ Import!Top.next # 0 =>
           f = "recursively_add_useful_types" /\ i # 0
  PROVE  \A t : Looping(t) => Looping(t)'
<1> SUFFICES ASSUME NEW t, NEW k \in 1..Len(calls),
                    calls[k].function = "recursively_add_useful_types",
                    calls[k].of = t, calls[k].next # 0
             PROVE  Looping(t)'
  BY DEF Looping
<1>1. Len(calls) \in Nat \ {0} /\ Len(calls') \in Nat /\ k \in 1..Len(calls')
  BY TopFacts
<1>2. CASE k = Len(calls)
  <2>1. calls'[k].function = f /\ calls'[k].of = x /\ calls'[k].next = i
    BY <1>2 DEF Import!Call
  <2> QED BY <1>1, <1>2, <2>1 DEF Looping, SameRole, Import!Top
<1>3. CASE k # Len(calls)
  <2>1. calls'[k] = calls[k] BY <1>3
  <2> QED BY <1>1, <2>1 DEF Looping
<1> QED BY <1>2, <1>3

LEMMA LoopReturns ==
  ASSUME Import!TypeOK, StackInv, ~Import!Idle, Grow, calls' = Import!Return,
         Import!Top.function = "recursively_add_useful_types" /\ Import!Top.next # 0 =>
           \A i \in DOMAIN parts[Import!Top.of] : parts[Import!Top.of][i] \in Covered'
  PROVE  \A t : Looping(t) => Looping(t)'
           \/ \A i \in DOMAIN parts[t] : parts[t][i] \in Covered'
<1> SUFFICES ASSUME NEW t, NEW k \in 1..Len(calls),
                    calls[k].function = "recursively_add_useful_types",
                    calls[k].of = t, calls[k].next # 0
             PROVE  Looping(t)'
                      \/ \A i \in DOMAIN parts[t] : parts[t][i] \in Covered'
  BY DEF Looping
<1>1. /\ Len(calls) \in Nat \ {0} /\ Len(calls') = Len(calls) - 1
      /\ \A j \in 1..Len(calls) - 1 : calls'[j] = calls[j]
  BY Returns DEF Import!TypeOK
<1>2. CASE k = Len(calls) BY <1>2 DEF Import!Top
<1>3. CASE k # Len(calls)
  <2>1. k \in 1..Len(calls') /\ calls'[k] = calls[k] BY <1>1, <1>3
  <2> QED BY <2>1 DEF Looping
<1> QED BY <1>2, <1>3

-----------------------------------------------------------------------------
(* One step per action. *)

LEMMA ImportInit == Import!Init => ImportInv
<1> SUFFICES ASSUME Import!Init PROVE ImportInv
  OBVIOUS
<1>1. Import!TypeOK
  <2>1. <<>> \in Seq(Import!Calls) /\ DOMAIN <<>> = {} OBVIOUS
  <2> QED BY <2>1 DEF Import!Init, Import!TypeOK
<1>2. Len(calls) = 0 /\ Import!Idle BY DEF Import!Init, Import!Idle
<1>3. StackInv BY <1>2 DEF StackInv
<1>4. SymbolInv BY DEF Import!Init, SymbolInv
<1>5. StructInv
  <2>1. DOMAIN module = {} BY DEF Import!Init
  <2> QED BY <2>1 DEF StructInv, Added
<1>6. Import!NothingPending /\ Import!OnlyUnhandledSkipped
  BY DEF Import!Init, Import!NothingPending, Import!OnlyUnhandledSkipped
<1> QED BY <1>1, <1>3, <1>4, <1>5, <1>6 DEF ImportInv

(* What an action has to show that leaves the module alone. *)
LEMMA SameModule ==
  ASSUME ImportInv, ~Import!Idle, UNCHANGED <<parts, todo, module>>,
         types \subseteq types',
         types' \subseteq LibraryTypes, error' \in BOOLEAN, bare' \subseteq types',
         unread \subseteq unread', unread' \subseteq UnreadableSymbols,
         StackInv', calls' \in Seq(Import!Calls),
         Len(calls) > 1 => ~Import!Idle' /\ calls'[1] = calls[1],
         Len(calls) = 1 => \/ ~Import!Idle' /\ calls'[1].of = calls[1].of
                           \/ \A sym \in Symbols : calls[1].of = sym => Present(sym)',
         \A t \in LibraryTypes : Looping(t) => Looping(t)'
           \/ \A i \in DOMAIN parts[t] : parts[t][i] \in Covered',
         error' => Import!Disturbed',
         \A m \in skipped' \ skipped :
           /\ m[1] \in types /\ m[2] \in DOMAIN parts[m[1]]
           /\ LET u == parts[m[1]][m[2]]
              IN  Import!Unhandled(u) \/ (LibraryKind[u] = "base" /\ Import!Disturbed')
  PROVE  ImportInv'
<1>1. Grow BY DEF Grow
<1>2. KeepsNames BY DEF KeepsNames
<1>3. SymbolInv' BY <1>1, <1>2, SymbolKept
<1>4. StructInv'
  <2>1. \A t \in LibraryTypes : Added(t)' => Added(t) BY DEF Added
  <2> QED BY <1>1, <2>1, StructKept
<1>5. Import!TypeOK' BY DEF ImportInv, Import!TypeOK
<1>6. Import!Disturbed => Import!Disturbed'
  BY DEF Import!Disturbed, Import!Unhandled
<1>7. Import!NothingPending' BY DEF Import!NothingPending
<1>8. Import!OnlyUnhandledSkipped'
  <2> SUFFICES ASSUME NEW m \in skipped'
               PROVE  LET u == parts[m[1]][m[2]]
                      IN  Import!Unhandled(u) \/ (LibraryKind[u] = "base" /\ Import!Disturbed')
    BY DEF Import!OnlyUnhandledSkipped, Import!Unhandled
  <2>1. CASE m \in skipped BY <1>6, <2>1 DEF ImportInv, Import!OnlyUnhandledSkipped
  <2>2. CASE m \notin skipped BY <2>2
  <2> QED BY <2>1, <2>2
<1> QED BY <1>3, <1>4, <1>5, <1>7, <1>8 DEF ImportInv

(* The call for the symbol is the first, and calls no other such call. *)
LEMMA SymbolCallFirst ==
  ASSUME Import!TypeOK, StackInv, ~Import!Idle
  PROVE  Import!Top.function = "add_sym_to_module" <=> Len(calls) = 1
<1>1. Len(calls) \in Nat \ {0} /\ Import!Top = calls[Len(calls)] /\ calls[1].function = "add_sym_to_module"
  BY TopFacts
<1>2. CASE Len(calls) = 1 BY <1>1, <1>2
<1>3. CASE Len(calls) # 1
  <2>0. \A n \in Nat \ {0} : n # 1 => n - 1 \in 1..n /\ n - 1 < n /\ n - 1 + 1 = n
    OBVIOUS
  <2>1. PICK k \in 1..Len(calls) : k < Len(calls) /\ k + 1 = Len(calls)
    BY <1>1, <1>3, <2>0, Zenon
  <2>2. Called(calls[k], calls[k + 1]) BY <2>1 DEF StackInv
  <2> QED BY <1>1, <1>3, <2>1, <2>2 DEF Called
<1> QED BY <1>2, <1>3

LEMMA RunningFacts ==
  ASSUME ImportInv, NEW t \in LibraryTypes, NEW f, Import!Running(f, t),
         f # "add_sym_to_module"
  PROVE  /\ ~Import!Idle /\ Import!Top.function = f /\ Import!Top.of = t
         /\ Import!Top.next \in Nat /\ CallOK(Import!Top)
         /\ Len(calls) \in Nat \ {0} /\ Len(calls) # 1
         /\ f \in {"recursively_add_useful_types", "add_type_to_module", "InitType"}
<1>1. ~Import!Idle /\ Import!Top.function = f /\ Import!Top.of = t
  BY DEF Import!Running
<1>2. Import!Top \in Import!Calls /\ CallOK(Import!Top) /\ Len(calls) \in Nat \ {0}
  BY <1>1, TopFacts DEF ImportInv
<1>3. /\ Import!Top.next \in Nat
      /\ f \in {"recursively_add_useful_types", "add_type_to_module", "InitType"}
  BY <1>1, <1>2 DEF Import!Calls
<1> QED BY <1>1, <1>2, <1>3, SymbolCallFirst DEF ImportInv

(* What replacing or adding a call at the end leaves alone. *)
LEMMA FirstKept ==
  ASSUME Import!TypeOK, Len(calls) \in Nat \ {0}, Len(calls) # 1, ~Import!Idle',
         \A k \in 1..Len(calls) : k # Len(calls) => calls'[k] = calls[k]
  PROVE  Len(calls) > 1 => ~Import!Idle' /\ calls'[1] = calls[1]
<1>1. 1 \in 1..Len(calls) BY SMT
<1> QED BY <1>1

LEMMA ReturnKeepsFirst ==
  ASSUME Import!TypeOK, Len(calls) \in Nat \ {0}, Len(calls) # 1, ~Import!Idle,
         calls' = Import!Return
  PROVE  Len(calls) > 1 => ~Import!Idle' /\ calls'[1] = calls[1]
<1>1. /\ calls' \in Seq(Import!Calls) /\ Len(calls') = Len(calls) - 1
      /\ \A k \in 1..Len(calls) - 1 : calls'[k] = calls[k]
  BY Returns DEF Import!TypeOK
<1>2. \A n \in Nat \ {0} : n # 1 => 1 \in 1..n - 1 /\ n - 1 # 0 OBVIOUS
<1>3. 1 \in 1..Len(calls) - 1 /\ Len(calls') # 0 BY <1>1, <1>2, Zenon
<1>4. ~Import!Idle' BY <1>3 DEF Import!Idle
<1> QED BY <1>1, <1>3, <1>4

LEMMA ImportInitMember ==
  ASSUME ImportInv, NEW t \in LibraryTypes, Import!InitMember(t)
  PROVE  ImportInv'
<1>1. PICK i \in Nat : i = Import!Top.next BY RunningFacts DEF Import!InitMember
<1>2. /\ Import!Running("InitType", t) /\ i \in DOMAIN parts[t]
      /\ Import!GetOrCreate(parts[t][i], Import!GoOn("InitType", t, i + 1))
      /\ UNCHANGED <<parts, todo, module, bare, skipped, unread, error>>
  BY <1>1 DEF Import!InitMember
<1>3. /\ ~Import!Idle /\ Import!Top.function = "InitType" /\ Import!Top.of = t
      /\ CallOK(Import!Top)
      /\ Len(calls) \in Nat \ {0} /\ Len(calls) # 1
  BY <1>2, RunningFacts
<1> DEFINE e == Import!Call("InitType", t, i + 1)
<1>4. /\ e \in Import!Calls /\ e.function = "InitType" /\ e.of = t
  BY DEF Import!Call, Import!Calls
<1>5. /\ parts[t][i] \in LibraryTypes /\ types' = types \cup {parts[t][i]}
      /\ types \subseteq LibraryTypes
  BY <1>2, PartsFacts DEF ImportInv, Import!TypeOK, Import!GetOrCreate
<1>6. CallOK(e)' /\ Asked(e) = {}
  BY <1>2, <1>3, <1>4, <1>5 DEF CallOK, Asked
<1>7. SameRole("InitType", t) BY <1>3 DEF SameRole
<1>8. /\ StackInv' /\ ~Import!Idle' /\ calls' \in Seq(Import!Calls)
      /\ Len(calls) <= Len(calls') /\ calls'[Len(calls)] = e
      /\ \A k \in 1..Len(calls) : k # Len(calls) => calls'[k] = calls[k]
  BY <1>2, <1>3, <1>4, <1>5, <1>6, <1>7, GetOrCreateStack DEF ImportInv
<1>9. \A u : Looping(u) => Looping(u)'
  BY <1>3, <1>7, <1>8, LoopGoesOn DEF ImportInv
<1>10. Import!Disturbed => Import!Disturbed'
  BY <1>2, <1>5 DEF Import!Disturbed, Import!Unhandled
<1>11. error' \in BOOLEAN /\ (error' => Import!Disturbed')
  BY <1>2, <1>10 DEF ImportInv, Import!TypeOK, Import!NothingPending
<1>12. Len(calls) > 1 => ~Import!Idle' /\ calls'[1] = calls[1]
  BY <1>3, <1>8, FirstKept DEF ImportInv
<1>z. /\ bare' \subseteq types' /\ unread \subseteq unread'
      /\ unread' \subseteq UnreadableSymbols
  BY <1>2, <1>5 DEF ImportInv, Import!TypeOK
<1> QED BY <1>2, <1>3, <1>5, <1>8, <1>9, <1>11, <1>12, <1>z, SameModule

(* The loop of InitType goes on without a type for a member. *)
LEMMA ImportNoMember ==
  ASSUME ImportInv, NEW t \in LibraryTypes,
         Import!SkipMember(t) \/ Import!LosePointee(t) PROVE ImportInv'
<1>1. PICK i \in Nat : i = Import!Top.next
  BY RunningFacts DEF Import!SkipMember, Import!LosePointee
<1>2. /\ Import!Running("InitType", t) /\ i \in DOMAIN parts[t]
      /\ Import!Rejected(parts[t][i])
      /\ calls' = Import!GoOn("InitType", t, i + 1)
      /\ UNCHANGED <<parts, todo, module, types, unread>>
      /\ bare' \in {bare, bare \cup {t}}
      /\ \/ error' = FALSE /\ skipped' = skipped \cup {<<t, i>>}
         \/ LibraryKind[t] = "pointer" /\ error' = TRUE /\ skipped' = skipped
  BY <1>1 DEF Import!SkipMember, Import!LosePointee
<1>3. /\ ~Import!Idle /\ Import!Top.function = "InitType" /\ Import!Top.of = t
      /\ CallOK(Import!Top)
      /\ Len(calls) \in Nat \ {0} /\ Len(calls) # 1
  BY <1>2, RunningFacts
<1> DEFINE e == Import!Call("InitType", t, i + 1)
<1>4. /\ e \in Import!Calls /\ e.function = "InitType" /\ e.of = t
  BY DEF Import!Call, Import!Calls
<1>5. /\ t \in types /\ types \subseteq LibraryTypes
  BY <1>3 DEF ImportInv, Import!TypeOK, CallOK
<1>6. CallOK(e)' /\ Asked(e) = {}
  BY <1>2, <1>3, <1>4, <1>5 DEF CallOK, Asked
<1>7. SameRole("InitType", t) BY <1>3 DEF SameRole
<1>8. /\ StackInv' /\ ~Import!Idle' /\ calls' \in Seq(Import!Calls)
      /\ Len(calls) <= Len(calls') /\ calls'[Len(calls)] = e
      /\ \A k \in 1..Len(calls) : k # Len(calls) => calls'[k] = calls[k]
  <2>1. Grow BY <1>2 DEF Grow
  <2>2. StackInv' /\ ~Import!Idle' /\ calls' \in Seq(Import!Calls)
    BY <2>1, <1>2, <1>3, <1>4, <1>6, <1>7, StackReplace DEF ImportInv
  <2> QED BY <2>2, <1>2, <1>3, <1>4, GoesOn DEF ImportInv, Import!TypeOK
<1>9. \A u : Looping(u) => Looping(u)'
  BY <1>3, <1>7, <1>8, LoopGoesOn DEF ImportInv
<1>10. Import!Disturbed <=> Import!Disturbed'
  BY <1>2 DEF Import!Disturbed, Import!Unhandled
<1>11. \/ Import!Unhandled(parts[t][i])
       \/ LibraryKind[parts[t][i]] = "base" /\ Import!Disturbed
  BY <1>2 DEF Import!Rejected, ImportInv, Import!NothingPending
<1>12. error' \in BOOLEAN /\ (error' => Import!Disturbed')
  <2>1. ASSUME LibraryKind[t] = "pointer" PROVE Import!Disturbed
    <3>1. i = 1 BY <1>2, <2>1, PartsFacts DEF ImportInv
    <3> QED BY <1>5, <1>11, <2>1, <3>1 DEF Import!Disturbed
  <2> QED BY <1>2, <1>10, <2>1
<1>13. \A m \in skipped' \ skipped :
         /\ m[1] \in types /\ m[2] \in DOMAIN parts[m[1]]
         /\ LET u == parts[m[1]][m[2]]
            IN  Import!Unhandled(u) \/ (LibraryKind[u] = "base" /\ Import!Disturbed')
  <2> SUFFICES ASSUME NEW m \in skipped' \ skipped
               PROVE  /\ m[1] \in types /\ m[2] \in DOMAIN parts[m[1]]
                      /\ \/ Import!Unhandled(parts[m[1]][m[2]])
                         \/ (LibraryKind[parts[m[1]][m[2]]] = "base" /\ Import!Disturbed')
    OBVIOUS
  <2>1. m = <<t, i>> BY <1>2
  <2>2. m[1] = t /\ m[2] = i BY <2>1
  <2> QED BY <1>2, <1>5, <1>10, <1>11, <2>2
<1>14. Len(calls) > 1 => ~Import!Idle' /\ calls'[1] = calls[1]
  BY <1>3, <1>8, FirstKept DEF ImportInv
<1>z. /\ bare' \subseteq types' /\ unread \subseteq unread'
      /\ unread' \subseteq UnreadableSymbols
  BY <1>2, <1>5 DEF ImportInv, Import!TypeOK
<1> QED BY <1>2, <1>3, <1>5, <1>8, <1>9, <1>12, <1>13, <1>14, <1>z, SameModule

LEMMA ImportEndInitType ==
  ASSUME ImportInv, NEW t \in LibraryTypes, Import!EndInitType(t)
  PROVE  ImportInv'
<1>1. /\ ~Import!Idle /\ Import!Top.function = "InitType" /\ Import!Top.of = t
      /\ Len(calls) \in Nat \ {0} /\ Len(calls) # 1
  BY RunningFacts DEF Import!EndInitType
<1>2. /\ calls' = Import!Return
      /\ UNCHANGED <<parts, todo, module, types, bare, skipped, unread, error>>
  BY DEF Import!EndInitType
<1>3. Grow BY <1>2 DEF Grow
<1>4. StackInv' /\ calls' \in Seq(Import!Calls)
  BY <1>1, <1>2, <1>3, StackPop DEF ImportInv
<1>5. Len(calls) > 1 => ~Import!Idle' /\ calls'[1] = calls[1]
  BY <1>1, <1>2, ReturnKeepsFirst DEF ImportInv
<1>6. \A u \in LibraryTypes : Looping(u) => Looping(u)'
        \/ \A i \in DOMAIN parts[u] : parts[u][i] \in Covered'
  BY <1>1, <1>2, <1>3, LoopReturns DEF ImportInv
<1>7. error' \in BOOLEAN /\ (error' => Import!Disturbed') /\ types' \subseteq LibraryTypes
  BY <1>2
     DEF ImportInv, Import!TypeOK, Import!NothingPending, Import!Disturbed,
         Import!Unhandled
<1>z. /\ bare' \subseteq types' /\ unread \subseteq unread'
      /\ unread' \subseteq UnreadableSymbols
  BY <1>2 DEF ImportInv, Import!TypeOK
<1> QED BY <1>1, <1>2, <1>4, <1>5, <1>6, <1>7, <1>z, SameModule

(* add_type_to_module, for a name the module has or has not. *)
LEMMA ImportAddType ==
  ASSUME ImportInv, NEW t \in LibraryTypes, Import!AddType(t)
  PROVE  ImportInv'
<1>1. /\ ~Import!Idle /\ Import!Top.function = "recursively_add_useful_types"
      /\ Import!Top.of = t
      /\ CallOK(Import!Top) /\ Len(calls) \in Nat \ {0} /\ Len(calls) # 1
  BY RunningFacts DEF Import!AddType
<1>2. Import!Top.next = 0 /\ UNCHANGED <<parts, todo, module, bare, skipped, unread>>
  BY DEF Import!AddType
<1>z. types \subseteq types'
  BY DEF Import!AddType, Import!GetOrCreate
<1>y. /\ bare' \subseteq types' /\ unread \subseteq unread'
      /\ unread' \subseteq UnreadableSymbols
  BY <1>2, <1>z DEF ImportInv, Import!TypeOK
<1>3. Import!Named(t) \/ LibraryKind[t] = "unsupported" BY <1>1, <1>2 DEF CallOK
<1>4. CASE /\ Added(t) \/ ~Import!Named(t)
           /\ calls' = Import!Return /\ UNCHANGED types /\ (error' = error \/ error' = FALSE)
  <2>1. Grow BY <1>2, <1>4 DEF Grow
  <2>2. t \in Covered'
    <3>1. ASSUME Import!Named(t) PROVE t \in Covered BY <1>4, <3>1, CoverNamed
    <3>2. ASSUME ~Import!Named(t) PROVE t \in Covered
      <4>1. DOMAIN parts[t] = {} BY <1>3, <3>2, PartsFacts DEF ImportInv
      <4> QED BY <3>2, <4>1, CoverParts
    <3> QED BY <2>1, <3>1, <3>2, CoverGrows DEF Grow
  <2>3. StackInv' /\ calls' \in Seq(Import!Calls)
    BY <1>1, <1>4, <2>1, <2>2, StackPop DEF ImportInv
  <2>4. Len(calls) > 1 => ~Import!Idle' /\ calls'[1] = calls[1]
    BY <1>1, <1>4, ReturnKeepsFirst DEF ImportInv
  <2>5. \A u \in LibraryTypes : Looping(u) => Looping(u)'
          \/ \A i \in DOMAIN parts[u] : parts[u][i] \in Covered'
    BY <1>1, <1>2, <1>4, <2>1, LoopReturns DEF ImportInv
  <2>6. error' \in BOOLEAN /\ (error' => Import!Disturbed') /\ types' \subseteq LibraryTypes
    <3>1. Import!Disturbed => Import!Disturbed'
      BY <1>2, <1>4 DEF Import!Disturbed, Import!Unhandled
    <3>2. error \in BOOLEAN /\ (error => Import!Disturbed) /\ types' \subseteq LibraryTypes
      BY <1>4 DEF ImportInv, Import!TypeOK, Import!NothingPending
    <3>3. CASE error' = error BY <3>1, <3>2, <3>3
    <3>4. CASE error' = FALSE BY <3>2, <3>4
    <3> QED BY <1>4, <3>3, <3>4
  <2> QED BY <1>1, <1>2, <1>4, <1>y, <2>3, <2>4, <2>5, <2>6, SameModule
<1>5. CASE /\ ~Added(t) /\ Import!Named(t)
           /\ Import!GetOrCreate(t, Import!GoOn("add_type_to_module", t, 0))
           /\ error' = FALSE
  <2> DEFINE e == Import!Call("add_type_to_module", t, 0)
  <2>1. e \in Import!Calls /\ e.function = "add_type_to_module" /\ e.of = t
    BY DEF Import!Call, Import!Calls
  <2>2. types' = types \cup {t} /\ types' \subseteq LibraryTypes
    BY <1>5 DEF ImportInv, Import!TypeOK, Import!GetOrCreate
  <2>3. CallOK(e)' /\ Asked(e) = {}
    BY <1>2, <1>5, <2>1, <2>2 DEF CallOK, Asked, Added, Import!Named
  <2>4. SameRole("add_type_to_module", t) BY <1>1 DEF SameRole
  <2>5. /\ StackInv' /\ ~Import!Idle' /\ calls' \in Seq(Import!Calls)
        /\ Len(calls) <= Len(calls') /\ calls'[Len(calls)] = e
        /\ \A k \in 1..Len(calls) : k # Len(calls) => calls'[k] = calls[k]
    BY <1>1, <1>2, <1>5, <2>1, <2>3, <2>4, GetOrCreateStack DEF ImportInv
  <2>6. \A u : Looping(u) => Looping(u)'
    BY <1>1, <1>2, <2>4, <2>5, LoopGoesOn DEF ImportInv
  <2>7. Len(calls) > 1 => ~Import!Idle' /\ calls'[1] = calls[1]
    BY <1>1, <2>5, FirstKept DEF ImportInv
  <2> QED BY <1>1, <1>2, <1>5, <1>y, <2>2, <2>5, <2>6, <2>7, SameModule
<1> QED
  BY <1>3, <1>4, <1>5 DEF Import!AddType, Added, Import!Unhandled, Import!Named

LEMMA ImportEndAddType ==
  ASSUME ImportInv, NEW t \in LibraryTypes, Import!EndAddType(t)
  PROVE  ImportInv'
<1>1. /\ ~Import!Idle /\ Import!Top.function = "add_type_to_module"
      /\ Import!Top.of = t
      /\ CallOK(Import!Top) /\ Len(calls) \in Nat \ {0} /\ Len(calls) # 1
  BY RunningFacts DEF Import!EndAddType
<1>2. /\ UNCHANGED <<parts, todo, types, bare, skipped, unread, error>>
      /\ Import!Bind(TypeNames[t], t)
      /\ calls' = Import!GoOn("recursively_add_useful_types", t, 1)
  BY DEF Import!EndAddType
<1>3. Import!Named(t) /\ t \in types /\ ~Added(t) BY <1>1 DEF CallOK
<1>4. /\ DOMAIN module' = DOMAIN module \cup {TypeNames[t]}
      /\ module'[TypeNames[t]] = t
      /\ \A n \in DOMAIN module : module'[n] = module[n]
  BY <1>2, <1>3 DEF Import!Bind, Added
<1>5. Grow /\ KeepsNames BY <1>1, <1>2, <1>4 DEF Grow, KeepsNames
<1> DEFINE e == Import!Call("recursively_add_useful_types", t, 1)
<1>6. /\ e \in Import!Calls /\ e.function = "recursively_add_useful_types"
      /\ e.of = t /\ e.next = 1
  BY DEF Import!Call, Import!Calls
<1>7. DOMAIN parts[t] = 1..Len(parts[t]) /\ \A i \in DOMAIN parts[t] : i \in Nat \ {0}
  BY PartsFacts DEF ImportInv
<1>8. CallOK(e)' /\ Asked(e) = {}
  <2>1. Added(t)' BY <1>4 DEF Added
  <2>2. 1 - 1 = 0 /\ 0 \notin DOMAIN parts[t] /\ \A i \in DOMAIN parts[t] : ~(i < 0)
    BY <1>7
  <2>3. Asked(e) = {} BY <1>6, <2>2 DEF Asked
  <2>4. CallOK(e)' BY <1>2, <1>3, <1>6, <2>1, <2>2 DEF CallOK, Import!Named
  <2> QED BY <2>3, <2>4
<1>9. SameRole("recursively_add_useful_types", t) BY <1>1 DEF SameRole
<1>10. /\ StackInv' /\ ~Import!Idle' /\ calls' \in Seq(Import!Calls)
       /\ Len(calls') = Len(calls) /\ calls'[Len(calls)] = e
       /\ \A k \in 1..Len(calls) : k # Len(calls) => calls'[k] = calls[k]
  <2>1. StackInv' /\ ~Import!Idle' /\ calls' \in Seq(Import!Calls)
    BY <1>1, <1>2, <1>5, <1>6, <1>8, <1>9, StackReplace DEF ImportInv
  <2> QED BY <2>1, <1>1, <1>2, <1>6, GoesOn DEF ImportInv, Import!TypeOK
<1>11. SymbolInv'
  <2>1. Len(calls) > 1 => ~Import!Idle' /\ calls'[1] = calls[1]
    BY <1>1, <1>10, FirstKept DEF ImportInv
  <2> QED BY <1>1, <1>2, <1>5, <1>10, <2>1, SymbolKept
<1>12. StructInv'
  <2>1. \A u : Looping(u) => Looping(u)'
    BY <1>1, <1>9, <1>10, LoopGoesOn DEF ImportInv
  <2>2. Looping(t)'
    <3>1. Len(calls) \in 1..Len(calls') BY <1>1, <1>10
    <3> QED BY <1>6, <1>10, <3>1 DEF Looping
  <2>3. ASSUME NEW u \in LibraryTypes, LibraryKind[u] = "struct",
               ~Import!SharesName(u), Added(u)'
        PROVE  Added(u) \/ Looping(u)'
    <3>1. CASE u = t BY <2>2, <3>1
    <3>2. CASE u # t
      <4>1. TypeNames[u] # TypeNames[t] BY <1>3, <2>3, <3>2 DEF Import!SharesName
      <4> QED BY <1>4, <2>3, <4>1 DEF Added
    <3> QED BY <3>1, <3>2
  <2> QED BY <1>5, <2>1, <2>3, StructKept
<1>13. Import!TypeOK'
  <2>1. \A n \in DOMAIN module' : \/ module'[n] \in types' /\ TypeNames[module'[n]] = n
                                  \/ module'[n] \in Symbols /\ SymbolNames[module'[n]] = n
    BY <1>2, <1>3, <1>4 DEF ImportInv, Import!TypeOK
  <2> QED BY <1>2, <1>10, <2>1 DEF ImportInv, Import!TypeOK
<1>14. Import!NothingPending' /\ Import!OnlyUnhandledSkipped'
  BY <1>2
     DEF ImportInv, Import!NothingPending, Import!OnlyUnhandledSkipped,
         Import!Disturbed, Import!Unhandled
<1> QED BY <1>10, <1>11, <1>12, <1>13, <1>14 DEF ImportInv

(* A call of recursively_add_useful_types begins well. *)
LEMMA UsefulCall ==
  ASSUME Import!TypeOK, NEW u \in LibraryTypes
  PROVE  LET d == Import!AddUseful(u)
         IN  /\ d \in Import!Calls /\ d.function = "recursively_add_useful_types" /\ d.of = u
             /\ CallOK(d) /\ Asked(d) = {}
<1> DEFINE i == IF Import!Named(u) \/ LibraryKind[u] = "unsupported" THEN 0 ELSE 1
           d == Import!AddUseful(u)
<1>1. /\ d \in Import!Calls /\ d.function = "recursively_add_useful_types"
      /\ d.of = u /\ d.next = i
      /\ i \in {0, 1} /\ (i = 0 => Import!Named(u) \/ LibraryKind[u] = "unsupported")
      /\ (Import!Named(u) => i = 0)
  BY DEF Import!AddUseful, Import!Call, Import!Calls
<1>2. \A j \in DOMAIN parts[u] : j \in Nat \ {0} BY PartsFacts
<1> HIDE DEF i, d
<1>3. i - 1 \notin DOMAIN parts[u] /\ \A j \in DOMAIN parts[u] : ~(j < i - 1)
  BY <1>1, <1>2
<1>4. Asked(d) = {} BY <1>1, <1>3 DEF Asked
<1>5. CallOK(d) BY <1>1, <1>3 DEF CallOK
<1> QED BY <1>1, <1>4, <1>5 DEF d

LEMMA ImportAddPart ==
  ASSUME ImportInv, NEW t \in LibraryTypes, Import!AddPart(t)
  PROVE  ImportInv'
<1> DEFINE f == "recursively_add_useful_types"
<1>1. PICK i \in Nat : i = Import!Top.next BY RunningFacts DEF Import!AddPart
<1>2. /\ Import!Running(f, t) /\ i \in DOMAIN parts[t]
      /\ calls' = Append(Import!GoOn(f, t, i + 1), Import!AddUseful(parts[t][i]))
      /\ UNCHANGED <<parts, todo, module, types, bare, skipped, unread, error>>
  BY <1>1 DEF Import!AddPart
<1>3. /\ ~Import!Idle /\ Import!Top.function = f /\ Import!Top.of = t
      /\ CallOK(Import!Top) /\ Asked(Import!Top) \subseteq Covered
      /\ Len(calls) \in Nat \ {0} /\ Len(calls) # 1
  BY <1>2, RunningFacts, TopFacts DEF ImportInv
<1>4. i # 0 /\ parts[t][i] \in LibraryTypes /\ \A j \in DOMAIN parts[t] : j \in Nat
  BY <1>2, PartsFacts DEF ImportInv
<1> DEFINE e == Import!Call(f, t, i + 1)
           d == Import!AddUseful(parts[t][i])
<1>5. e \in Import!Calls /\ e.function = f /\ e.of = t /\ e.next = i + 1
  BY DEF Import!Call, Import!Calls
<1>6. d \in Import!Calls /\ d.function = f /\ d.of = parts[t][i] /\ CallOK(d) /\ Asked(d) = {}
  BY <1>4, UsefulCall DEF ImportInv
<1>7. \A j \in DOMAIN parts[t] : j < i => parts[t][j] \in Covered
  <2> SUFFICES ASSUME NEW j \in DOMAIN parts[t], j < i PROVE parts[t][j] \in Covered
    OBVIOUS
  <2>1. CASE j < i - 1 BY <1>1, <1>3, <2>1 DEF CallOK
  <2>2. CASE ~(j < i - 1)
    <3>1. i - 1 = j BY <1>4, <2>2
    <3>2. Asked(Import!Top) = {parts[t][j]} BY <1>1, <1>3, <3>1 DEF Asked
    <3> QED BY <1>3, <3>2
  <2> QED BY <2>1, <2>2
<1>8. Covered' = Covered BY <1>2 DEF Covered, Followed, Added, Import!Named
<1>9. CallOK(e)'
  <2>1. Import!Named(t) => Added(t) BY <1>1, <1>3, <1>4 DEF CallOK
  <2>2. e.next - 1 = i /\ e.next # 0 BY <1>5
  <2> QED BY <1>2, <1>5, <1>7, <1>8, <2>1, <2>2 DEF CallOK, Added, Import!Named
<1>10. \A c : CallOK(c) => CallOK(c)' BY <1>2, <1>8 DEF CallOK, Added, Import!Named
<1>11. Asked(e) = {parts[t][i]}
  <2>1. e.next - 1 = i BY <1>5
  <2> QED BY <1>2, <1>5, <2>1 DEF Asked
<1>12. Called(e, d) BY <1>6, <1>11 DEF Called
<1>13. SameRole(f, t) BY <1>3 DEF SameRole
<1>14. /\ StackInv' /\ ~Import!Idle' /\ calls' \in Seq(Import!Calls)
       /\ Len(calls) <= Len(calls') /\ calls'[Len(calls)] = e
       /\ \A k \in 1..Len(calls) : k # Len(calls) => calls'[k] = calls[k]
  <2>1. Grow BY <1>2 DEF Grow
  <2>2. f \notin TypeCalls BY DEF TypeCalls
  <2>a. CallOK(d)'
    <3>1. CallOK(d) BY <1>6
    <3> QED BY <1>2, <1>8, <3>1 DEF CallOK, Added, Import!Named
  <2>3. StackInv' /\ ~Import!Idle' /\ calls' \in Seq(Import!Calls)
    <3> HIDE DEF d, f
    <3> QED
      BY <2>1, <2>2, <2>a, <1>2, <1>3, <1>5, <1>6, <1>9, <1>12, <1>13, StackPush
         DEF ImportInv, d
  <2>4. LET s == Import!GoOn(f, t, i + 1)
        IN  /\ s \in Seq(Import!Calls) /\ Len(s) = Len(calls) /\ s[Len(calls)] = e
            /\ \A k \in 1..Len(calls) : k # Len(calls) => s[k] = calls[k]
    BY <1>3, <1>5, GoesOn DEF ImportInv, Import!TypeOK
  <2> DEFINE s == Import!GoOn(f, t, i + 1)
             n == Len(calls)
  <2>5. calls' = Append(s, d) BY <1>2
  <2>6. n \in Nat \ {0} BY <1>3
  <2> HIDE DEF s, d, e, n
  <2>7. Len(calls') = n + 1 /\ \A k \in 1..n : calls'[k] = s[k]
    BY <1>6, <2>4, <2>5, <2>6, AppendProperties DEF s, n
  <2>8. n \in 1..n /\ n <= n + 1 BY <2>6
  <2> QED BY <2>3, <2>4, <2>7, <2>8 DEF s, n
<1>15. \A u : Looping(u) => Looping(u)'
  <2>1. i + 1 # 0 BY <1>1
  <2> QED BY <1>3, <1>13, <1>14, <2>1, LoopGoesOn DEF ImportInv
<1>16. Len(calls) > 1 => ~Import!Idle' /\ calls'[1] = calls[1]
  BY <1>3, <1>14, FirstKept DEF ImportInv
<1>17. error' \in BOOLEAN /\ (error' => Import!Disturbed') /\ types' \subseteq LibraryTypes
  BY <1>2
     DEF ImportInv, Import!TypeOK, Import!NothingPending, Import!Disturbed,
         Import!Unhandled
<1>z. /\ bare' \subseteq types' /\ unread \subseteq unread'
      /\ unread' \subseteq UnreadableSymbols
  BY <1>2 DEF ImportInv, Import!TypeOK
<1> QED BY <1>2, <1>3, <1>14, <1>15, <1>16, <1>17, <1>z, SameModule

LEMMA ImportEndAddParts ==
  ASSUME ImportInv, NEW t \in LibraryTypes, Import!EndAddParts(t)
  PROVE  ImportInv'
<1>1. /\ ~Import!Idle /\ Import!Top.function = "recursively_add_useful_types"
      /\ Import!Top.of = t
      /\ Import!Top.next \in Nat /\ CallOK(Import!Top) /\ Asked(Import!Top) \subseteq Covered
      /\ Len(calls) \in Nat \ {0} /\ Len(calls) # 1
  BY RunningFacts, TopFacts DEF Import!EndAddParts, ImportInv
<1>2. /\ calls' = Import!Return
      /\ UNCHANGED <<parts, todo, module, types, bare, skipped, unread, error>>
      /\ Import!Top.next # 0 /\ Import!Top.next \notin DOMAIN parts[t]
  BY DEF Import!EndAddParts
<1>3. Grow BY <1>2 DEF Grow
<1>4. \A j \in DOMAIN parts[t] : parts[t][j] \in Covered
  <2> SUFFICES ASSUME NEW j \in DOMAIN parts[t] PROVE parts[t][j] \in Covered
    OBVIOUS
  <2>1. DOMAIN parts[t] = 1..Len(parts[t]) /\ Len(parts[t]) \in Nat
    BY PartsFacts DEF ImportInv
  <2>2. \A m, i, l \in Nat : l # 0 /\ l \notin 1..m /\ i \in 1..m =>
          i < l - 1 \/ i = l - 1
    OBVIOUS
  <2>3. j < Import!Top.next - 1 \/ j = Import!Top.next - 1
    <3>1. j \in Nat BY <2>1
    <3> QED BY <1>1, <1>2, <2>1, <2>2, <3>1, Zenon
  <2>4. CASE j < Import!Top.next - 1 BY <1>1, <2>4 DEF CallOK
  <2>5. CASE j = Import!Top.next - 1
    <3>1. Asked(Import!Top) = {parts[t][j]} BY <1>1, <2>5 DEF Asked
    <3> QED BY <1>1, <3>1
  <2> QED BY <2>3, <2>4, <2>5
<1>5. t \in Covered
  <2>1. CASE Import!Named(t)
    <3>1. Added(t) BY <1>1, <1>2, <2>1 DEF CallOK
    <3> QED BY <2>1, <3>1, CoverNamed
  <2>2. CASE ~Import!Named(t) BY <1>4, <2>2, CoverParts
  <2> QED BY <2>1, <2>2
<1>6. Covered \subseteq Covered' BY <1>3, CoverGrows DEF Grow
<1>7. StackInv' /\ calls' \in Seq(Import!Calls)
  BY <1>1, <1>2, <1>3, <1>5, <1>6, StackPop DEF ImportInv
<1>8. Len(calls) > 1 => ~Import!Idle' /\ calls'[1] = calls[1]
  BY <1>1, <1>2, ReturnKeepsFirst DEF ImportInv
<1>9. \A u \in LibraryTypes : Looping(u) => Looping(u)'
        \/ \A i \in DOMAIN parts[u] : parts[u][i] \in Covered'
  BY <1>1, <1>2, <1>3, <1>4, <1>6, LoopReturns DEF ImportInv
<1>10. error' \in BOOLEAN /\ (error' => Import!Disturbed') /\ types' \subseteq LibraryTypes
  BY <1>2
     DEF ImportInv, Import!TypeOK, Import!NothingPending, Import!Disturbed,
         Import!Unhandled
<1>z. /\ bare' \subseteq types' /\ unread \subseteq unread'
      /\ unread' \subseteq UnreadableSymbols
  BY <1>2 DEF ImportInv, Import!TypeOK
<1> QED BY <1>1, <1>2, <1>7, <1>8, <1>9, <1>10, <1>z, SameModule

LEMMA ImportLoad ==
  ASSUME ImportInv, NEW sym \in Symbols, Import!Load(sym)
  PROVE  ImportInv'
<1> DEFINE t == SymbolTypes[sym]
<1>1. /\ Import!Idle /\ sym \in todo /\ todo' = todo \ {sym}
      /\ calls' = IF t = NULL THEN <<>>
                  ELSE <<Import!Call("add_sym_to_module", sym, 0), Import!AddUseful(t)>>
      /\ UNCHANGED <<parts, module, types, bare, skipped, unread, error>>
  BY DEF Import!Load
<1>2. calls = <<>> /\ Len(calls) = 0 BY <1>1 DEF Import!Idle
<1>3. Covered' = Covered BY <1>1 DEF Covered, Followed, Added, Import!Named
<1>4. Grow BY <1>1, <1>2 DEF Grow
<1>5. t # NULL => t \in LibraryTypes BY ImportAssumption DEF Import!Assumptions
<1> DEFINE c == Import!Call("add_sym_to_module", sym, 0)
           d == Import!AddUseful(t)
<1>6. /\ c \in Import!Calls /\ c.function = "add_sym_to_module" /\ c.of = sym
      /\ c.next = 0
  BY DEF Import!Call, Import!Calls
<1>7. t # NULL => /\ d \in Import!Calls /\ d.function = "recursively_add_useful_types" /\ d.of = t
                  /\ CallOK(d) /\ Asked(d) = {}
  BY <1>5, UsefulCall DEF ImportInv
<1>8. \A x : CallOK(x) => CallOK(x)' BY <1>1, <1>3 DEF CallOK, Added, Import!Named
<1>9. t = NULL => calls' = <<>> /\ calls' \in Seq(Import!Calls) /\ Len(calls') = 0
  BY <1>1
<1>10. t # NULL => /\ calls' \in Seq(Import!Calls) /\ Len(calls') = 2
                   /\ calls'[1] = c /\ calls'[2] = d
  <2> HIDE DEF c, d
  <2> QED BY <1>1, <1>6, <1>7 DEF c, d
<1>11. StackInv'
  <2>1. CASE t = NULL BY <1>9, <2>1 DEF StackInv, Import!Idle
  <2>2. CASE t # NULL
    <3>0. \A k \in 1..2 : k = 1 \/ k = 2 OBVIOUS
    <3>1. CallOK(c) BY <1>5, <1>6, <2>2 DEF CallOK
    <3>2. Asked(c) = {t} BY <1>6 DEF Asked
    <3>3. Called(c, d)' /\ Called(c, d) BY <1>1, <1>7, <2>2, <3>2 DEF Called, Asked
    <3>4. \A k \in 1..Len(calls') : CallOK(calls[k])'
      <4> SUFFICES ASSUME NEW k \in 1..Len(calls') PROVE CallOK(calls[k])'
        OBVIOUS
      <4> HIDE DEF c, d
      <4>1. \A x : x = calls'[k] => CallOK(x)'
        BY <1>7, <1>8, <1>10, <2>2, <3>0, <3>1
      <4> QED BY <4>1 DEF CallOK
    <3>5. \A k \in 1..Len(calls') : k < Len(calls') =>
            Called(calls[k], calls[k + 1])'
      <4> HIDE DEF c, d
      <4>1. \A k \in 1..2 : k < 2 => k = 1 /\ k + 1 = 2 OBVIOUS
      <4>2. Called(calls[1], calls[2])'
        BY <1>6, <1>7, <1>10, <2>2, <3>2, <1>1 DEF Called, Asked
      <4> QED BY <1>10, <2>2, <4>1, <4>2
    <3>6. \A k, l \in 1..Len(calls') :
            k < l /\ calls'[k].function \in TypeCalls => calls'[l].function = "InitType"
      <4>1. c.function \notin TypeCalls /\ d.function \notin TypeCalls
        BY <1>6, <1>7, <2>2 DEF TypeCalls
      <4> HIDE DEF c, d
      <4> QED BY <1>10, <2>2, <3>0, <4>1
    <3>7. calls'[1].function = "add_sym_to_module" /\ Asked(Import!Top)' \subseteq Covered'
      <4>1. Import!Top' = d BY <1>10, <2>2 DEF Import!Top
      <4>2. Asked(Import!Top)' = {} BY <1>1, <1>7, <2>2, <4>1 DEF Asked
      <4> QED BY <1>6, <1>10, <2>2, <4>2
    <3> QED BY <3>4, <3>5, <3>6, <3>7 DEF StackInv
  <2> QED BY <2>1, <2>2
<1>12. SymbolInv'
  <2> SUFFICES ASSUME NEW y \in Symbols \ todo', SymbolTypes[y] # NULL
               PROVE  /\ \/ SymbolTypes[y] \in Covered'
                         \/ Len(calls') > 1 /\ calls'[1].of = y /\ calls'[1].next = 0
                      /\ Present(y)' \/ (~Import!Idle' /\ calls'[1].of = y)
    BY DEF SymbolInv
  <2>1. CASE y = sym
    <3>1. calls'[1] = c /\ Len(calls') = 2 BY <1>10, <2>1
    <3>2. Len(calls') > 1 /\ ~Import!Idle' BY <3>1 DEF Import!Idle
    <3> QED BY <1>6, <2>1, <3>1, <3>2
  <2>2. CASE y # sym
    <3>1. SymbolTypes[y] \in Covered /\ Present(y)
      BY <1>1, <1>2, <2>2 DEF ImportInv, SymbolInv
    <3>2. Present(y)'
      BY <1>1, <3>1 DEF Present, Import!Lost, Import!Disturbed, Import!Unhandled
    <3> QED BY <1>3, <3>1, <3>2
  <2> QED BY <2>1, <2>2
<1>13. StructInv'
  <2>1. \A u \in LibraryTypes : ~Looping(u) BY <1>2 DEF Looping
  <2>2. \A u \in LibraryTypes : Added(u)' => Added(u) BY <1>1 DEF Added
  <2> QED BY <1>4, <2>1, <2>2, StructKept
<1>14. Import!TypeOK'
  <2>1. calls' \in Seq(Import!Calls) BY <1>9, <1>10
  <2> QED BY <1>1, <2>1 DEF ImportInv, Import!TypeOK
<1>15. Import!NothingPending' /\ Import!OnlyUnhandledSkipped'
  BY <1>1
     DEF ImportInv, Import!NothingPending, Import!OnlyUnhandledSkipped,
         Import!Disturbed, Import!Unhandled
<1> QED BY <1>11, <1>12, <1>13, <1>14, <1>15 DEF ImportInv

(* The call for a symbol runs. *)
LEMMA RunningSymbol ==
  ASSUME ImportInv, NEW sym \in Symbols, Import!Running("add_sym_to_module", sym)
  PROVE  /\ ~Import!Idle /\ Import!Top.function = "add_sym_to_module" /\ Import!Top.of = sym
         /\ Len(calls) = 1 /\ Import!Top = calls[1]
         /\ SymbolTypes[sym] \in LibraryTypes
<1>1. /\ ~Import!Idle /\ Import!Top.function = "add_sym_to_module"
      /\ Import!Top.of = sym
  BY DEF Import!Running
<1>2. Len(calls) = 1 /\ Import!Top = calls[1]
  BY <1>1, SymbolCallFirst DEF ImportInv, Import!Top
<1>3. CallOK(Import!Top) BY <1>1, TopFacts DEF ImportInv
<1> QED BY <1>1, <1>2, <1>3 DEF CallOK

LEMMA ImportAddSymbol ==
  ASSUME ImportInv, NEW sym \in Symbols, Import!AddSymbol(sym)
  PROVE  ImportInv'
<1> DEFINE t == SymbolTypes[sym]
<1>1. /\ ~Import!Idle /\ Import!Top.function = "add_sym_to_module"
      /\ Import!Top.of = sym
      /\ Len(calls) = 1 /\ Import!Top = calls[1] /\ t \in LibraryTypes
  BY RunningSymbol DEF Import!AddSymbol
<1>2. Import!Top.next = 0 /\ UNCHANGED <<parts, todo, module, bare, skipped, unread>>
  BY DEF Import!AddSymbol
<1>z. types \subseteq types'
  BY DEF Import!AddSymbol, Import!GetOrCreate
<1>y. /\ bare' \subseteq types' /\ unread \subseteq unread'
      /\ unread' \subseteq UnreadableSymbols
  BY <1>2, <1>z DEF ImportInv, Import!TypeOK
<1>3. t \in Covered
  <2>1. Asked(Import!Top) = {t} BY <1>1, <1>2 DEF Asked
  <2> QED BY <1>1, <2>1, TopFacts DEF ImportInv
<1>4. ~(Len(calls) > 1) BY <1>1
<1>5. CASE /\ Import!Rejected(t) /\ error' = FALSE /\ calls' = Import!Return
           /\ UNCHANGED types
  <2>1. Grow BY <1>2, <1>5 DEF Grow
  <2>2. StackInv' /\ calls' \in Seq(Import!Calls)
    BY <1>1, <1>5, <2>1, StackPop DEF ImportInv
  <2>3. \A u : Looping(u) => Looping(u)'
          \/ \A i \in DOMAIN parts[u] : parts[u][i] \in Covered'
    BY <1>1, <1>5, <2>1, LoopReturns DEF ImportInv
  <2>4. Present(sym)
    <3>1. CASE Import!Unhandled(t) BY <3>1 DEF Present
    <3>2. CASE ~Import!Unhandled(t)
      <4>1. t \notin types /\ LibraryKind[t] = "base" /\ Import!Disturbed
        BY <1>5, <3>2 DEF Import!Rejected, ImportInv, Import!NothingPending
      <4>2. Added(t) BY <1>3, <4>1, CoveredFollowed DEF Followed, Import!Named
      <4>3. module[TypeNames[t]] # t
        BY <1>1, <4>1, <4>2, ImportAssumption
           DEF ImportInv, Import!TypeOK, Added, Import!Assumptions
      <4> QED BY <4>1, <4>2, <4>3 DEF Present, Import!Lost, Added
    <3> QED BY <3>1, <3>2
  <2>5. Present(sym)'
    BY <1>2, <1>5, <2>4 DEF Present, Import!Lost, Import!Disturbed, Import!Unhandled
  <2>6. \A y \in Symbols : calls[1].of = y => Present(y)'
    <3>1. calls[1].of = sym BY <1>1
    <3> QED BY <2>5, <3>1
  <2>7. types' \subseteq LibraryTypes BY <1>5 DEF ImportInv, Import!TypeOK
  <2> QED BY <1>1, <1>2, <1>4, <1>5, <1>y, <2>2, <2>3, <2>6, <2>7, SameModule
<1>6. CASE /\ UNCHANGED error
           /\ Import!GetOrCreate(t, Import!GoOn("add_sym_to_module", sym, 1))
  <2> DEFINE e == Import!Call("add_sym_to_module", sym, 1)
  <2>1. /\ e \in Import!Calls /\ e.function = "add_sym_to_module" /\ e.of = sym
        /\ e.next = 1
    BY DEF Import!Call, Import!Calls
  <2>2. types' = types \cup {t} /\ types' \subseteq LibraryTypes
    BY <1>1, <1>6 DEF ImportInv, Import!TypeOK, Import!GetOrCreate
  <2>3. CallOK(e)' /\ Asked(e) = {} BY <1>1, <2>1 DEF CallOK, Asked
  <2>4. SameRole("add_sym_to_module", sym) BY <1>1 DEF SameRole
  <2>5. /\ StackInv' /\ ~Import!Idle' /\ calls' \in Seq(Import!Calls)
        /\ Len(calls) <= Len(calls') /\ calls'[Len(calls)] = e
        /\ \A k \in 1..Len(calls) : k # Len(calls) => calls'[k] = calls[k]
    BY <1>1, <1>2, <1>6, <2>1, <2>3, <2>4, GetOrCreateStack DEF ImportInv
  <2>6. \A u : Looping(u) => Looping(u)'
    BY <1>1, <2>4, <2>5, LoopGoesOn DEF ImportInv
  <2>7. ~Import!Idle' /\ calls'[1].of = calls[1].of BY <1>1, <2>1, <2>5
  <2>8. error' \in BOOLEAN /\ (error' => Import!Disturbed')
    <3>1. Import!Disturbed => Import!Disturbed'
      BY <1>2, <2>2 DEF Import!Disturbed, Import!Unhandled
    <3> QED BY <1>6, <3>1 DEF ImportInv, Import!TypeOK, Import!NothingPending
  <2> QED BY <1>1, <1>2, <1>4, <1>y, <2>2, <2>5, <2>6, <2>7, <2>8, SameModule
<1> QED BY <1>5, <1>6 DEF Import!AddSymbol

LEMMA ImportEndAddSymbol ==
  ASSUME ImportInv, NEW sym \in Symbols, Import!EndAddSymbol(sym)
  PROVE  ImportInv'
<1>1. /\ ~Import!Idle /\ Import!Top.function = "add_sym_to_module"
      /\ Import!Top.of = sym
      /\ Len(calls) = 1 /\ Import!Top = calls[1]
  BY RunningSymbol DEF Import!EndAddSymbol
<1>2. /\ UNCHANGED <<parts, todo, types, bare, skipped, unread, error>>
      /\ Import!Bind(SymbolNames[sym], sym) /\ calls' = Import!Return
  BY DEF Import!EndAddSymbol
<1>3. /\ DOMAIN module' = DOMAIN module \cup {SymbolNames[sym]}
      /\ module'[SymbolNames[sym]] = sym
      /\ \A n \in DOMAIN module : n # SymbolNames[sym] => module'[n] = module[n]
  BY <1>2 DEF Import!Bind
<1>4. Grow /\ KeepsNames BY <1>1, <1>2, <1>3 DEF Grow, KeepsNames
<1>5. StackInv' /\ calls' \in Seq(Import!Calls)
  BY <1>1, <1>2, <1>4, StackPop DEF ImportInv
<1>6. SymbolInv'
  <2>1. Present(sym)' BY <1>3 DEF Present
  <2>2. \A y \in Symbols : calls[1].of = y => Present(y)'
    <3>1. calls[1].of = sym BY <1>1
    <3> QED BY <2>1, <3>1
  <2>3. ~(Len(calls) > 1) BY <1>1
  <2> QED BY <1>1, <1>2, <1>4, <1>5, <2>2, <2>3, SymbolKept
<1>7. StructInv'
  <2>1. \A u : Looping(u) => Looping(u)'
          \/ \A i \in DOMAIN parts[u] : parts[u][i] \in Covered'
    BY <1>1, <1>2, <1>4, LoopReturns DEF ImportInv
  <2>2. \A u \in LibraryTypes : ~Import!SharesName(u) /\ Added(u)' => Added(u)
    BY <1>3 DEF Import!SharesName, Added
  <2> QED BY <1>4, <2>1, <2>2, StructKept
<1>8. Import!TypeOK'
  <2>1. \A n \in DOMAIN module' : \/ module'[n] \in types' /\ TypeNames[module'[n]] = n
                                  \/ module'[n] \in Symbols /\ SymbolNames[module'[n]] = n
    BY <1>2, <1>3 DEF ImportInv, Import!TypeOK
  <2> QED BY <1>2, <1>5, <2>1 DEF ImportInv, Import!TypeOK
<1>9. Import!NothingPending' /\ Import!OnlyUnhandledSkipped'
  BY <1>2
     DEF ImportInv, Import!NothingPending, Import!OnlyUnhandledSkipped,
         Import!Disturbed, Import!Unhandled
<1> QED BY <1>5, <1>6, <1>7, <1>8, <1>9 DEF ImportInv

(* A symbol that cannot be read is left out. *)
LEMMA ImportSymbolUnread ==
  ASSUME ImportInv, NEW sym \in Symbols, Import!SymbolUnread(sym)
  PROVE  ImportInv'
<1>1. /\ ~Import!Idle /\ Import!Top.function = "add_sym_to_module"
      /\ Import!Top.of = sym
      /\ Len(calls) = 1 /\ Import!Top = calls[1]
  BY RunningSymbol DEF Import!SymbolUnread
<1>2. /\ UNCHANGED <<parts, todo, module, types, bare, skipped>>
      /\ error' = FALSE /\ unread' = unread \cup {sym} /\ sym \in UnreadableSymbols
      /\ calls' = Import!Return
  BY DEF Import!SymbolUnread
<1>3. Grow BY <1>2 DEF Grow
<1>4. StackInv' /\ calls' \in Seq(Import!Calls)
  BY <1>1, <1>2, <1>3, StackPop DEF ImportInv
<1>5. \A u : Looping(u) => Looping(u)'
        \/ \A i \in DOMAIN parts[u] : parts[u][i] \in Covered'
  BY <1>1, <1>2, <1>3, LoopReturns DEF ImportInv
<1>6. \A y \in Symbols : calls[1].of = y => Present(y)'
  <2>1. calls[1].of = sym BY <1>1
  <2>2. Present(sym)' BY <1>2 DEF Present
  <2> QED BY <2>1, <2>2
<1>7. /\ types' \subseteq LibraryTypes /\ bare' \subseteq types'
      /\ unread \subseteq unread' /\ unread' \subseteq UnreadableSymbols
  BY <1>2 DEF ImportInv, Import!TypeOK
<1>8. ~(Len(calls) > 1) BY <1>1
<1> QED BY <1>1, <1>2, <1>4, <1>5, <1>6, <1>7, <1>8, SameModule

(* One whose reading ends the process stays the one in progress. *)
LEMMA ImportReadCrashes ==
  ASSUME ImportInv, NEW sym \in Symbols, Import!ReadCrashes(sym)
  PROVE  ImportInv'
<1>1. /\ ~Import!Idle /\ Import!Top.function = "add_sym_to_module"
      /\ Import!Top.of = sym /\ SymbolTypes[sym] \in LibraryTypes
      /\ Len(calls) = 1 /\ Import!Top = calls[1]
  BY RunningSymbol DEF Import!ReadCrashes
<1>2. /\ UNCHANGED <<parts, todo, module, types, bare, skipped, unread, error>>
      /\ calls' = Import!GoOn("add_sym_to_module", sym, 2)
  BY DEF Import!ReadCrashes
<1> DEFINE e == Import!Call("add_sym_to_module", sym, 2)
<1>3. /\ e \in Import!Calls /\ e.function = "add_sym_to_module" /\ e.of = sym
      /\ e.next = 2
  BY DEF Import!Call, Import!Calls
<1>4. CallOK(e)' /\ Asked(e) = {} BY <1>1, <1>3 DEF CallOK, Asked
<1>5. SameRole("add_sym_to_module", sym) BY <1>1 DEF SameRole
<1>6. Grow BY <1>2 DEF Grow
<1>7. /\ StackInv' /\ ~Import!Idle' /\ calls' \in Seq(Import!Calls)
      /\ Len(calls) <= Len(calls') /\ calls'[Len(calls)] = e
      /\ \A k \in 1..Len(calls) : k # Len(calls) => calls'[k] = calls[k]
  <2>1. StackInv' /\ ~Import!Idle' /\ calls' \in Seq(Import!Calls)
    BY <1>1, <1>2, <1>3, <1>4, <1>5, <1>6, StackReplace DEF ImportInv
  <2> QED BY <2>1, <1>1, <1>2, <1>3, GoesOn DEF ImportInv, Import!TypeOK
<1>8. \A u : Looping(u) => Looping(u)'
  BY <1>1, <1>5, <1>7, LoopGoesOn DEF ImportInv
<1>9. ~Import!Idle' /\ calls'[1].of = calls[1].of BY <1>1, <1>3, <1>7
<1>10. error' \in BOOLEAN /\ (error' => Import!Disturbed')
  BY <1>2
     DEF ImportInv, Import!TypeOK, Import!NothingPending, Import!Disturbed,
         Import!Unhandled
<1>11. /\ types' \subseteq LibraryTypes /\ bare' \subseteq types'
       /\ unread \subseteq unread' /\ unread' \subseteq UnreadableSymbols
  BY <1>2 DEF ImportInv, Import!TypeOK
<1>12. ~(Len(calls) > 1) BY <1>1
<1> QED BY <1>1, <1>2, <1>7, <1>8, <1>9, <1>10, <1>11, <1>12, SameModule

LEMMA ImportStutters == ASSUME ImportInv, UNCHANGED loadVars PROVE ImportInv'
<1>1. UNCHANGED <<parts, todo, module, types, bare, skipped, unread, error, calls>>
  BY DEF loadVars
<1>2. Covered' = Covered BY <1>1 DEF Covered, Followed, Added, Import!Named
<1>3. Import!Disturbed' = Import!Disturbed /\ (Import!Idle' <=> Import!Idle) /\ Import!Top' = Import!Top
  BY <1>1 DEF Import!Disturbed, Import!Unhandled, Import!Idle, Import!Top
<1>4. Import!TypeOK' BY <1>1 DEF ImportInv, Import!TypeOK
<1>5. StackInv'
  <2>1. \A k \in 1..Len(calls) : CallOK(calls[k]) => CallOK(calls[k])'
    BY <1>1, <1>2 DEF CallOK, Added, Import!Named
  <2>2. \A c : Asked(c)' = Asked(c) BY <1>1, AskedFixed
  <2>3. \A k \in 1..Len(calls) : Called(calls[k], calls[k + 1]) =>
          Called(calls[k], calls[k + 1])'
    BY <1>1, <2>2 DEF Called
  <2>4. Asked(Import!Top)' = Asked(Import!Top) BY <1>1, <1>3 DEF Asked
  <2> QED BY <1>1, <1>2, <1>3, <2>1, <2>3, <2>4 DEF ImportInv, StackInv
<1>6. SymbolInv'
  <2>1. \A sym \in Symbols : Present(sym) => Present(sym)'
    BY <1>1, <1>3 DEF Present, Import!Lost, Import!Unhandled
  <2> QED BY <1>1, <1>2, <1>3, <2>1 DEF ImportInv, SymbolInv
<1>7. StructInv'
  BY <1>1, <1>2 DEF ImportInv, StructInv, Import!SharesName, Added, Import!Named
<1>8. Import!NothingPending' BY <1>1, <1>3 DEF ImportInv, Import!NothingPending
<1>9. Import!OnlyUnhandledSkipped'
  BY <1>1, <1>3 DEF ImportInv, Import!OnlyUnhandledSkipped, Import!Unhandled
<1> QED BY <1>4, <1>5, <1>6, <1>7, <1>8, <1>9 DEF ImportInv

LEMMA ImportNext == ASSUME ImportInv, [Import!Next]_loadVars PROVE ImportInv'
<1>1. ASSUME NEW t \in LibraryTypes,
             \/ Import!InitMember(t) \/ Import!SkipMember(t)
             \/ Import!LosePointee(t) \/ Import!EndInitType(t)
             \/ Import!AddType(t) \/ Import!EndAddType(t) \/ Import!AddPart(t) \/ Import!EndAddParts(t)
      PROVE  ImportInv'
  BY <1>1, ImportInitMember, ImportNoMember, ImportEndInitType, ImportAddType,
     ImportEndAddType, ImportAddPart, ImportEndAddParts
<1>2. ASSUME NEW sym \in Symbols,
             \/ Import!Load(sym) \/ Import!AddSymbol(sym) \/ Import!EndAddSymbol(sym)
             \/ Import!SymbolUnread(sym) \/ Import!ReadCrashes(sym)
      PROVE  ImportInv'
  BY <1>2, ImportLoad, ImportAddSymbol, ImportEndAddSymbol, ImportSymbolUnread,
     ImportReadCrashes
<1>3. CASE UNCHANGED loadVars BY <1>3, ImportStutters
<1> QED BY <1>1, <1>2, <1>3 DEF Import!Next

LEMMA ImportProperties == ImportInv => Import!TypeOK /\ Import!SymbolsPresent /\ Import!TypesPresent
<1> SUFFICES ASSUME ImportInv PROVE /\ Import!TypeOK /\ Import!SymbolsPresent
                                    /\ Import!TypesPresent
  OBVIOUS
<1>1. Import!SymbolsPresent
  BY DEF ImportInv, SymbolInv, Import!SymbolsPresent, Present
<1>2. Import!TypesPresent
  <2> SUFFICES ASSUME Import!Loaded
               PROVE  \E S \in SUBSET LibraryTypes :
                        Import!HoldsUseful(S) /\ \A t \in S : Import!Named(t) => TypeNames[t] \in DOMAIN module
    BY DEF Import!TypesPresent
  <2>1. todo = {} /\ Import!Idle /\ Len(calls) = 0 BY DEF Import!Loaded, Import!Idle
  <2>2. \A t \in LibraryTypes : LibraryKind[t] = "struct" /\ ~Import!SharesName(t) /\ Added(t) =>
          \A i \in DOMAIN parts[t] : parts[t][i] \in Covered
    BY <2>1 DEF ImportInv, StructInv
  <2>3. \A sym \in Symbols : SymbolTypes[sym] # NULL => SymbolTypes[sym] \in Covered
    BY <2>1 DEF ImportInv, SymbolInv
  <2>4. ASSUME NEW t \in Covered
        PROVE  \/ LibraryKind[t] = "struct" /\ Import!SharesName(t)
               \/ \A i \in DOMAIN parts[t] : parts[t][i] \in Covered
    <3>1. t \in LibraryTypes BY CoveredFollowed
    <3>2. CASE LibraryKind[t] = "struct"
      <4>1. Added(t) BY <3>2, CoveredFollowed DEF Followed, Import!Named
      <4> QED BY <2>2, <3>1, <3>2, <4>1
    <3>3. CASE LibraryKind[t] \in {"base", "void"}
      BY <3>1, <3>3, PartsFacts DEF ImportInv
    <3>4. CASE ~Import!Named(t) BY <3>4, CoveredFollowed DEF Followed
    <3> QED BY <3>2, <3>3, <3>4 DEF Import!Named
  <2>5. Import!HoldsUseful(Covered) BY <2>3, <2>4 DEF Import!HoldsUseful
  <2>6. \A t \in Covered : Import!Named(t) => TypeNames[t] \in DOMAIN module
    BY CoveredFollowed DEF Followed, Added
  <2> QED BY <2>5, <2>6, CoveredFollowed
<1> QED BY <1>1, <1>2 DEF ImportInv

-----------------------------------------------------------------------------
(* The whole. *)

LEMMA ImportInvariant == ComponentsSpec => []ImportInv
<1>1. ComponentsInit => ImportInv BY ImportInit DEF ComponentsInit
<1>2. ImportInv /\ [ComponentsNext]_ComponentsVars => ImportInv'
  <2> SUFFICES ASSUME ImportInv, [ComponentsNext]_ComponentsVars PROVE [Import!Next]_loadVars
    BY ImportNext
  <2>1. CASE ComponentsNext BY <2>1 DEF ComponentsNext, Imported
  <2>2. CASE UNCHANGED ComponentsVars BY <2>2 DEF ComponentsVars
  <2> QED BY <2>1, <2>2
<1> QED BY <1>1, <1>2, PTL DEF ComponentsSpec

(* When a library is imported, every global of it that has a type which    *)
(* can be handled becomes an attribute of the module, unless it cannot be  *)
(* read (library_loader.c:160), or a pointer to something that cannot be   *)
(* handled left an exception that cost the base type of the global, or the *)
(* process ends on reading such a pointer (address_proxy.c:209, 242); when *)
(* the import ends every struct and base type that the globals are built   *)
(* from is in the module, and no member of a struct was given up           *)
(* (composite_proxy.c:42) but for its own type or such an exception.  This *)
(* holds whatever types the library has, whatever they are built from, and *)
(* in whatever order the symbols come.                                     *)
THEOREM ImportAlwaysComplete == ComponentsSpec => []ImportComplete
<1>1. ImportInv => ImportComplete BY ImportProperties DEF ImportInv, ImportComplete
<1> QED BY <1>1, ImportInvariant, PTL

(* No exception is pending while a library is imported, nor when           *)
(* libloader_exec returns (library_loader.c:177), unless there is a        *)
(* pointer to a type that cannot be handled.                               *)
THEOREM ImportLeavesNothing == ComponentsSpec => []NothingPending
<1>1. ImportInv => NothingPending BY DEF ImportInv, NothingPending
<1> QED BY <1>1, ImportInvariant, PTL

(* What is proved of the creation of types holds with libraries imported   *)
(* besides: TypeOK, TableFinished, PointerInherits and                     *)
(* FirstMemberUnlessCyclic of the whole.                                   *)
THEOREM TypesBesidesImport ==
  ComponentsSpec =>
    [](TypeOK /\ TableFinished /\ PointerInherits /\ FirstMemberUnlessCyclic)
<1>1. ComponentsInit => Init BY DEF ComponentsInit
<1>2. [ComponentsNext]_ComponentsVars => [Next]_vars
  BY DEF ComponentsNext, ComponentsVars
<1>3. ComponentsSpec => Spec BY <1>1, <1>2, PTL DEF ComponentsSpec, Spec
<1> QED BY <1>3, TypeCorrect, TableAlwaysFinished, PointerAlwaysInherits,
           FirstMemberInheritedUnlessCyclic, PTL
=============================================================================
