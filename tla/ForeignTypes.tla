---------------------------- MODULE ForeignTypes ----------------------------
(***************************************************************************)
(* How the Python types of a foreign library come to be: foreign_type.c    *)
(* and the NewType and InitType functions of the proxies.                  *)
(*                                                                         *)
(* C types refer to one another in cycles (a list node has a pointer to    *)
(* list nodes), so a type object is created first, entered into a table,   *)
(* and only then initialised from the types of its members, which may be   *)
(* created on the way: ForeignType_GetOrCreate calls itself through the    *)
(* InitType functions, and finds types in its table that are not finished. *)
(* CPython adds a recursion of its own: PyType_Ready fixes the ancestors   *)
(* of a type for good, and readies the base of the type before.            *)
(***************************************************************************)
EXTENDS Naturals, Sequences

CONSTANTS
  Type,         \* the uniqtypes of a program
  Kind,         \* their kinds
  Libraries,    \* the member lists a program may give to its types
  Unions,       \* the sets of types a program may have as unions
  NULL

ASSUME KindAssumption ==
  Kind \in [Type -> {"plain", "composite", "address", "array", "unsupported"}]
ASSUME LibraryAssumption ==
  /\ Libraries \subseteq [Type -> Seq(Type)]
  /\ \A lib \in Libraries, t \in Type :
       /\ Kind[t] \in {"plain", "unsupported"} => lib[t] = <<>>
       /\ Kind[t] \in {"address", "array"} => Len(lib[t]) = 1
       /\ Kind[t] = "array" => Kind[lib[t][1]] = "address"
ASSUME UnionAssumption == Unions \subseteq SUBSET Type
ASSUME NullAssumption == NULL \notin Type

VARIABLES
  related,      \* the members of each type, fixed for a program
  unions,       \* composite types all members of which have offset 0, as well
  typdict,      \* types an object was created for
  member_type,  \* the types InitType has found for the members
  next_member,  \* where the loop of InitType is
  tp_base,      \* the base of the proxy type; NULL = Proxy_Type
  tp_mro,       \* its ancestors; {} until PyType_Ready
  stack         \* calls in progress, the running one last

program == <<related, unions>>
vars == <<program, typdict, member_type, next_member, tp_base, tp_mro, stack>>

Composite(t) == Kind[t] = "composite"
HasProxy(t)  == Kind[t] \in {"composite", "address"}   \* a type of its own
Members(t)   == 1..Len(related[t])
Supported(t) == Kind[t] # "unsupported"
Call == [type : Type, function : {"InitType", "PyType_Ready"}]

(* The table and the members found so far are well-formed, and no loop     *)
(* over members has run past its end.                                      *)
TypeOK ==
  /\ related \in [Type -> Seq(Type)] /\ unions \subseteq Type
  /\ typdict \subseteq {t \in Type : Supported(t)}
  /\ member_type \in [Type -> Seq(Type \cup {NULL})]
  /\ next_member \in [Type -> Nat \ {0}]
  /\ \A t \in Type : /\ Len(member_type[t]) = Len(related[t])
                     /\ next_member[t] <= Len(related[t]) + 1
  /\ tp_base \in [Type -> Type \cup {NULL}]
  /\ tp_mro \in [Type -> SUBSET Type]
  /\ stack \in Seq(Call)

Init ==
  /\ related \in Libraries /\ unions \in Unions
  /\ typdict = {}
  /\ member_type = [t \in Type |-> [i \in Members(t) |-> NULL]]
  /\ next_member = [t \in Type |-> 1]
  /\ tp_base = [t \in Type |-> NULL]
  /\ tp_mro = [t \in Type |-> {}]
  /\ stack = <<>>

Idle == stack = <<>>
Top  == stack[Len(stack)]
ReadyCall(t) == [type |-> t, function |-> "PyType_Ready"]
Running(t, f) == ~Idle /\ Top = [type |-> t, function |-> f]
Push(t, f) == stack' = Append(stack, [type |-> t, function |-> f])
Pop == stack' = SubSeq(stack, 1, Len(stack) - 1)

(* Mutant: a type that could not be created is entered all the same. *)
CreateUnchecked(t) ==
  /\ t \notin typdict
  /\ typdict' = typdict \cup {t}
  /\ Push(t, "InitType")
  /\ UNCHANGED <<program, member_type, next_member, tp_base, tp_mro>>

(* ForeignType_GetOrCreate for a type it does not know: the object is      *)
(* created and entered, then InitType is called.                           *)
Create(t) ==
  /\ t \notin typdict /\ Supported(t)
  /\ typdict' = typdict \cup {t}
  /\ Push(t, "InitType")
  /\ UNCHANGED <<program, member_type, next_member, tp_base, tp_mro>>

(* A symbol of a library, or obj.ptr, obj.array and so on.  A known type   *)
(* is returned; for an unsupported one there is an exception.              *)
Request(t) ==
  /\ Idle
  /\ \/ Create(t)
     \/ (t \in typdict \/ ~Supported(t)) /\ UNCHANGED vars

(* InitType needs the type of its next member, which is not known yet. *)
CreateMember(t) ==
  /\ Running(t, "InitType") /\ next_member[t] \in Members(t)
  /\ Create(related[t][next_member[t]])

(* Mutants: a pointer does not inherit from what it points to; the index   *)
(* of the first member is off by one.                                      *)
BaseOfComposites(t, i) == Composite(related[t][i]) /\ Composite(t) /\ i = 1
BaseOffByOne(t, i) ==
  /\ Composite(related[t][i])
  /\ Composite(t) => i = 2
  /\ Kind[t] \in {"composite", "address"}

(* Which member becomes the base: one at the start of a composite that is  *)
(* itself a composite, and what a pointer points to, if it is one.         *)
BaseMember(t, i) ==
  /\ Composite(related[t][i])
  /\ Composite(t) => i = 1 \/ t \in unions
  /\ Kind[t] \in {"composite", "address"}

(* Mutant: the loop does not advance past a known type. *)
ResolveAgain(t) ==
  LET i == next_member[t] IN
  /\ Running(t, "InitType") /\ i \in Members(t)
  /\ related[t][i] \in typdict
  /\ member_type' = [member_type EXCEPT ![t][i] = related[t][i]]
  /\ UNCHANGED <<program, typdict, next_member, tp_base, tp_mro, stack>>

(* It is known, be it finished or not. *)
ResolveMember(t) ==
  LET i == next_member[t] IN
  /\ Running(t, "InitType") /\ i \in Members(t)
  /\ related[t][i] \in typdict
  /\ member_type' = [member_type EXCEPT ![t][i] = related[t][i]]
  /\ tp_base' = IF BaseMember(t, i) THEN [tp_base EXCEPT ![t] = related[t][i]]
                ELSE tp_base
  /\ next_member' = [next_member EXCEPT ![t] = i + 1]
  /\ UNCHANGED <<program, typdict, tp_mro, stack>>

(* There is no Python type for it: the member is left out. *)
SkipMember(t) ==
  LET i == next_member[t] IN
  /\ Running(t, "InitType") /\ i \in Members(t)
  /\ ~Supported(related[t][i])
  /\ next_member' = [next_member EXCEPT ![t] = i + 1]
  /\ UNCHANGED <<program, typdict, member_type, tp_base, tp_mro, stack>>

(* Mutant: the last member is forgotten. *)
EndInitTypeEarly(t) ==
  /\ Running(t, "InitType") /\ next_member[t] >= Len(related[t])
  /\ stack' = IF HasProxy(t)
              THEN [stack EXCEPT ![Len(stack)] = ReadyCall(t)]
              ELSE SubSeq(stack, 1, Len(stack) - 1)
  /\ UNCHANGED <<program, typdict, member_type, next_member, tp_base, tp_mro>>

(* InitType ends with PyType_Ready, where there is a proxy type. *)
EndInitType(t) ==
  /\ Running(t, "InitType") /\ next_member[t] \notin Members(t)
  /\ stack' = IF HasProxy(t)
              THEN [stack EXCEPT ![Len(stack)] = ReadyCall(t)]
              ELSE SubSeq(stack, 1, Len(stack) - 1)
  /\ UNCHANGED <<program, typdict, member_type, next_member, tp_base, tp_mro>>

Ready(t) == tp_mro[t] # {}

(* PyType_Ready *)
ReadyBase(t) ==
  /\ Running(t, "PyType_Ready") /\ ~Ready(t)
  /\ tp_base[t] # NULL /\ ~Ready(tp_base[t])
  /\ Push(tp_base[t], "PyType_Ready")
  /\ UNCHANGED <<program, typdict, member_type, next_member, tp_base, tp_mro>>

EndReady(t) ==
  /\ Running(t, "PyType_Ready")
  /\ \/ Ready(t) /\ UNCHANGED tp_mro
     \/ /\ ~Ready(t) /\ tp_base[t] = NULL
        /\ tp_mro' = [tp_mro EXCEPT ![t] = {t}]
     \/ /\ ~Ready(t) /\ tp_base[t] # NULL /\ Ready(tp_base[t])
        /\ tp_mro' = [tp_mro EXCEPT ![t] = {t} \cup tp_mro[tp_base[t]]]
  /\ Pop
  /\ UNCHANGED <<program, typdict, member_type, next_member, tp_base>>

Step ==
  \E t \in Type : \/ CreateMember(t) \/ ResolveMember(t) \/ SkipMember(t)
                  \/ EndInitType(t) \/ ReadyBase(t) \/ EndReady(t)

Next == Step \/ \E t \in Type : Request(t)

Spec == Init /\ [][Next]_vars

(* The code runs on. *)
FairSpec == Spec /\ WF_vars(Step)

-----------------------------------------------------------------------------
(* Correctness.                                                            *)

(* Once GetOrCreate has returned, every type in the table is finished, its *)
(* own and those that were created on the way: it knows the type of each   *)
(* member that has one, and Python can use its proxy type.                 *)
Finished(t) ==
  /\ HasProxy(t) => Ready(t)
  /\ \A i \in Members(t) :
       member_type[t][i] = IF Supported(related[t][i]) THEN related[t][i] ELSE NULL
TableFinished == Idle => \A t \in typdict : Finished(t)

(* A pointer to a composite accepts what the composite does, through its   *)
(* ancestors too ("Direct access to fields without [0] indirection"):      *)
(* whenever PyType_Ready runs on it, the composite is ready before.        *)
PointerInherits ==
  \A t \in Type : Kind[t] = "address" /\ Ready(t) /\ Composite(related[t][1]) =>
    Ready(related[t][1]) /\ tp_mro[related[t][1]] \subseteq tp_mro[t]

(* What a type refers to, directly or not. *)
Reaches(t) ==
  {u \in Type : \A S \in SUBSET Type :
     /\ t \in S
     /\ \A x \in S : \A i \in Members(x) : related[x][i] \in S
     => u \in S}

FirstMemberInherited(t) ==
  Composite(t) /\ related[t] # <<>> /\ Composite(related[t][1]) /\ t \notin unions
    => related[t][1] \in tp_mro[t]

(* A struct is a subtype of its first member, in whatever order types are  *)
(* requested, unless the first member leads back to the struct.            *)
FirstMemberUnlessCyclic ==
  Idle => \A t \in typdict :
    FirstMemberInherited(t) \/ t \in Reaches(related[t][1])

(* Every call of GetOrCreate returns, on cyclic types too. *)
RequestsReturn == []<>Idle

-----------------------------------------------------------------------------
(* What the comments say and the code does not do.                         *)

(* composite_proxy.c:335: "First element idiom => we are a subtype of the  *)
(* first member if it is also a composite type".                           *)
FirstMember == Idle => \A t \in typdict : FirstMemberInherited(t)

(* address_proxy.c:377: pointee_type "Will be filled in InitType phase".   *)
PointeeFilled ==
  Idle => \A t \in typdict : Kind[t] = "address" => member_type[t][1] # NULL
=============================================================================
