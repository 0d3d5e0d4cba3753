--------------------------- MODULE ForeignDataMC ---------------------------
(***************************************************************************)
(* ForeignData for TLC, with the lengths of decoded pointers beside it:    *)
(*                                                                         *)
(*  - Two arrays side by side: a at cells 3 to 5, made in Python, and b of *)
(*    structs at cells 7 and 8, made by C code, with one cell of malloc's  *)
(*    between them.  C returns pointers to both, into the middle too.      *)
(*  - A struct of two fields and a third whose type is not handled.        *)
(*  - Three bytes of four values each, every encoding with one and two     *)
(*    bytes, a size and a bit field that are not handled, and numbers on   *)
(*    both sides of every limit.                                           *)
(*  - Every pointer into the allocations of PointerLengths.                *)
(***************************************************************************)
EXTENDS ForeignData

CONSTANTS a, b, v1, v2, Unbounded

VARIABLES query, length               \* of PointerLengths
lengthVars == <<query, length>>
dataVars == <<vars, structVars, baseVars>>

-----------------------------------------------------------------------------
MCStart == (a :> 3) @@ (b :> 7)
MCSize  == (a :> 3) @@ (b :> 2)
PythonAndC == (a :> "python") @@ (b :> "c")
PythonAndStatic == (a :> "python") @@ (b :> "static")
MCArgument == {<<>>, <<1>>, <<1, 1, 1>>, <<1, Bad>>, <<1, Bad, 1>>}
Ends == {-1, 0, 1, 3}
Ahead == 0 .. 2
Behind == -4 .. -1
Pointers == {3, 4, 8}
Symmetry == Permutations({v1, v2})

Lengths == INSTANCE PointerLengths
  WITH Pointees <- "scalar", Large <- 6, UIntRange <- 256

(* addrproxy_initlength for a pointer to an item of two bytes.             *)
MCDecodedLength(c, p) ==
  LET item == Lengths!Scalar(2)
      array == Lengths!Array(item, MCSize[c])
  IN Lengths!Length(Lengths!Typed(array, array.size), 2 * (p - MCStart[c]), item)

-----------------------------------------------------------------------------
MCFields == <<"x", "y", "z">>
StructPlace == ("x" :> {1}) @@ ("y" :> {2}) @@ ("z" :> {3})
UnionPlace == ("x" :> {1}) @@ ("y" :> {1, 2}) @@ ("z" :> {3})
Keyed(D, v) == [k \in D |-> v]
Maps == {Keyed(D, v) : D \in {{}, {"x"}, {"y"}, {"x", "y"}, {"x", "crazy"}},
                       v \in {1, Bad}}
Objects == {[kind |-> "dict", items |-> m] : m \in Maps}
           \cup {[kind |-> "object", attrs |-> m] : m \in Maps}
           \cup {[kind |-> "struct", mem |-> [c \in 1 .. 3 |-> 1]]}
Plain(v) == [kind |-> "plain", value |-> v]
Positional ==
  {[i \in DOMAIN s |-> Plain(s[i])] :
     s \in {<<>>, <<1>>, <<Bad>>, <<1, 2>>, <<1, Bad>>, <<1, 2, 1, 1>>}}
MCCalls ==
  {[args |-> p, kwargs |-> m, converting |-> FALSE] : p \in Positional, m \in Maps}
  \cup {[args |-> <<x>>, kwargs |-> Keyed({}, 1), converting |-> k] :
           x \in Objects, k \in BOOLEAN}
  \cup {[args |-> <<x>>, kwargs |-> Keyed({}, 1), converting |-> TRUE] :
           x \in {Plain(1), Plain(Bad)}}

-----------------------------------------------------------------------------
BT(e, n, k) == [enc |-> e, size |-> n, bits |-> k]
BaseTypeSet ==
  {BT(e, n, 2 * n) : e \in {"unsigned", "signed", "signed_char", "unsigned_char"},
                     n \in {1, 2, 3}}
  \cup {BT("boolean", 1, 2), BT("signed", 2, 3), BT("float", 2, 4)}
PythonObjects ==
  {[class |-> "int", n |-> n] :
     n \in {-33, -9, -8, -3, -2, -1, 0, 1, 2, 3, 4, 7, 8, 15, 16, 64}}
  \cup {[class |-> "bytes", s |-> s] : s \in {<<>>, <<2>>, <<1, 2>>}}
  \cup {[class |-> "str", s |-> s] : s \in {<<1>>, <<9>>}}
  \cup {[class |-> "none"]}

ASSUME LengthsAssumption == Lengths!Assumptions

-----------------------------------------------------------------------------
ComponentsInit ==
  \/ DataInit /\ query = <<>> /\ length = 0
  \/ /\ component = "lengths" /\ Lengths!Init
     /\ Init /\ Structure!Init /\ Base!Init

ComponentsNext ==
  \/ DataNext /\ UNCHANGED lengthVars
  \/ component = "lengths" /\ Lengths!Next /\ UNCHANGED <<component, dataVars>>

ComponentsSpec ==
  ComponentsInit /\ [][ComponentsNext]_<<component, dataVars, lengthVars>>

-----------------------------------------------------------------------------
(* No address proxy of a C pointer reaches past the end of the allocation  *)
(* the pointer points into (address_proxy.c:200).                          *)
WithinAllocation == component = "lengths" => Lengths!WithinAllocation

(* "Compute the length of the pointed array (= 1 for pointer to single     *)
(* cell)" (address_proxy.c:204): a pointer to the start of an array has    *)
(* its length, and one to an object that starts no array has length 1.     *)
LengthOfArray ==
  component = "lengths" => Lengths!WholeArray /\ Lengths!SingleCell
=============================================================================
