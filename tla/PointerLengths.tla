--------------------------- MODULE PointerLengths ---------------------------
(***************************************************************************)
(* Every pointer into a set of allocations, decoded one after the other,   *)
(* and the length compared with a definition that looks at all the         *)
(* subobjects at once.                                                     *)
(***************************************************************************)
EXTENDS Bounds, FiniteSets

CONSTANTS Pointees,   \* "scalar": structs, integers and arrays; "char": chars
          Large       \* the length of the longest array

VARIABLES query,      \* the pointer decoded last
          length      \* the length its address proxy got
vars == <<query, length>>

I1 == Scalar(1)
I2 == Scalar(2)
I4 == Scalar(4)
Pair == Struct(4, <<Field(0, I2), Field(2, I2)>>)
Named == Struct(4, <<Field(0, Array(Char, 2)), Field(2, I2)>>)
Node == Struct(8, <<Field(0, I2), Field(2, Array(I2, 3))>>)
Union == Struct(4, <<Field(0, I4), Field(0, Array(I2, 2)), Field(0, I1)>>)

Types == {I4, Pair, Named, Node, Union, Array(I2, 3), Array(Pair, 2),
          Array(Array(I2, 2), 2), Array(Array(I2, 1), 3), Array(Node, 2),
          Array(Array(Pair, 1), 2), Array(Char, 3), Array(I2, Large),
          Array(Struct(2, <<Field(0, I2)>>), 3), Array(Union, 2)}

Typed(t, n) == [found |-> TRUE, size |-> n, type |-> <<t>>]
Allocs == {Typed(t, t.size) : t \in Types}
          \cup {Typed(Array(I2, Unbounded), n) : n \in {0, 2, 4, 6}}
          \cup {[found |-> TRUE, size |-> 4, type |-> <<>>],
                [found |-> FALSE, size |-> 4, type |-> <<>>]}

Pointee == IF Pointees = "char" THEN {Char}
           ELSE {I1, I2, I4, Pair, Node, Array(I2, 1), Array(I2, 2),
                 [kind |-> "struct", size |-> Unbounded, fields |-> <<>>],
                 Struct(0, <<>>)}

Queries == {q \in [alloc : Allocs, ptr : 0 .. 2 * Large, t : Pointee] :
              q.ptr < q.alloc.size}

InitLength(q) == query' = q /\ length' = Length(q.alloc, q.ptr, q.t)

Init == \E q \in Queries : query = q /\ length = Length(q.alloc, q.ptr, q.t)
Next == \E q \in Queries : InitLength(q)
Spec == Init /\ [][Next]_vars

-----------------------------------------------------------------------------
(* All the subobjects of the allocation that contain the pointer, without  *)
(* the order of the search.                                                *)
Objects == IF query.alloc.type = <<>> THEN {}
           ELSE LET s == Spanning(query.alloc.type[1], 0, <<>>, query.ptr)
                IN {s[i] : i \in 1 .. Len(s)}

(* The arrays that start at the pointer and whose elements have the size   *)
(* of its pointee, and the lengths they have in this allocation.           *)
ArrayLengths ==
  {IF o.type.length = Unbounded
   THEN (query.alloc.size - o.at) \div query.t.size ELSE o.type.length :
     o \in {x \in Objects : /\ x.type.kind = "array"
                            /\ x.at = query.ptr
                            /\ x.type.elem.size = query.t.size}}

(* An address proxy never reaches past the end of the allocation its       *)
(* pointer points into, whatever type the C code declares for the pointee: *)
(* indexing, repr, re-initialisation and the traversal of the collector    *)
(* all trust ap_length.                                                    *)
WithinAllocation ==
  (query.alloc.found /\ length > 0)
     => query.ptr + length * query.t.size <= query.alloc.size

(* "Compute the length of the pointed array (= 1 for pointer to single     *)
(* cell)" (address_proxy.c:204): the proxy of a pointer to the start of an *)
(* array has the length of such an array.                                  *)
WholeArray ==
  (query.t.size \notin {0, Unbounded} /\ ArrayLengths # {})
     => length \in ArrayLengths

(* A pointer to an object of its pointee's size that starts no array gets  *)
(* length 1: the elements of an array are told from its start.             *)
SingleCell ==
  (/\ query.t.size \notin {0, Unbounded}
   /\ ArrayLengths = {}
   /\ \E o \in Objects : o.at = query.ptr /\ o.type.size = query.t.size)
     => length = 1
=============================================================================
