------------------------------- MODULE Bounds -------------------------------
(***************************************************************************)
(* The length of an address proxy made from a C pointer:                   *)
(* addrproxy_initlength (src/address_proxy.c), which asks                  *)
(* __fetch_bounds_internal (src/minicrunch.c) for the bounds of the        *)
(* pointer.  Only operators: PointerLengths enumerates allocations and     *)
(* pointers; ArrayView takes the length of a decoded pointer as a constant *)
(* with what PointerLengths checks of it.                                  *)
(*                                                                         *)
(* A type is a record.  Addresses are byte offsets from the start of the   *)
(* allocation the pointer points into.                                     *)
(***************************************************************************)
EXTENDS Integers, Sequences

CONSTANTS Unbounded,      \* UNIQTYPE_POS_MAXOFF_UNBOUNDED, an unknown length
          UIntRange       \* the number of values of C's unsigned int (2^32)

Assumptions == UIntRange \in Nat \ {0}

(***************************************************************************)
(* The three kinds of type the search tells apart.                         *)
(***************************************************************************)
Scalar(n)      == [kind |-> "scalar", size |-> n]
Char           == [kind |-> "char", size |-> 1]
Struct(n, fs)  == [kind |-> "struct", size |-> n, fields |-> fs]
Field(at, t)   == [at |-> at, type |-> t]
Array(t, n)    == [kind |-> "array", elem |-> t, length |-> n,
                   size |-> IF n = Unbounded THEN Unbounded ELSE n * t.size]

Spans(u, at, target) ==
  at <= target /\ (u.size = Unbounded \/ target < at + u.size)

(***************************************************************************)
(* The subobjects of an object of type u at offset `at` that span target,  *)
(* outermost first, each with the object that contains it: what            *)
(* __liballocs_search_subobjects_spanning shows to its callback.           *)
(***************************************************************************)
RECURSIVE Spanning(_, _, _, _)
Spanning(u, at, box, target) ==
  LET self  == [type |-> u, at |-> at, box |-> box]
      inner == [type |-> u, at |-> at]
      below[i \in 0 .. IF u.kind = "struct" THEN Len(u.fields) ELSE 0] ==
        IF i = 0 THEN <<>>
        ELSE below[i - 1] \o Spanning(u.fields[i].type, at + u.fields[i].at,
                                      <<inner>>, target)
  IN IF ~Spans(u, at, target) THEN <<>>
     ELSE <<self>> \o
          CASE u.kind = "array" ->
                 LET k == (target - at) \div u.elem.size
                 IN Spanning(u.elem, at + k * u.elem.size, <<inner>>, target)
            [] u.kind = "struct" -> below[Len(u.fields)]
            [] OTHER -> <<>>

(* A bug: the first subobject at the target is taken whatever its size.    *)
FirstAtTarget(o, target, t) == o.at = target

(* bounds_cb stops at a subobject that starts at the target and has the    *)
(* size of the pointee; every other subobject lets the search go on.       *)
bounds_cb(o, target, t) == o.at = target /\ o.type.size = t.size

(* The array the callback remembers: the direct container, forgotten when  *)
(* the search descends through something that is not an array.             *)
ContainingArray(o) ==
  IF o.box # <<>> /\ o.box[1].type.kind = "array" THEN o.box ELSE <<>>

Bound(lower, upper) ==
  [known |-> TRUE, base |-> lower, size |-> (upper - lower) % UIntRange]
NoBounds == [known |-> FALSE, base |-> 0, size |-> UIntRange - 1]

(* The branch of a successful search: the whole containing array, or the   *)
(* object itself.                                                          *)
FoundBounds(alloc, obj, t, box) ==
  IF box = <<>> THEN Bound(obj, obj + t.size)
  ELSE LET array == box[1]
       IN Bound(array.at, IF array.type.length = Unbounded THEN alloc.size
                          ELSE array.at + array.type.length * t.size)

(* A bug: the bounds of a pointer that matches nothing are those of the    *)
(* object it is taken for.                                                 *)
FetchBoundsTrusting(alloc, obj, t) ==
  IF alloc.found /\ t.size # Unbounded THEN Bound(obj, obj + t.size)
  ELSE NoBounds

(***************************************************************************)
(* __fetch_bounds_internal.  alloc is what liballocs knows of the          *)
(* allocation: whether it found one, its size and its type, <<>> when it   *)
(* has none.                                                               *)
(***************************************************************************)
FetchBounds(alloc, obj, t) ==
  LET type    == IF alloc.type = <<>> THEN Char ELSE alloc.type[1]
      seen    == Spanning(type, 0, <<>>, obj)
      matches == {i \in 1 .. Len(seen) : bounds_cb(seen[i], obj, t)}
  IN IF ~alloc.found THEN NoBounds
     ELSE IF t.kind = "char"
          THEN IF obj > alloc.size THEN NoBounds ELSE Bound(0, alloc.size)
     ELSE IF t.size = Unbounded \/ matches = {} THEN Bound(obj, obj + 1)
     ELSE LET first == CHOOSE i \in matches : \A j \in matches : i <= j
          IN FoundBounds(alloc, obj, t, ContainingArray(seen[first]))

(***************************************************************************)
(* addrproxy_initlength: the number of items of the address proxy.         *)
(***************************************************************************)
Length(alloc, ptr, t) ==
  IF t.size = 0 \/ t.size = Unbounded THEN 0
  ELSE LET bounds == FetchBounds(alloc, ptr, t)
       IN IF bounds.known /\ bounds.base = ptr THEN bounds.size \div t.size
          ELSE 1

=============================================================================
