----------------------------- MODULE ArrayView -----------------------------
(***************************************************************************)
(* Array proxies as views on memory: making arrays, decoding pointers into *)
(* them, indexing, slicing and (re)initialising them, with the base        *)
(* proxies that keep their chunks alive (src/address_proxy.c).             *)
(*                                                                         *)
(* Memory is a row of cells, one per array item; a chunk is an allocation  *)
(* that holds one array.  The base proxy of a chunk is named by the chunk, *)
(* every other address proxy by an element of View.  How base proxies are  *)
(* counted and collected is the subject of ProxyLifetime; here a proxy is  *)
(* alive while Python code or another proxy refers to it.                  *)
(***************************************************************************)
EXTENDS Integers, Sequences, SequencesExt, FiniteSetsExt

CONSTANTS
  Chunk, View,      \* allocations; the address proxies that are no base
  Start, Size,      \* where the array of a chunk starts, how many items it has
  Slack,            \* cells that malloc adds at the end of a chunk
  Owner,            \* "python": made by an array constructor; "c": by a
                    \* foreign function; "static": a global of the library
  Structs,          \* the chunks whose items are structs
  Item, Bad,        \* values an item can have; a value that does not convert
  Index, SliceIndex, Argument, Decoded, MaxAddress,   \* bounds, see below
  DecodedLength(_, _),  \* addrproxy_initlength for a pointer into a chunk
  NULL, JUNK

(* Index: indices Python code assigns to; SliceIndex: bounds of slices;    *)
(* Argument: the sequences given to __init__; Decoded: the addresses C     *)
(* code returns pointers to; MaxAddress: the last cell, behind all chunks. *)
Address == 0 .. MaxAddress
Proxy == Chunk \cup View
Items(c) == Start[c] .. Start[c] + Size[c] - 1
Extent(c) == Start[c] .. Start[c] + Size[c] + Slack - 1

ASSUME ArrayAssumption ==
  /\ Start \in [Chunk -> Nat] /\ Size \in [Chunk -> Nat] /\ Slack \in Nat
  /\ MaxAddress \in Nat /\ \A c \in Chunk : Start[c] + Size[c] <= MaxAddress
  /\ Owner \in [Chunk -> {"python", "c", "static"}]
  /\ Structs \subseteq Chunk /\ 0 \in Item /\ Bad \notin Item
  /\ Argument \subseteq Seq(Item \cup {Bad})
  /\ Index \subseteq Int /\ SliceIndex \subseteq Int /\ Decoded \subseteq Address

(* Allocations do not overlap.                                             *)
ASSUME MallocAssumption ==
  \A c, d \in Chunk : c # d => Extent(c) \cap Extent(d) = {}

(* What PointerLengths checks of addrproxy_initlength: a length never      *)
(* reaches past the end of the array the pointer points into.              *)
ASSUME DecodedLengthAssumption ==
  \A c \in Chunk : \A p \in Extent(c) \cap Address :
    /\ DecodedLength(c, p) \in Nat
    /\ DecodedLength(c, p) > 0 => p + DecodedLength(c, p) <= Start[c] + Size[c]

(* The kinds of names and values are told apart.                           *)
ASSUME DistinctAssumption ==
  /\ Chunk \cap View = {} /\ NULL \notin Proxy /\ JUNK \notin Item
  /\ NULL \notin [p_ptr : Address, ap_length : Nat, holds : Chunk \cup {NULL}]

VARIABLES
  mem,        \* the cells
  allocated,  \* the chunks that exist
  proxy,      \* p_ptr, ap_length and the chunk whose base proxy p keeps alive
  pyref,      \* the proxies Python code refers to
  decoded,    \* the last pointer decoded: its address and the proxy it gave
  asserted    \* the proxy whose slicing failed assert(base_proxy)
vars == <<mem, allocated, proxy, pyref, decoded, asserted>>

AP(ptr, len, holds) == [p_ptr |-> ptr, ap_length |-> len, holds |-> holds]
BaseProxy(c) == AP(Start[c], Size[c], NULL)

Cells(p) == proxy[p].p_ptr .. proxy[p].p_ptr + proxy[p].ap_length - 1
Live == {p \in Proxy : proxy[p] # NULL}
Usable == Live \cap pyref

Init ==
  /\ mem = [a \in Address |->
              IF \E c \in Chunk : Owner[c] # "python" /\ a \in Items(c)
              THEN 0 ELSE JUNK]
  /\ allocated = {c \in Chunk : Owner[c] # "python"}
  /\ proxy = [p \in Proxy |-> NULL]
  /\ pyref = {}
  /\ decoded = <<>>
  /\ asserted = NULL

-----------------------------------------------------------------------------
(***************************************************************************)
(* Proxy_GetOrCreateBase: the chunk liballocs finds at an address, if it   *)
(* can have a base proxy: not one in static memory.                        *)
(***************************************************************************)
Lookup(a) ==
  {c \in allocated : a \in Extent(c)}

GetOrCreateBase(a) ==
  LET found == {c \in Lookup(a) : Owner[c] # "static"}
  IN IF found = {} THEN NULL ELSE CHOOSE c \in found : TRUE

WithBase(c) ==
  [proxy EXCEPT ![c] = IF @ = NULL THEN BaseProxy(c) ELSE @]

(***************************************************************************)
(* The release of p and, when p was the last to keep it alive, of the base *)
(* proxy behind it; the chunk of a base proxy is freed with it unless C    *)
(* code owns it.                                                           *)
(***************************************************************************)
HeldBy(c, ps) == \E p \in ps : proxy[p] # NULL /\ proxy[p].holds = c
Drop(p) ==
  LET base  == IF p \in Chunk THEN p ELSE proxy[p].holds
      dead  == {c \in {base} \ {NULL} : /\ c \notin pyref \ {p}
                                       /\ ~HeldBy(c, View \ {p})}
      gone  == dead \cup ({p} \cap View)
      freed == {c \in dead : Owner[c] = "python"}
  IN /\ p \in Usable
     /\ pyref' = pyref \ {p}
     /\ proxy' = [q \in Proxy |-> IF q \in gone THEN NULL ELSE proxy[q]]
     /\ allocated' = allocated \ freed
     /\ mem' = [a \in Address |->
                  IF \E c \in freed : a \in Items(c) THEN JUNK ELSE mem[a]]
     /\ decoded' = <<>>
     /\ UNCHANGED asserted

-----------------------------------------------------------------------------
(* addrproxy_init without argument: the view is zeroed.                    *)
Zeroed(ap) ==
  [a \in Address |->
     IF a \in ap.p_ptr .. ap.p_ptr + ap.ap_length - 1 THEN 0 ELSE mem[a]]

(* addrproxy_init with a sequence: its items are stored up to the first    *)
(* that does not convert; without one the rest of the view is zeroed.      *)

Good(xs) == IF \E i \in DOMAIN xs : xs[i] = Bad
            THEN Min({i \in DOMAIN xs : xs[i] = Bad}) - 1 ELSE Len(xs)
Converts(xs) == Good(xs) = Len(xs)
StoredAt(ap, xs, a) ==
  LET i == a - ap.p_ptr + 1
  IN CASE i \in 1 .. Good(xs) -> xs[i]
       [] i \in Good(xs) + 1 .. ap.ap_length /\ Converts(xs) -> 0
       [] OTHER -> mem[a]
Stored(ap, xs) == [a \in Address |-> StoredAt(ap, xs, a)]

(* arrayproxy_ctor with an integer.                                        *)
ConstructLength(c) ==
  /\ Owner[c] = "python" /\ c \notin allocated
  /\ allocated' = allocated \cup {c}
  /\ proxy' = [proxy EXCEPT ![c] = BaseProxy(c)]
  /\ pyref' = pyref \cup {c}
  /\ mem' = Zeroed(BaseProxy(c))
  /\ decoded' = <<>>
  /\ UNCHANGED asserted

(* arrayproxy_ctor with a sequence, which gives the array its length.  If  *)
(* an item does not convert, the proxy is released and the chunk freed.    *)
Construct(c, xs) ==
  /\ Owner[c] = "python" /\ c \notin allocated
  /\ Len(xs) = Size[c] /\ Converts(xs)
  /\ allocated' = allocated \cup {c}
  /\ proxy' = [proxy EXCEPT ![c] = BaseProxy(c)]
  /\ pyref' = pyref \cup {c}
  /\ mem' = Stored(BaseProxy(c), xs)
  /\ decoded' = <<>>
  /\ UNCHANGED asserted

(* addrproxy_init on an existing array; a longer sequence is a ValueError. *)
Reinit(p, xs) ==
  /\ p \in Usable /\ Len(xs) <= proxy[p].ap_length
  /\ mem' = Stored(proxy[p], xs)
  /\ decoded' = <<>>
  /\ UNCHANGED <<allocated, proxy, pyref, asserted>>

-----------------------------------------------------------------------------
(* addrproxy_subscript and addrproxy_item: a negative index counts from    *)
(* the end, and an index that is then out of range is an IndexError.       *)
FromEnd(p, i) == IF i < 0 THEN i + proxy[p].ap_length ELSE i

(* A bug: the item after the last can be read.                             *)
InRangeOrEnd(p, i) ==
  FromEnd(p, i) >= 0 /\ FromEnd(p, i) <= proxy[p].ap_length
InRange(p, i) == FromEnd(p, i) >= 0 /\ FromEnd(p, i) < proxy[p].ap_length
Item_(p, i) == mem[proxy[p].p_ptr + FromEnd(p, i)]

(* A bug: the first index past the end is accepted.                        *)
AssItemAtEnd(p, i, x) ==
  /\ p \in Usable /\ FromEnd(p, i) <= proxy[p].ap_length
  /\ proxy[p].p_ptr + FromEnd(p, i) \in Address
  /\ mem' = [mem EXCEPT ![proxy[p].p_ptr + FromEnd(p, i)] = x]
  /\ decoded' = <<>>
  /\ UNCHANGED <<allocated, proxy, pyref, asserted>>

(* PySequence_SetItem counts a negative index from the end, and            *)
(* addrproxy_ass_item compares it with the length only.                    *)
AssItem(p, i, x) ==
  /\ p \in Usable /\ FromEnd(p, i) < proxy[p].ap_length
  /\ proxy[p].p_ptr + FromEnd(p, i) \in Address
  /\ mem' = [mem EXCEPT ![proxy[p].p_ptr + FromEnd(p, i)] = x]
  /\ decoded' = <<>>
  /\ UNCHANGED <<allocated, proxy, pyref, asserted>>

(* p[i] = q[j].                                                            *)
Copy(p, i, q, j) ==
  q \in Usable /\ InRange(q, j) /\ AssItem(p, i, Item_(q, j))

-----------------------------------------------------------------------------
(* PySlice_AdjustIndices: both ends clamped to the array.                  *)
Clamp(i, len) ==
  IF i < 0 THEN Max({i + len, 0}) ELSE Min({i, len})
SliceLength(start, stop) == Max({stop - start, 0})

(* A bug: the slice does not keep the chunk alive.                         *)
SliceUnheld(v, a, b, w) ==
  LET len   == proxy[v].ap_length
      start == Clamp(a, len)
  IN /\ v \in Usable /\ w \notin Live
     /\ proxy' = [proxy EXCEPT ![w] =
                    AP(proxy[v].p_ptr + start,
                       SliceLength(start, Clamp(b, len)), NULL)]
     /\ pyref' = pyref \cup {w}
     /\ decoded' = <<>>
     /\ UNCHANGED <<mem, allocated, asserted>>

(* A bug: the length is counted from the start of the array.               *)
SliceFromStart(v, a, b, w) ==
  LET len   == proxy[v].ap_length
      start == Clamp(a, len)
      base  == GetOrCreateBase(proxy[v].p_ptr)
  IN /\ v \in Usable /\ w \notin Live /\ base # NULL
     /\ proxy' = [WithBase(base) EXCEPT ![w] =
                    AP(proxy[v].p_ptr + start, Clamp(b, len), base)]
     /\ pyref' = pyref \cup {w}
     /\ decoded' = <<>>
     /\ UNCHANGED <<mem, allocated, asserted>>

(***************************************************************************)
(* The slice case of addrproxy_subscript: a view on the items from start   *)
(* to stop that keeps alive the base proxy of the address the sliced view  *)
(* starts at.                                                              *)
(***************************************************************************)
Slice(v, a, b, w) ==
  LET len   == proxy[v].ap_length
      start == Clamp(a, len)
      base  == GetOrCreateBase(proxy[v].p_ptr)
  IN /\ v \in Usable /\ w \notin Live /\ base # NULL
     /\ proxy' = [WithBase(base) EXCEPT ![w] =
                    AP(proxy[v].p_ptr + start,
                       SliceLength(start, Clamp(b, len)), base)]
     /\ pyref' = pyref \cup {w}
     /\ decoded' = <<>>
     /\ UNCHANGED <<mem, allocated, asserted>>

(* assert(base_proxy) in the same function.                                *)
SliceAsserts(v) ==
  /\ v \in Usable /\ GetOrCreateBase(proxy[v].p_ptr) = NULL
  /\ asserted' = v
  /\ decoded' = <<>>
  /\ UNCHANGED <<mem, allocated, proxy, pyref>>

-----------------------------------------------------------------------------
(***************************************************************************)
(* addrproxy_getfrom: a pointer to items becomes the base proxy of the     *)
(* chunk when that is a proxy of the pointee type, which it is for arrays  *)
(* of structs, and when the pointer is to void; otherwise a new proxy.     *)
(***************************************************************************)
Decode(a, void, w) ==
  LET base == GetOrCreateBase(a)
      direct == base # NULL /\ (void \/ base \in Structs)
      got == IF direct THEN base ELSE w
  IN /\ Lookup(a) # {} /\ w \notin Live
     /\ direct \/ ~void
     /\ proxy' = IF direct THEN WithBase(base)
                 ELSE [IF base = NULL THEN proxy ELSE WithBase(base) EXCEPT
                         ![w] = AP(a, DecodedLength(CHOOSE c \in Lookup(a) : TRUE,
                                                 a), base)]
     /\ pyref' = pyref \cup {got}
     /\ decoded' = IF void THEN <<>> ELSE <<a, got>>
     /\ UNCHANGED <<mem, allocated, asserted>>

-----------------------------------------------------------------------------
Make == \E c \in Chunk : ConstructLength(c)
                         \/ \E xs \in Argument : Construct(c, xs)
Write(p) ==
  \/ \E i \in Index, x \in Item : AssItem(p, i, x)
  \/ \E q \in Proxy, i \in Index, j \in SliceIndex : Copy(p, i, q, j)
  \/ \E xs \in Argument : Reinit(p, xs)
Slicing(v) ==
  \/ \E a, b \in SliceIndex, w \in View : Slice(v, a, b, w)
  \/ SliceAsserts(v)
Decoding == \E a \in Decoded, void \in BOOLEAN, w \in View : Decode(a, void, w)

Next ==
  /\ asserted = NULL
  /\ \/ Make
     \/ Decoding
     \/ \E p \in Proxy : Write(p) \/ Slicing(p) \/ Drop(p)

Spec == Init /\ [][Next]_vars

-----------------------------------------------------------------------------
(* Memory and proxies are well-formed; only an array that exists here has  *)
(* failed the assertion.                                                   *)
TypeOK ==
  /\ mem \in [Address -> Item \cup {JUNK}]
  /\ allocated \subseteq Chunk
  /\ proxy \in [Proxy -> {NULL} \cup [p_ptr : Address, ap_length : Nat,
                                      holds : Chunk \cup {NULL}]]
  /\ pyref \subseteq Live
  /\ decoded = <<>> \/ decoded \in Decoded \X Live
  /\ asserted \in Live \cup {NULL}

(* A proxy Python code can use, through any slices of slices, views only   *)
(* items of one array that exists: its chunk is not freed before it.  "A   *)
(* base should always already exist" (address_proxy.c:68) when it is       *)
(* sliced: outside static memory only an empty slice may lack one, which   *)
(* may start at the end of its chunk, where liballocs finds nothing.       *)
ViewsExist ==
  \A p \in Live : Cells(p) # {} =>
    /\ asserted # p
    /\ \E c \in allocated : Cells(p) \subseteq Items(c)

(* The items of an array a program made are never memory nobody wrote:     *)
(* whatever is copied, sliced, re-initialised or fails on the way.         *)
NoJunk == \A p \in Live : \A a \in Cells(p) : mem[a] # JUNK

(* A slice shows the items Python's slicing of a list of the view's items  *)
(* would keep, in their order (tests/array_slices.py).                     *)
SlicedLikeList ==
  [][\A w \in View \ Live : (proxy'[w] # NULL /\ decoded' = <<>>) =>
       \A v \in Usable, a, b \in SliceIndex : Slice(v, a, b, w) =>
         LET len  == proxy[v].ap_length
             Kept(i) == /\ IF a >= 0 THEN i >= a ELSE i - len >= a
                        /\ IF b >= 0 THEN i < b ELSE i - len < b
             ap   == proxy'[w]
         IN ap.p_ptr .. ap.p_ptr + ap.ap_length - 1
              = {proxy[v].p_ptr + i : i \in {j \in 0 .. len - 1 : Kept(j)}}]_vars

(* Assigning an item or re-initialising through a view changes no item     *)
(* outside the view: "address proxy index out of range" is an error        *)
(* (address_proxy.c:92).                                                   *)
WritesInView ==
  [][(mem' # mem /\ proxy' = proxy) =>
       \A p \in Usable : Write(p) =>
         \A a \in Address : mem'[a] # mem[a] => a \in Cells(p)]_vars
=============================================================================
