-------------------------- MODULE ForeignDataProofs -------------------------
(***************************************************************************)
(* Proofs about ForeignData: arrays, base types and the whole; those about *)
(* structs are in CompositeInitProofs.                                     *)
(*                                                                         *)
(* Array proxies, for any chunks wherever they lie, any number of views,   *)
(* any indices and sequences.                                              *)
(*                                                                         *)
(* The argument: a view that shows items shows items of one chunk, and it  *)
(* holds the base proxy of that chunk unless the chunk is static           *)
(* (Viewing).  Whoever is held has a proxy (Kept) and whatever has a base  *)
(* proxy exists (Bases), so a slice of a slice finds a base, and the chunk *)
(* is freed only after the last view of it.  In chunks that exist nothing  *)
(* is unwritten (Written): what is copied comes from a view.               *)
(*                                                                         *)
(* Base types, for any width, any numbers and any contents of memory: a    *)
(* store writes the digits of a number in base ByteRange (Spelled), and    *)
(* the sum of as many digits as the type is wide is the number again       *)
(* (UnsignedValue), up to its sign (MeantFits).                            *)
(***************************************************************************)
EXTENDS ForeignData, SequenceTheorems, FiniteSetTheorems, WellFoundedInduction,
        TLAPS

AddressProxy == [p_ptr : Address, ap_length : Nat, holds : Chunk \cup {NULL}]

(* What a proxy shows is inside the array of c.                            *)
Fits(ap, c) ==
  Start[c] <= ap.p_ptr /\ ap.p_ptr + ap.ap_length <= Start[c] + Size[c]

Bases ==
  \A c \in Chunk : proxy[c] # NULL =>
    c \in allocated /\ Owner[c] # "static" /\ proxy[c] = BaseProxy(c)

Kept ==
  \A w \in View : (proxy[w] # NULL /\ proxy[w].holds # NULL) =>
    proxy[proxy[w].holds] # NULL

Shows(ap, c) == Fits(ap, c) /\ (Owner[c] = "static" \/ ap.holds = c)
Viewing ==
  \A w \in View : proxy[w] # NULL =>
    /\ proxy[w].p_ptr + proxy[w].ap_length \in Address
    /\ proxy[w].ap_length > 0 => \E c \in allocated : Shows(proxy[w], c)

Written == \A c \in allocated : \A a \in Items(c) : mem[a] # JUNK

Asserted == asserted # NULL => GetOrCreateBase(proxy[asserted].p_ptr) = NULL

IInv == TypeOK /\ Bases /\ Kept /\ Viewing /\ Written /\ Asserted

-----------------------------------------------------------------------------
(* Numbers and sequences.                                                  *)

(* A set of numbers has a smallest member: the intervals below its members *)
(* are finite sets, among which there is a smallest.                       *)
LEMMA SmallestMember ==
  ASSUME NEW S \in SUBSET Nat, S # {}
  PROVE  Min(S) \in S /\ \A m \in S : Min(S) <= m
<1> DEFINE Below == {0..n : n \in S}
           R == StrictSubsetOrdering(Nat)
<1>1. IsWellFoundedOn(R, FiniteSubsetsOf(Nat)) BY FS_StrictSubsetOrderingWellFounded
<1>2. Below \subseteq FiniteSubsetsOf(Nat)
  <2>1. \A n \in S : IsFiniteSet(0..n) /\ 0..n \subseteq Nat
    <3> TAKE n \in S
    <3>1. IsFiniteSet(0..n) BY FS_Interval
    <3> QED BY <3>1
  <2> QED BY <2>1 DEF FiniteSubsetsOf
<1>3. Below # {} OBVIOUS
<1>4. \E x \in Below : \A y \in Below : ~ (<<y, x>> \in R)
  <2> HIDE DEF R, Below
  <2> QED BY <1>1, <1>2, <1>3, WFMin
<1>5. PICK n \in S : \A y \in Below : ~ (<<y, 0..n>> \in R) BY <1>4
<1>6. ASSUME NEW m \in S, m < n PROVE FALSE
  <2>1. 0..m \in Below OBVIOUS
  <2>2. 0..m \subseteq 0..n /\ n \in 0..n /\ n \notin 0..m BY <1>6
  <2>3. <<0..m, 0..n>> \in R BY <2>2 DEF StrictSubsetOrdering
  <2> QED BY <2>1, <2>3, <1>5
<1>7. \A m \in S : n <= m BY <1>6
<1> QED BY <1>7 DEF Min

LEMMA SmallerAndLarger ==
  ASSUME NEW x \in Int, NEW y \in Int
  PROVE  /\ Min({x, y}) = IF x <= y THEN x ELSE y
         /\ Max({x, y}) = IF x >= y THEN x ELSE y
<1> DEFINE m == IF x <= y THEN x ELSE y
           n == IF x >= y THEN x ELSE y
<1>1. m \in {x, y} /\ \A z \in {x, y} : m <= z OBVIOUS
<1>2. n \in {x, y} /\ \A z \in {x, y} : n >= z OBVIOUS
<1>3. ASSUME NEW k \in {x, y}, \A z \in {x, y} : k <= z PROVE k = m BY <1>3
<1>4. ASSUME NEW k \in {x, y}, \A z \in {x, y} : k >= z PROVE k = n BY <1>4
<1>5. Min({x, y}) = m BY <1>1, <1>3 DEF Min
<1>6. Max({x, y}) = n BY <1>2, <1>4 DEF Max
<1> QED BY <1>5, <1>6

(* The ends of a slice, once clamped, are inside the array.                *)
LEMMA ClampInside ==
  ASSUME NEW i \in Int, NEW len \in Nat
  PROVE  /\ Clamp(i, len) \in 0..len
         /\ Clamp(i, len) = IF i < 0 THEN IF i + len >= 0 THEN i + len ELSE 0
                            ELSE IF i <= len THEN i ELSE len
<1>1. Max({i + len, 0}) = IF i + len >= 0 THEN i + len ELSE 0
  BY SmallerAndLarger
<1>2. Min({i, len}) = IF i <= len THEN i ELSE len BY SmallerAndLarger
<1> QED BY <1>1, <1>2 DEF Clamp

LEMMA SliceLengthIs ==
  ASSUME NEW start \in Int, NEW stop \in Int
  PROVE  SliceLength(start, stop) = IF stop >= start THEN stop - start ELSE 0
BY SmallerAndLarger DEF SliceLength

(* The items before the first that does not convert.                       *)
LEMMA GoodPrefix ==
  ASSUME NEW xs \in Argument
  PROVE  /\ Good(xs) \in 0..Len(xs)
         /\ \A i \in 1..Good(xs) : xs[i] \in Item
         /\ xs \in Seq(Item \cup {Bad})
<1>1. xs \in Seq(Item \cup {Bad}) /\ DOMAIN xs = 1..Len(xs) /\ Len(xs) \in Nat
  BY ArrayAssumption
<1>2. CASE \E i \in DOMAIN xs : xs[i] = Bad
  <2> DEFINE bad == {i \in DOMAIN xs : xs[i] = Bad}
  <2>1. bad \in SUBSET Nat /\ bad # {} BY <1>1, <1>2
  <2>2. Min(bad) \in bad /\ \A m \in bad : Min(bad) <= m
    <3> HIDE DEF bad
    <3> QED BY <2>1, SmallestMember
  <2>3. Good(xs) = Min(bad) - 1 BY <1>2 DEF Good
  <2>4. Min(bad) \in 1..Len(xs) /\ \A m \in bad : Min(bad) <= m BY <1>1, <2>2
  <2>5. ASSUME NEW i \in 1..Good(xs) PROVE xs[i] \in Item
    <3>1. i \in 1..Len(xs) /\ i < Min(bad)
      <4> HIDE DEF bad
      <4> QED BY <1>1, <2>3, <2>4
    <3>2. i \notin bad
      <4> HIDE DEF bad
      <4> QED BY <3>1, <2>4, <1>1
    <3>3. xs[i] # Bad BY <3>1, <3>2, <1>1
    <3>4. xs[i] \in Item \cup {Bad} BY <3>1, <1>1
    <3> QED BY <3>3, <3>4
  <2> HIDE DEF bad
  <2> QED BY <1>1, <2>3, <2>4, <2>5
<1>3. CASE ~ \E i \in DOMAIN xs : xs[i] = Bad
  <2>1. Good(xs) = Len(xs) BY <1>3 DEF Good
  <2> QED BY <1>1, <1>3, <2>1
<1> QED BY <1>2, <1>3

-----------------------------------------------------------------------------
(* Chunks and their base proxies.                                          *)

LEMMA LookupUnique ==
  ASSUME allocated \subseteq Chunk, NEW a, NEW c \in Lookup(a), NEW d \in Lookup(a)
  PROVE  c = d
BY MallocAssumption DEF Lookup

LEMMA BaseFound ==
  ASSUME allocated \subseteq Chunk, NEW a
  PROVE  \/ GetOrCreateBase(a) = NULL /\ \A c \in Lookup(a) : Owner[c] = "static"
         \/ /\ GetOrCreateBase(a) \in Lookup(a) /\ GetOrCreateBase(a) # NULL
            /\ Owner[GetOrCreateBase(a)] # "static"
<1> DEFINE found == {c \in Lookup(a) : Owner[c] # "static"}
<1>1. CASE found = {} BY <1>1 DEF GetOrCreateBase
<1>2. CASE found # {}
  <2>1. GetOrCreateBase(a) = CHOOSE c \in found : TRUE BY <1>2 DEF GetOrCreateBase
  <2>2. GetOrCreateBase(a) \in found
    <3> HIDE DEF found
    <3> QED BY <1>2, <2>1
  <2> QED BY <2>2, DistinctAssumption DEF Lookup, Proxy
<1> QED BY <1>1, <1>2

(* Every item of a chunk that is not static leads to its base.             *)
LEMMA BaseOfItem ==
  ASSUME allocated \subseteq Chunk, NEW c \in allocated, Owner[c] # "static",
         NEW a \in Items(c)
  PROVE  GetOrCreateBase(a) = c
<1>1. c \in Lookup(a) BY ArrayAssumption DEF Lookup, Items, Extent
<1>2. GetOrCreateBase(a) \in Lookup(a) BY <1>1, BaseFound
<1> QED BY <1>1, <1>2, LookupUnique

(* The proxies there are.                                                  *)
LEMMA ProxyTyped ==
  ASSUME IInv, NEW p \in Live
  PROVE  /\ p \in Proxy /\ proxy[p] \in AddressProxy /\ proxy[p] # NULL
         /\ proxy[p].p_ptr \in Address /\ proxy[p].ap_length \in Nat
         /\ proxy[p].holds \in Chunk \cup {NULL}
         /\ proxy[p].p_ptr + proxy[p].ap_length \in Address
<1>1. p \in Proxy /\ proxy[p] \in AddressProxy /\ proxy[p] # NULL
  BY DEF IInv, TypeOK, Live, AddressProxy
<1>2. CASE p \in Chunk
  <2>1. proxy[p] = BaseProxy(p) BY <1>1, <1>2 DEF IInv, Bases
  <2> QED BY <1>1, <1>2, <2>1, ArrayAssumption
          DEF BaseProxy, AP, AddressProxy, Address
<1>3. CASE p \in View
  BY <1>1, <1>3 DEF IInv, Viewing, AddressProxy
<1> QED BY <1>1, <1>2, <1>3 DEF Proxy

LEMMA BaseProxyTyped ==
  ASSUME NEW c \in Chunk
  PROVE  BaseProxy(c) \in AddressProxy /\ BaseProxy(c) # NULL
         /\ BaseProxy(c).p_ptr = Start[c] /\ BaseProxy(c).ap_length = Size[c]
BY ArrayAssumption, DistinctAssumption DEF BaseProxy, AP, AddressProxy, Address

(* Where a proxy shows items, they are those of a chunk.                   *)
LEMMA ShowsItems ==
  ASSUME IInv, NEW p \in Live, Cells(p) # {}
  PROVE  \E c \in allocated : /\ Cells(p) \subseteq Items(c)
                              /\ Owner[c] = "static" \/ p = c \/ proxy[p].holds = c
<1>1. /\ p \in Proxy /\ proxy[p].p_ptr \in Nat /\ proxy[p].ap_length \in Nat
      /\ allocated \subseteq Chunk
  BY ProxyTyped DEF Address, IInv, TypeOK
<1>2. CASE p \in Chunk
  <2>1. p \in allocated /\ proxy[p].p_ptr = Start[p] /\ proxy[p].ap_length = Size[p]
    BY <1>2, BaseProxyTyped DEF IInv, Bases, Live
  <2> QED BY <2>1 DEF Cells, Items
<1>3. CASE p \in View
  <2>1. proxy[p].ap_length > 0 BY <1>1 DEF Cells
  <2>2. PICK c \in allocated : Shows(proxy[p], c)
    BY <1>3, <2>1 DEF IInv, Viewing, Live
  <2>3. Start[c] \in Nat /\ Size[c] \in Nat BY <1>1, ArrayAssumption
  <2> QED BY <1>1, <2>2, <2>3 DEF Shows, Fits, Cells, Items
<1> QED BY <1>1, <1>2, <1>3 DEF Proxy

-----------------------------------------------------------------------------
(* What the steps do to chunks and proxies.                                *)

Shape ==
  /\ allocated \subseteq Chunk
  /\ proxy \in [Proxy -> {NULL} \cup AddressProxy]
  /\ pyref \subseteq Live
  /\ Bases /\ Kept /\ Viewing

LEMMA ShapeHolds == ASSUME IInv PROVE Shape
BY DEF IInv, TypeOK, Shape, AddressProxy

LEMMA ShapeSame ==
  ASSUME IInv, UNCHANGED <<allocated, proxy, pyref>> PROVE Shape'
BY DEF IInv, TypeOK, Shape, AddressProxy, Bases, Kept, Viewing, Live

(* A base proxy is made where there was none.                              *)
LEMMA BaseAdded ==
  ASSUME IInv, NEW c \in Chunk, c \in allocated', Owner[c] # "static",
         proxy' = [proxy EXCEPT ![c] = BaseProxy(c)],
         allocated \subseteq allocated', allocated' \subseteq Chunk,
         pyref' \subseteq pyref \cup {c}
  PROVE  Shape'
<1> USE DEF Shape
<1>1. /\ proxy \in [Proxy -> {NULL} \cup AddressProxy] /\ pyref \subseteq Live
      /\ Bases /\ Kept /\ Viewing
  BY ShapeHolds
<1>2. c \in Proxy /\ c \notin View BY DistinctAssumption DEF Proxy
<1>3. proxy' \in [Proxy -> {NULL} \cup AddressProxy] BY <1>1, BaseProxyTyped
<1>4. proxy'[c] = BaseProxy(c) /\ \A p \in Proxy \ {c} : proxy'[p] = proxy[p]
  BY <1>1, <1>2
<1>5. Live' = Live \cup {c} BY <1>2, <1>4, BaseProxyTyped DEF Live
<1>6. Bases' BY <1>1, <1>4 DEF Bases, Proxy
<1>7. \A w \in View : proxy'[w] = proxy[w] BY <1>2, <1>4 DEF Proxy
<1>8. Kept'
  <2> SUFFICES ASSUME NEW w \in View, proxy[w] # NULL, proxy[w].holds # NULL
               PROVE  proxy'[proxy[w].holds] # NULL
    BY <1>7 DEF Kept
  <2>1. proxy[proxy[w].holds] # NULL BY <1>1 DEF Kept
  <2>2. proxy[w].holds \in Proxy BY <1>1 DEF AddressProxy, Proxy
  <2> QED BY <2>1, <2>2, <1>4, BaseProxyTyped
<1>9. Viewing' BY <1>1, <1>7 DEF Viewing
<1> QED BY <1>1, <1>3, <1>5, <1>6, <1>8, <1>9

LEMMA BaseKnown ==
  ASSUME IInv, NEW c \in allocated, Owner[c] # "static"
  PROVE  WithBase(c) = [proxy EXCEPT ![c] = BaseProxy(c)]
BY DEF WithBase, IInv, Bases, TypeOK

(* A view is made, and the base it holds if there was none.                *)
LEMMA ViewAdded ==
  ASSUME IInv, NEW w \in View, w \notin Live, NEW ap \in AddressProxy,
         ap.holds # NULL => ap.holds \in allocated /\ Owner[ap.holds] # "static",
         ap.p_ptr + ap.ap_length \in Address,
         ap.ap_length > 0 => \E c \in allocated : Shows(ap, c),
         proxy' = [IF ap.holds = NULL THEN proxy ELSE WithBase(ap.holds)
                     EXCEPT ![w] = ap],
         allocated' = allocated, pyref' = pyref \cup {w}
  PROVE  Shape' /\ Live' = Live \cup {w} \cup ({ap.holds} \ {NULL})
<1> USE DEF Shape
<1>1. /\ proxy \in [Proxy -> {NULL} \cup AddressProxy] /\ pyref \subseteq Live
      /\ Bases /\ Kept /\ Viewing /\ allocated \subseteq Chunk
  BY ShapeHolds
<1>2. w \in Proxy /\ w \notin Chunk /\ ap # NULL
  BY DistinctAssumption DEF Proxy, AddressProxy
<1>3. /\ proxy' \in [Proxy -> {NULL} \cup AddressProxy]
      /\ proxy'[w] = ap
      /\ \A p \in Proxy \ {w} :
           proxy'[p] = IF p = ap.holds /\ p # NULL THEN BaseProxy(p) ELSE proxy[p]
  <2>1. CASE ap.holds = NULL
    <3>1. NULL \notin Proxy BY DistinctAssumption
    <3> QED BY <1>1, <1>2, <2>1, <3>1
  <2>2. CASE ap.holds # NULL
    <3>1. WithBase(ap.holds) = [proxy EXCEPT ![ap.holds] = BaseProxy(ap.holds)]
      BY <2>2, BaseKnown
    <3>2. proxy' = [[proxy EXCEPT ![ap.holds] = BaseProxy(ap.holds)]
                      EXCEPT ![w] = ap]
      BY <2>2, <3>1
    <3>3. BaseProxy(ap.holds) \in AddressProxy BY <1>1, <2>2, BaseProxyTyped
    <3> DEFINE with == [proxy EXCEPT ![ap.holds] = BaseProxy(ap.holds)]
    <3>4. with \in [Proxy -> {NULL} \cup AddressProxy] BY <1>1, <3>3
    <3>5. ap.holds \in Proxy /\ ap.holds # NULL BY <1>1, <2>2 DEF Proxy
    <3>6. \A p \in Proxy : with[p] = IF p = ap.holds THEN BaseProxy(p) ELSE proxy[p]
      BY <1>1
    <3>7. proxy' = [with EXCEPT ![w] = ap] BY <3>2
    <3> HIDE DEF with
    <3>8. proxy' \in [Proxy -> {NULL} \cup AddressProxy] /\ proxy'[w] = ap
      BY <1>2, <3>4, <3>7
    <3>9. \A p \in Proxy \ {w} : proxy'[p] = with[p] BY <3>4, <3>7
    <3> QED BY <3>5, <3>6, <3>8, <3>9
  <2> QED BY <2>1, <2>2
<1>4. Live' = Live \cup {w} \cup ({ap.holds} \ {NULL})
  <2>1. ap.holds = NULL \/ (ap.holds \in Chunk /\ ap.holds \in Proxy)
    BY DEF AddressProxy, Proxy
  <2>2. NULL \notin Proxy BY DistinctAssumption
  <2>3. ASSUME NEW p \in Proxy
        PROVE  p \in Live' <=> (p \in Live \/ p = w \/ p = ap.holds)
    <3>1. p # NULL BY <2>2
    <3>2. CASE p = w BY <1>2, <1>3, <3>2 DEF Live
    <3>3. CASE p # w /\ p = ap.holds
      <4>1. p \in Chunk BY <2>1, <3>1, <3>3
      <4>2. proxy'[p] = BaseProxy(p) BY <1>3, <3>1, <3>3
      <4> QED BY <3>3, <4>1, <4>2, BaseProxyTyped DEF Live
    <3>4. CASE p # w /\ p # ap.holds
      <4>1. proxy'[p] = proxy[p] BY <1>3, <3>4
      <4> QED BY <3>4, <4>1 DEF Live
    <3> QED BY <3>2, <3>3, <3>4
  <2> QED BY <1>2, <2>1, <2>2, <2>3 DEF Live
<1>5. Bases' BY <1>1, <1>2, <1>3 DEF Bases, Proxy
<1>6. \A v \in View \ {w} : proxy'[v] = proxy[v]
  BY <1>1, <1>3, DistinctAssumption DEF Proxy
<1>7. Kept'
  <2> SUFFICES ASSUME NEW v \in View, proxy'[v] # NULL, proxy'[v].holds # NULL
               PROVE  proxy'[v].holds \in Live'
    BY DEF Kept, Live
  <2>1. CASE v = w BY <2>1, <1>3, <1>4
  <2>2. CASE v # w
    <3>1. proxy[v] # NULL /\ proxy[v].holds # NULL /\ proxy'[v].holds = proxy[v].holds
      BY <2>2, <1>6
    <3>2. proxy[v].holds \in Proxy BY <1>1, <3>1 DEF AddressProxy, Proxy
    <3>3. proxy[v].holds \in Live BY <1>1, <3>1, <3>2 DEF Kept, Live
    <3> QED BY <3>1, <3>3, <1>4
  <2> QED BY <2>1, <2>2
<1>8. Viewing'
  <2> SUFFICES ASSUME NEW v \in View, proxy'[v] # NULL
               PROVE  /\ proxy'[v].p_ptr + proxy'[v].ap_length \in Address
                      /\ proxy'[v].ap_length > 0 =>
                           \E c \in allocated : Shows(proxy'[v], c)
    BY DEF Viewing
  <2>1. CASE v = w BY <2>1, <1>3
  <2>2. CASE v # w BY <2>2, <1>6, <1>1 DEF Viewing
  <2> QED BY <2>1, <2>2
<1> QED BY <1>1, <1>3, <1>4, <1>5, <1>7, <1>8

(* The release of a proxy leaves alone what other proxies need.            *)
LEMMA DropShape ==
  ASSUME IInv, NEW p \in Proxy, Drop(p) PROVE Shape' /\ Written'
<1> USE DEF Shape
<1> DEFINE base  == IF p \in Chunk THEN p ELSE proxy[p].holds
           dead  == {c \in {base} \ {NULL} : /\ c \notin pyref \ {p}
                                            /\ ~HeldBy(c, View \ {p})}
           gone  == dead \cup ({p} \cap View)
           freed == {c \in dead : Owner[c] = "python"}
<1>1. /\ proxy \in [Proxy -> {NULL} \cup AddressProxy] /\ pyref \subseteq Live
      /\ Bases /\ Kept /\ Viewing /\ allocated \subseteq Chunk /\ Written
  BY ShapeHolds DEF IInv
<1>2. /\ p \in Live /\ pyref' = pyref \ {p}
      /\ proxy' = [q \in Proxy |-> IF q \in gone THEN NULL ELSE proxy[q]]
      /\ allocated' = allocated \ freed
      /\ mem' = [a \in Address |->
                   IF \E c \in freed : a \in Items(c) THEN JUNK ELSE mem[a]]
  BY DEF Drop, Usable
<1>3. dead \subseteq Chunk /\ gone \subseteq Proxy
  BY <1>2, ProxyTyped DEF Proxy
<1>4. \A w \in View \ {p} : proxy[w] # NULL => proxy[w].holds \notin dead
  BY DEF HeldBy
<1>5. \A q \in pyref \ {p} : q \notin gone OBVIOUS
<1> HIDE DEF base, dead, gone, freed
<1>6. freed \subseteq dead /\ dead \subseteq gone BY DEF freed, gone
<1>7. proxy' \in [Proxy -> {NULL} \cup AddressProxy] BY <1>1, <1>2
<1>8. \A q \in Proxy : proxy'[q] # NULL <=> (proxy[q] # NULL /\ q \notin gone)
  BY <1>2
<1>9. \A q \in Proxy : proxy'[q] # NULL => proxy'[q] = proxy[q] BY <1>2
<1>10. pyref' \subseteq Live' BY <1>1, <1>2, <1>5, <1>8 DEF Live
<1>11. Bases' BY <1>1, <1>2, <1>6, <1>8, <1>9 DEF Bases, Proxy
<1>12. \A w \in View : proxy'[w] # NULL => w # p
  BY <1>2, <1>8 DEF gone, Proxy
<1>13. Kept'
  <2> SUFFICES ASSUME NEW w \in View, proxy'[w] # NULL, proxy'[w].holds # NULL
               PROVE  proxy'[proxy'[w].holds] # NULL
    BY DEF Kept
  <2>1. w # p /\ proxy[w] # NULL /\ proxy'[w] = proxy[w]
    BY <1>8, <1>9, <1>12 DEF Proxy
  <2>2. proxy[w].holds \in Chunk BY <2>1, <1>1 DEF AddressProxy, Proxy
  <2>3. proxy[w].holds \notin gone BY <2>1, <2>2, <1>4, DistinctAssumption DEF gone
  <2>4. proxy[proxy[w].holds] # NULL BY <2>1, <1>1 DEF Kept
  <2> QED BY <2>1, <2>2, <2>3, <2>4, <1>8 DEF Proxy
<1>14. Viewing'
  <2> SUFFICES ASSUME NEW w \in View, proxy'[w] # NULL, proxy'[w].ap_length > 0
               PROVE  \E c \in allocated' : Shows(proxy'[w], c)
    BY <1>1, <1>8, <1>9 DEF Viewing, Proxy
  <2>1. w # p /\ proxy[w] # NULL /\ proxy'[w] = proxy[w]
    BY <1>8, <1>9, <1>12 DEF Proxy
  <2>2. PICK c \in allocated : Shows(proxy[w], c) BY <2>1, <1>1 DEF Viewing
  <2>3. c \notin freed
    <3>1. CASE Owner[c] = "static" BY <3>1 DEF freed
    <3>2. CASE proxy[w].holds = c BY <3>2, <2>1, <1>4, <1>6
    <3> QED BY <2>2, <3>1, <3>2 DEF Shows
  <2> QED BY <1>2, <2>1, <2>2, <2>3
<1>15. Written'
  <2> SUFFICES ASSUME NEW c \in allocated', NEW a \in Items(c) PROVE mem'[a] # JUNK
    BY DEF Written
  <2>1. c \in allocated /\ c \notin freed /\ c \in Chunk /\ mem[a] # JUNK
    BY <1>1, <1>2 DEF Written
  <2>2. Start[c] \in Nat /\ Size[c] \in Nat /\ Start[c] + Size[c] <= MaxAddress
        /\ Slack \in Nat /\ MaxAddress \in Nat
    BY <2>1, ArrayAssumption
  <2>3. a \in Address BY <2>2 DEF Items, Address
  <2>4. \A d \in freed : a \notin Items(d)
    <3> TAKE d \in freed
    <3>1. d \in Chunk /\ d # c BY <2>1, <1>3, <1>6
    <3>2. a \in Extent(c) BY <2>2 DEF Items, Extent
    <3>3. a \notin Extent(d) BY <3>1, <3>2, <2>1, MallocAssumption
    <3>4. Start[d] \in Nat /\ Size[d] \in Nat BY <3>1, ArrayAssumption
    <3> QED BY <2>2, <3>3, <3>4 DEF Items, Extent
  <2> QED BY <1>2, <2>1, <2>3, <2>4
<1> QED BY <1>1, <1>2, <1>7, <1>10, <1>11, <1>13, <1>14, <1>15

-----------------------------------------------------------------------------
(* What the steps do to memory.                                            *)

Memory == mem \in [Address -> Item \cup {JUNK}]

(* Storing a sequence writes items, inside the view only, and all of it    *)
(* when every item converts.                                               *)
LEMMA StoredItems ==
  ASSUME Memory, NEW ap, ap.p_ptr \in Nat, ap.ap_length \in Nat,
         NEW xs \in Argument, Len(xs) <= ap.ap_length,
         NEW a \in Address
  PROVE  /\ Stored(ap, xs)[a] = mem[a]
            \/ /\ Stored(ap, xs)[a] \in Item
               /\ a \in ap.p_ptr .. ap.p_ptr + ap.ap_length - 1
         /\ (Converts(xs) /\ a \in ap.p_ptr .. ap.p_ptr + ap.ap_length - 1)
              => Stored(ap, xs)[a] \in Item
<1> DEFINE i == a - ap.p_ptr + 1
<1>1. /\ Good(xs) \in 0..Len(xs) /\ Len(xs) \in Nat
      /\ \A k \in 1..Good(xs) : xs[k] \in Item
  BY GoodPrefix
<1>2. a \in Nat /\ i \in Int BY ArrayAssumption DEF Address
<1>3. 0 \in Item BY ArrayAssumption
<1>4. Stored(ap, xs)[a] =
        CASE i \in 1 .. Good(xs) -> xs[i]
          [] i \in Good(xs) + 1 .. ap.ap_length /\ Converts(xs) -> 0
          [] OTHER -> mem[a]
  BY DEF Stored, StoredAt
<1>5. CASE i \in 1 .. Good(xs)
  <2>1. Stored(ap, xs)[a] = xs[i] BY <1>1, <1>2, <1>4, <1>5
  <2> QED BY <1>1, <1>2, <1>5, <2>1
<1>6. CASE i \notin 1 .. Good(xs) /\ i \in Good(xs) + 1 .. ap.ap_length
           /\ Converts(xs)
  <2>1. Stored(ap, xs)[a] = 0 BY <1>4, <1>6
  <2> QED BY <1>1, <1>2, <1>3, <1>6, <2>1
<1>7. CASE i \notin 1 .. Good(xs)
           /\ ~(i \in Good(xs) + 1 .. ap.ap_length /\ Converts(xs))
  <2>1. Stored(ap, xs)[a] = mem[a] BY <1>4, <1>7
  <2>2. (Converts(xs) /\ a \in ap.p_ptr .. ap.p_ptr + ap.ap_length - 1) => FALSE
    BY <1>1, <1>2, <1>7
  <2> QED BY <2>1, <2>2
<1> QED BY <1>5, <1>6, <1>7

LEMMA ZeroedItems ==
  ASSUME Memory, NEW ap, NEW a \in Address
  PROVE  Zeroed(ap)[a] = IF a \in ap.p_ptr .. ap.p_ptr + ap.ap_length - 1
                         THEN 0 ELSE mem[a]
BY DEF Zeroed

(* Storing items makes nothing unwritten.                                  *)
LEMMA WrittenKept ==
  ASSUME IInv, mem' \in [Address -> Item \cup {JUNK}],
         \A a \in Address : mem'[a] = mem[a] \/ mem'[a] \in Item,
         NEW c \in Chunk,
         \A a \in Items(c) : mem'[a] \in Item,
         allocated' \subseteq allocated \cup {c}
  PROVE  Written'
<1> SUFFICES ASSUME NEW d \in allocated', NEW a \in Items(d) PROVE mem'[a] # JUNK
  BY DEF Written
<1>1. JUNK \notin Item BY DistinctAssumption
<1>2. CASE d = c BY <1>1, <1>2
<1>3. CASE d # c
  <2>1. d \in allocated /\ d \in Chunk BY <1>3 DEF IInv, TypeOK
  <2>2. mem[a] # JUNK BY <2>1 DEF IInv, Written
  <2>3. a \in Address BY <2>1, ArrayAssumption DEF Items, Address
  <2> QED BY <1>1, <2>2, <2>3
<1> QED BY <1>2, <1>3

LEMMA ItemsInAddress ==
  ASSUME NEW c \in Chunk PROVE Items(c) \subseteq Address
BY ArrayAssumption DEF Items, Address

LEMMA WrittenStays ==
  ASSUME IInv, \A a \in Address : mem'[a] = mem[a] \/ mem'[a] \in Item,
         UNCHANGED allocated
  PROVE  Written'
<1> SUFFICES ASSUME NEW d \in allocated, NEW a \in Items(d) PROVE mem'[a] # JUNK
  BY DEF Written
<1>1. d \in Chunk /\ mem[a] # JUNK BY DEF IInv, TypeOK, Written
<1>2. a \in Address BY <1>1, ItemsInAddress
<1> QED BY <1>1, <1>2, DistinctAssumption

-----------------------------------------------------------------------------
(* The steps.                                                              *)

(* Steps that decode no pointer and fail no assertion.                     *)
LEMMA StepKeeps ==
  ASSUME IInv, asserted = NULL, Shape', Memory', Written', decoded' = <<>>,
         UNCHANGED asserted
  PROVE  IInv'
BY DEF IInv, TypeOK, Shape, Memory, Asserted, AddressProxy

LEMMA ConstructLengthKeeps ==
  ASSUME IInv, asserted = NULL, NEW c \in Chunk, ConstructLength(c) PROVE IInv'
<1> USE DEF ConstructLength
<1>1. Shape' BY BaseAdded, ShapeHolds DEF Shape
<1>2. Memory BY DEF IInv, TypeOK, Memory
<1>3. Start[c] \in Nat /\ Size[c] \in Nat /\ 0 \in Item BY ArrayAssumption
<1>4. \A a \in Address : mem'[a] = IF a \in Items(c) THEN 0 ELSE mem[a]
  BY <1>2, BaseProxyTyped, ZeroedItems DEF Items
<1>5. mem' \in [Address -> Item \cup {JUNK}]
  BY <1>2, <1>3, <1>4 DEF Zeroed, Memory
<1>6. Written' BY <1>3, <1>4, <1>5, WrittenKept, ItemsInAddress
<1> QED BY <1>1, <1>5, <1>6, StepKeeps DEF Memory

LEMMA ConstructKeeps ==
  ASSUME IInv, asserted = NULL, NEW c \in Chunk, NEW xs \in Argument,
         Construct(c, xs)
  PROVE  IInv'
<1> USE DEF Construct
<1>1. Shape' BY BaseAdded, ShapeHolds DEF Shape
<1>2. Memory BY DEF IInv, TypeOK, Memory
<1>3. /\ Start[c] \in Nat /\ Size[c] \in Nat
      /\ BaseProxy(c).p_ptr = Start[c] /\ BaseProxy(c).ap_length = Size[c]
  BY ArrayAssumption, BaseProxyTyped
<1>4. \A a \in Address : /\ mem'[a] = mem[a] \/ mem'[a] \in Item
                         /\ a \in Items(c) => mem'[a] \in Item
  BY <1>2, <1>3, StoredItems DEF Items
<1>5. mem' \in [Address -> Item \cup {JUNK}]
  BY <1>2, <1>4 DEF Stored, Memory
<1>6. Written' BY <1>4, <1>5, WrittenKept, ItemsInAddress
<1> QED BY <1>1, <1>5, <1>6, StepKeeps DEF Memory

LEMMA ReinitKeeps ==
  ASSUME IInv, asserted = NULL, NEW p \in Proxy, NEW xs \in Argument, Reinit(p, xs)
  PROVE  IInv'
<1> USE DEF Reinit
<1>1. Shape' BY ShapeSame
<1>2. Memory BY DEF IInv, TypeOK, Memory
<1>3. proxy[p].p_ptr \in Nat /\ proxy[p].ap_length \in Nat
  BY ProxyTyped DEF Usable, Address
<1>4. \A a \in Address : mem'[a] = mem[a] \/ mem'[a] \in Item
  BY <1>2, <1>3, StoredItems
<1>5. mem' \in [Address -> Item \cup {JUNK}] BY <1>2, <1>4 DEF Stored, Memory
<1>6. Written' BY <1>4, WrittenStays
<1> QED BY <1>1, <1>5, <1>6, StepKeeps DEF Memory

LEMMA AssItemKeeps ==
  ASSUME IInv, asserted = NULL, NEW p \in Proxy, NEW i \in Index, NEW x \in Item,
         AssItem(p, i, x)
  PROVE  IInv'
<1> USE DEF AssItem
<1>1. Shape' BY ShapeSame
<1>2. Memory BY DEF IInv, TypeOK, Memory
<1>3. \A a \in Address : mem'[a] = mem[a] \/ mem'[a] \in Item BY <1>2 DEF Memory
<1>4. mem' \in [Address -> Item \cup {JUNK}] BY <1>2 DEF Memory
<1>5. Written' BY <1>3, WrittenStays
<1> QED BY <1>1, <1>4, <1>5, StepKeeps DEF Memory

(* What an index reads is an item.                                         *)
LEMMA ItemRead ==
  ASSUME IInv, NEW q \in Usable, NEW j \in SliceIndex, InRange(q, j)
  PROVE  Item_(q, j) \in Item
<1>1. q \in Live /\ proxy[q].p_ptr \in Nat /\ proxy[q].ap_length \in Nat
  BY ProxyTyped DEF Usable, Address
<1>2. j \in Int BY ArrayAssumption
<1>3. FromEnd(q, j) \in 0 .. proxy[q].ap_length - 1
  BY <1>1, <1>2 DEF InRange, FromEnd
<1> DEFINE a == proxy[q].p_ptr + FromEnd(q, j)
<1>4. a \in Cells(q) BY <1>1, <1>3 DEF Cells
<1>5. PICK c \in allocated : a \in Items(c)
  <2> HIDE DEF a
  <2> QED BY <1>1, <1>4, ShowsItems
<1>6. c \in Chunk /\ mem[a] # JUNK BY <1>5 DEF IInv, TypeOK, Written
<1>7. mem[a] \in Item BY <1>5, <1>6, ItemsInAddress DEF IInv, TypeOK
<1> QED BY <1>7 DEF Item_

(* A slice shows a part of what the sliced view shows.                     *)
LEMMA SliceInside ==
  ASSUME IInv, NEW v \in Live, NEW x \in SliceIndex, NEW y \in SliceIndex,
         NEW base \in Chunk
  PROVE  LET len   == proxy[v].ap_length
             start == Clamp(x, len)
             ap    == AP(proxy[v].p_ptr + start,
                         SliceLength(start, Clamp(y, len)), base)
         IN /\ ap \in AddressProxy /\ ap.holds = base
            /\ ap.p_ptr + ap.ap_length \in Address
            /\ ap.p_ptr = proxy[v].p_ptr + start
            /\ proxy[v].p_ptr <= ap.p_ptr
            /\ ap.ap_length > 0 =>
                 ap.p_ptr + ap.ap_length <= proxy[v].p_ptr + proxy[v].ap_length
<1> DEFINE len   == proxy[v].ap_length
           start == Clamp(x, len)
           stop  == Clamp(y, len)
           n     == SliceLength(start, stop)
<1>1. proxy[v].p_ptr \in Address /\ len \in Nat /\ proxy[v].p_ptr + len \in Address
  BY ProxyTyped
<1>2. x \in Int /\ y \in Int /\ MaxAddress \in Nat BY ArrayAssumption
<1>3. start \in 0..len /\ stop \in 0..len BY <1>1, <1>2, ClampInside
<1>4. n = IF stop >= start THEN stop - start ELSE 0
  BY <1>1, <1>3, SliceLengthIs
<1> HIDE DEF start, stop, n, len
<1>5. /\ n \in Nat /\ proxy[v].p_ptr + start \in Address
      /\ proxy[v].p_ptr + start + n \in Address
      /\ n > 0 => proxy[v].p_ptr + start + n <= proxy[v].p_ptr + len
  BY <1>1, <1>2, <1>3, <1>4 DEF Address
<1>6. /\ AP(proxy[v].p_ptr + start, n, base) \in AddressProxy
      /\ AP(proxy[v].p_ptr + start, n, base).holds = base
      /\ AP(proxy[v].p_ptr + start, n, base).p_ptr = proxy[v].p_ptr + start
      /\ AP(proxy[v].p_ptr + start, n, base).ap_length = n
  BY <1>5 DEF AP, AddressProxy
<1>7. proxy[v].p_ptr <= proxy[v].p_ptr + start BY <1>1, <1>3 DEF Address
<1> QED BY <1>5, <1>6, <1>7 DEF len, start, stop, n

LEMMA SliceKeeps ==
  ASSUME IInv, asserted = NULL, NEW v \in Proxy, NEW x \in SliceIndex,
         NEW y \in SliceIndex, NEW w \in View, Slice(v, x, y, w)
  PROVE  IInv'
<1> DEFINE len   == proxy[v].ap_length
           start == Clamp(x, len)
           base  == GetOrCreateBase(proxy[v].p_ptr)
           ap    == AP(proxy[v].p_ptr + start, SliceLength(start, Clamp(y, len)), base)
<1>1. /\ v \in Live /\ w \notin Live /\ base # NULL
      /\ proxy' = [WithBase(base) EXCEPT ![w] = ap]
      /\ pyref' = pyref \cup {w} /\ decoded' = <<>>
      /\ UNCHANGED <<mem, allocated, asserted>>
  BY DEF Slice, Usable
<1>2. /\ base \in Lookup(proxy[v].p_ptr) /\ base \in allocated /\ base \in Chunk
      /\ Owner[base] # "static"
  BY <1>1, BaseFound DEF IInv, TypeOK, Lookup
<1> HIDE DEF base
<1>3. /\ ap \in AddressProxy /\ ap.holds = base
      /\ ap.p_ptr + ap.ap_length \in Address
      /\ proxy[v].p_ptr <= ap.p_ptr
      /\ ap.ap_length > 0 =>
           ap.p_ptr + ap.ap_length <= proxy[v].p_ptr + proxy[v].ap_length
  BY <1>1, <1>2, SliceInside
<1> HIDE DEF ap
<1>4. ASSUME ap.ap_length > 0 PROVE Shows(ap, base)
  <2>1. /\ proxy[v].p_ptr \in Nat /\ proxy[v].ap_length \in Nat
        /\ ap.p_ptr \in Nat /\ ap.ap_length \in Nat
        /\ Start[base] \in Nat /\ Size[base] \in Nat
    BY <1>1, <1>2, <1>3, ProxyTyped, ArrayAssumption DEF AddressProxy, Address
  <2>2. proxy[v].p_ptr \in Cells(v)
    BY <2>1, <1>3, <1>4 DEF Cells
  <2>3. PICK c \in allocated : Cells(v) \subseteq Items(c)
    BY <1>1, <2>2, ShowsItems
  <2>4. c \in Chunk /\ Start[c] \in Nat /\ Size[c] \in Nat /\ Slack \in Nat
    BY ArrayAssumption DEF IInv, TypeOK
  <2>5. c \in Lookup(proxy[v].p_ptr)
    BY <2>2, <2>3, <2>4 DEF Lookup, Items, Extent
  <2>6. c = base BY <1>2, <2>5, LookupUnique DEF IInv, TypeOK
  <2>7. proxy[v].p_ptr + proxy[v].ap_length - 1 \in Items(c)
    BY <2>1, <2>3, <1>3, <1>4 DEF Cells
  <2>8. proxy[v].p_ptr \in Items(c) BY <2>2, <2>3
  <2> QED BY <2>1, <2>6, <2>7, <2>8, <1>3, <1>4 DEF Shows, Fits, Items
<1>5. Shape' BY <1>1, <1>2, <1>3, <1>4, ViewAdded
<1>6. Memory' /\ Written' BY <1>1 DEF IInv, TypeOK, Memory, Written
<1> QED BY <1>1, <1>5, <1>6, StepKeeps

LEMMA SliceAssertsKeeps ==
  ASSUME IInv, NEW v \in Proxy, SliceAsserts(v) PROVE IInv'
<1>1. /\ v \in Live /\ GetOrCreateBase(proxy[v].p_ptr) = NULL
      /\ asserted' = v /\ decoded' = <<>>
      /\ UNCHANGED <<mem, allocated, proxy, pyref>>
  BY DEF SliceAsserts, Usable
<1>2. Shape' BY <1>1, ShapeSame
<1>3. Live' = Live BY <1>1 DEF Live
<1>4. Asserted' BY <1>1 DEF Asserted, GetOrCreateBase, Lookup
<1>5. TypeOK' /\ Written' BY <1>1, <1>3 DEF IInv, TypeOK, Written
<1> QED BY <1>2, <1>4, <1>5 DEF IInv, Shape

(* Decoding.                                                               *)
LEMMA DecodeKeeps ==
  ASSUME IInv, asserted = NULL, NEW x \in Decoded, NEW void \in BOOLEAN, NEW w \in View,
         Decode(x, void, w)
  PROVE  IInv'
<1> DEFINE base   == GetOrCreateBase(x)
           direct == base # NULL /\ (void \/ base \in Structs)
           got    == IF direct THEN base ELSE w
           chunk  == CHOOSE c \in Lookup(x) : TRUE
           ap     == AP(x, DecodedLength(chunk, x), base)
<1>1. /\ Lookup(x) # {} /\ w \notin Live /\ (direct \/ ~void)
      /\ proxy' = IF direct THEN WithBase(base)
                  ELSE [IF base = NULL THEN proxy ELSE WithBase(base) EXCEPT ![w] = ap]
      /\ pyref' = pyref \cup {got}
      /\ decoded' = IF void THEN <<>> ELSE <<x, got>>
      /\ UNCHANGED <<mem, allocated, asserted>>
  BY DEF Decode
<1>2. chunk \in Lookup(x) BY <1>1
<1>3. /\ allocated \subseteq Chunk /\ chunk \in allocated /\ chunk \in Chunk
      /\ x \in Extent(chunk) /\ x \in Address
      /\ Start[chunk] \in Nat /\ Size[chunk] \in Nat /\ MaxAddress \in Nat
      /\ Start[chunk] + Size[chunk] <= MaxAddress
  BY <1>2, ArrayAssumption DEF IInv, TypeOK, Lookup
<1>4. \/ base = NULL /\ Owner[chunk] = "static"
      \/ base = chunk /\ base # NULL /\ Owner[chunk] # "static"
  BY <1>2, <1>3, BaseFound, LookupUnique
<1> HIDE DEF base, chunk
<1>5. DecodedLength(chunk, x) \in Nat
      /\ (DecodedLength(chunk, x) > 0 =>
            x + DecodedLength(chunk, x) <= Start[chunk] + Size[chunk])
  BY <1>3, DecodedLengthAssumption
<1>6. /\ ap \in AddressProxy /\ ap.holds = base /\ ap.p_ptr = x
      /\ ap.ap_length = DecodedLength(chunk, x)
  BY <1>3, <1>4, <1>5 DEF AP, AddressProxy
<1>7. ap.p_ptr + ap.ap_length \in Address BY <1>3, <1>5, <1>6 DEF Address
<1>8. Shows(ap, chunk) \/ ap.ap_length = 0
  BY <1>3, <1>4, <1>5, <1>6 DEF Shows, Fits, Extent
<1>9. Memory' /\ Written' BY <1>1 DEF IInv, TypeOK, Memory, Written
<1>10. CASE direct
  <2>1. base = chunk /\ got = base /\ proxy' = WithBase(base) BY <1>1, <1>4, <1>10
  <2>2. proxy' = [proxy EXCEPT ![base] = BaseProxy(base)]
    BY <2>1, <1>3, <1>4, <1>10, BaseKnown
  <2>3. Shape'
    BY <1>1, <1>3, <1>4, <1>10, <2>1, <2>2, BaseAdded
  <2>4. proxy'[base] = BaseProxy(base) /\ base \in Live'
    BY <2>1, <2>2, <1>3, BaseProxyTyped DEF IInv, TypeOK, Live, Proxy
  <2>5. IInv'
    BY <1>1, <1>9, <2>1, <2>3, <2>4
       DEF IInv, TypeOK, Shape, Memory, Asserted, AddressProxy
  <2> QED BY <2>5
<1>11. CASE ~direct
  <2>1. got = w /\ decoded' = <<x, w>>
        /\ proxy' = [IF base = NULL THEN proxy ELSE WithBase(base) EXCEPT ![w] = ap]
    BY <1>1, <1>11
  <2> HIDE DEF ap
  <2>2. Shape' /\ w \in Live'
    <3>1. ap.holds # NULL => ap.holds \in allocated /\ Owner[ap.holds] # "static"
      BY <1>3, <1>4, <1>6
    <3>2. proxy' = [IF ap.holds = NULL THEN proxy ELSE WithBase(ap.holds)
                      EXCEPT ![w] = ap]
      BY <1>6, <2>1
    <3>3. ap.ap_length > 0 => \E c \in allocated : Shows(ap, c) BY <1>3, <1>8
    <3>4. pyref' = pyref \cup {w} BY <1>1, <2>1
    <3> QED BY <1>1, <1>6, <1>7, <3>1, <3>2, <3>3, <3>4, ViewAdded
  <2>4. IInv'
    BY <1>1, <1>9, <2>1, <2>2
       DEF IInv, TypeOK, Shape, Memory, Asserted, AddressProxy
  <2> QED BY <2>4
<1> QED BY <1>10, <1>11

LEMMA DropKeeps ==
  ASSUME IInv, asserted = NULL, NEW p \in Proxy, Drop(p) PROVE IInv'
<1>1. Shape' /\ Written' BY DropShape
<1>2. Memory' BY DEF Drop, IInv, TypeOK, Memory
<1> QED BY <1>1, <1>2, StepKeeps DEF Drop

LEMMA InitEstablishes == ASSUME Init PROVE IInv
<1> USE DEF Init
<1>1. 0 \in Item BY ArrayAssumption
<1>2. TypeOK BY <1>1 DEF TypeOK, Live
<1>3. Written
  <2> SUFFICES ASSUME NEW c \in allocated, NEW a \in Items(c) PROVE mem[a] # JUNK
    BY DEF Written
  <2>1. a \in Address /\ Owner[c] # "python" /\ c \in Chunk BY ItemsInAddress
  <2>2. mem[a] = 0 BY <2>1
  <2> QED BY <1>1, <2>2, DistinctAssumption
<1>4. Bases /\ Kept /\ Viewing /\ Asserted
  BY DEF Bases, Kept, Viewing, Asserted, Proxy
<1> QED BY <1>2, <1>3, <1>4 DEF IInv

LEMMA WriteKeeps ==
  ASSUME IInv, asserted = NULL, NEW p \in Proxy, Write(p)
  PROVE  IInv'
<1>1. CASE \E i \in Index, x \in Item : AssItem(p, i, x)
  BY <1>1, AssItemKeeps DEF AssItem
<1>2. CASE \E q \in Proxy, i \in Index, j \in SliceIndex : Copy(p, i, q, j)
  <2>1. PICK q \in Proxy, i \in Index, j \in SliceIndex : Copy(p, i, q, j) BY <1>2
  <2>2. Item_(q, j) \in Item BY <2>1, ItemRead DEF Copy
  <2>3. AssItem(p, i, Item_(q, j)) BY <2>1 DEF Copy
  <2>4. decoded' = <<>> BY <2>3 DEF AssItem
  <2> QED BY <2>2, <2>3, <2>4, AssItemKeeps
<1>3. CASE \E xs \in Argument : Reinit(p, xs)
  BY <1>3, ReinitKeeps DEF Reinit
<1> QED BY <1>1, <1>2, <1>3 DEF Write

(* Every step keeps the invariant.                                         *)
LEMMA NextKeeps ==
  ASSUME IInv, Next
  PROVE  IInv'
<1>1. asserted = NULL BY DEF Next
<1>2. CASE Make
  <2>1. PICK c \in Chunk : \/ ConstructLength(c)
                           \/ \E xs \in Argument : Construct(c, xs)
    BY <1>2 DEF Make
  <2>2. CASE ConstructLength(c)
    <3>1. IInv' BY <1>1, <2>2, ConstructLengthKeeps
    <3> QED BY <2>2, <3>1 DEF ConstructLength
  <2>3. CASE \E xs \in Argument : Construct(c, xs)
    <3>1. IInv' BY <1>1, <2>3, ConstructKeeps
    <3> QED BY <2>3, <3>1 DEF Construct
  <2> QED BY <2>1, <2>2, <2>3
<1>3. CASE Decoding
  <2>1. PICK x \in Decoded, void \in BOOLEAN, w \in View : Decode(x, void, w)
    BY <1>3 DEF Decoding
  <2> QED BY <1>1, <2>1, DecodeKeeps
<1>4. ASSUME NEW p \in Proxy, Write(p) PROVE IInv'
  BY <1>1, <1>4, WriteKeeps
<1>5. ASSUME NEW p \in Proxy, Slicing(p) PROVE IInv'
  <2>1. CASE \E x, y \in SliceIndex, w \in View : Slice(p, x, y, w)
    <3>1. PICK x \in SliceIndex, y \in SliceIndex, w \in View : Slice(p, x, y, w)
      BY <2>1
    <3>2. decoded' = <<>> BY <3>1 DEF Slice
    <3> QED BY <1>1, <3>1, <3>2, SliceKeeps
  <2>2. CASE SliceAsserts(p)
    <3>1. decoded' = <<>> BY <2>2 DEF SliceAsserts
    <3> QED BY <2>2, <3>1, SliceAssertsKeeps
  <2> QED BY <1>5, <2>1, <2>2 DEF Slicing
<1>6. ASSUME NEW p \in Proxy, Drop(p) PROVE IInv'
  BY <1>1, <1>6, DropKeeps
<1> QED BY <1>2, <1>3, <1>4, <1>5, <1>6 DEF Next

LEMMA StutterKeeps ==
  ASSUME IInv, UNCHANGED vars PROVE IInv'
<1> USE DEF vars
<1>1. Live' = Live BY DEF Live
<1>2. Shape' BY ShapeSame
<1>3. Asserted' BY DEF IInv, Asserted, GetOrCreateBase, Lookup
<1> QED BY <1>1, <1>2, <1>3 DEF IInv, TypeOK, Shape, Written

LEMMA Invariant == Spec => []IInv
<1>1. Init => IInv BY InitEstablishes
<1>2. IInv /\ [Next]_vars => IInv' BY NextKeeps, StutterKeeps
<1> QED BY <1>1, <1>2, PTL DEF Spec

-----------------------------------------------------------------------------
(* The results.                                                            *)

(* Views, indices and decoded pointers stay within memory.                 *)
THEOREM TypeCorrect == Spec => []TypeOK
<1>1. IInv => TypeOK BY DEF IInv
<1> QED BY <1>1, Invariant, PTL

(* The items a proxy shows are those of one array that exists, through any *)
(* slices of slices, and it can be sliced: assert(base_proxy) in           *)
(* addrproxy_subscript holds where no chunk is static memory.              *)
THEOREM ViewsAlwaysExist ==
  ASSUME \A c \in Chunk : Owner[c] # "static"
  PROVE  Spec => []ViewsExist
<1>1. ASSUME IInv PROVE ViewsExist
  <2> SUFFICES ASSUME NEW p \in Live, Cells(p) # {}
               PROVE  /\ asserted # p
                      /\ \E c \in allocated : Cells(p) \subseteq Items(c)
    BY DEF ViewsExist
  <2>1. PICK c \in allocated : Cells(p) \subseteq Items(c) BY <1>1, ShowsItems
  <2>2. c \in Chunk /\ Owner[c] # "static" /\ c # NULL
    BY <1>1, DistinctAssumption DEF IInv, TypeOK, Proxy
  <2>3. proxy[p].p_ptr \in Cells(p)
    BY <1>1, ProxyTyped DEF Cells, Address
  <2>4. GetOrCreateBase(proxy[p].p_ptr) = c
    BY <1>1, <2>1, <2>2, <2>3, BaseOfItem DEF IInv, TypeOK
  <2>5. p # NULL BY DistinctAssumption DEF Live
  <2>6. asserted # p BY <1>1, <2>2, <2>4, <2>5 DEF IInv, Asserted
  <2> QED BY <2>1, <2>6
<1> QED BY <1>1, Invariant, PTL

(* Static memory or not: what a proxy shows is never freed memory.         *)
THEOREM ShownIsAllocated ==
  Spec => [](\A p \in Live : Cells(p) # {} =>
               \E c \in allocated : Cells(p) \subseteq Items(c))
<1>1. IInv => \A p \in Live : Cells(p) # {} =>
                \E c \in allocated : Cells(p) \subseteq Items(c)
  BY ShowsItems
<1> QED BY <1>1, Invariant, PTL

(* No item that Python code can read is memory nobody has written.         *)
THEOREM NeverJunk == Spec => []NoJunk
<1>1. ASSUME IInv PROVE NoJunk
  <2> SUFFICES ASSUME NEW p \in Live, NEW a \in Cells(p) PROVE mem[a] # JUNK
    BY DEF NoJunk
  <2>1. PICK c \in allocated : a \in Items(c) BY <1>1, ShowsItems
  <2> QED BY <1>1, <2>1 DEF IInv, Written
<1> QED BY <1>1, Invariant, PTL

(* A slice shows the items Python's slicing of a list would keep, whatever *)
(* the ends, negative and out of range ones included (address_proxy.c:53). *)
THEOREM SlicesLikeLists == Spec => SlicedLikeList
<1> DEFINE A == \A w \in View \ Live : (proxy'[w] # NULL /\ decoded' = <<>>) =>
       \A v \in Usable, a, b \in SliceIndex : Slice(v, a, b, w) =>
         LET len  == proxy[v].ap_length
             Keep(i) == /\ IF a >= 0 THEN i >= a ELSE i - len >= a
                        /\ IF b >= 0 THEN i < b ELSE i - len < b
             ap   == proxy'[w]
         IN ap.p_ptr .. ap.p_ptr + ap.ap_length - 1
              = {proxy[v].p_ptr + i : i \in {j \in 0 .. len - 1 : Keep(j)}}
<1>1. IInv => A
  <2> SUFFICES ASSUME IInv, NEW w \in View \ Live, NEW v \in Usable,
                      NEW a \in SliceIndex, NEW b \in SliceIndex, Slice(v, a, b, w)
      PROVE LET len  == proxy[v].ap_length
                Keep(i) == /\ IF a >= 0 THEN i >= a ELSE i - len >= a
                           /\ IF b >= 0 THEN i < b ELSE i - len < b
                ap   == proxy'[w]
            IN ap.p_ptr .. ap.p_ptr + ap.ap_length - 1
                 = {proxy[v].p_ptr + i : i \in {j \in 0 .. len - 1 : Keep(j)}}
    OBVIOUS
  <2> DEFINE len   == proxy[v].ap_length
             ptr   == proxy[v].p_ptr
             start == Clamp(a, len)
             stop  == Clamp(b, len)
             n     == SliceLength(start, stop)
             base  == GetOrCreateBase(ptr)
             Keep(i) == /\ IF a >= 0 THEN i >= a ELSE i - len >= a
                        /\ IF b >= 0 THEN i < b ELSE i - len < b
  <2>1. proxy' = [WithBase(base) EXCEPT ![w] = AP(ptr + start, n, base)]
    BY DEF Slice
  <2>2. w \in DOMAIN WithBase(base) BY DEF WithBase, IInv, TypeOK, Proxy
  <2>3. proxy'[w] = AP(ptr + start, n, base) BY <2>1, <2>2
  <2>4. proxy'[w].p_ptr = ptr + start /\ proxy'[w].ap_length = n BY <2>3 DEF AP
  <2>5. ptr \in Nat /\ len \in Nat BY ProxyTyped DEF Usable, Address
  <2>6. a \in Int /\ b \in Int BY ArrayAssumption
  <2>7. /\ start \in 0..len /\ stop \in 0..len
        /\ start = IF a < 0 THEN IF a + len >= 0 THEN a + len ELSE 0
                   ELSE IF a <= len THEN a ELSE len
        /\ stop = IF b < 0 THEN IF b + len >= 0 THEN b + len ELSE 0
                  ELSE IF b <= len THEN b ELSE len
    BY <2>5, <2>6, ClampInside
  <2>8. n = IF stop >= start THEN stop - start ELSE 0 BY <2>7, SliceLengthIs
  <2> HIDE DEF len, ptr, start, stop, n
  <2>9. \A i \in 0 .. len - 1 : Keep(i) <=> (start <= i /\ i < stop)
    BY <2>5, <2>6, <2>7
  <2> HIDE DEF Keep
  <2>10. ptr + start .. ptr + start + n - 1
           = {ptr + i : i \in {j \in 0 .. len - 1 : Keep(j)}}
    <3>1. ASSUME NEW x \in ptr + start .. ptr + start + n - 1
          PROVE  \E i \in {j \in 0 .. len - 1 : Keep(j)} : x = ptr + i
      <4>1. x - ptr \in 0 .. len - 1 /\ start <= x - ptr /\ x - ptr < stop
        BY <2>5, <2>7, <2>8, <3>1
      <4> QED BY <4>1, <2>9, <2>5, <2>7, <3>1
    <3>2. ASSUME NEW i \in 0 .. len - 1, Keep(i)
          PROVE  ptr + i \in ptr + start .. ptr + start + n - 1
      BY <2>5, <2>7, <2>8, <2>9, <3>2
    <3> QED BY <3>1, <3>2
  <2> QED BY <2>4, <2>10 DEF len, ptr, Keep
<1>2. IInv /\ [Next]_vars => [A]_vars BY <1>1
<1>3. Spec => [][A]_vars
  <2> HIDE DEF A
  <2> QED BY <1>2, Invariant, PTL DEF Spec
<1> QED BY <1>3 DEF SlicedLikeList

(* An assignment through a view with an index that is not negative, a copy *)
(* and an initialisation change no item outside the view                   *)
(* (address_proxy.c:92).                                                   *)
THEOREM WritesAlwaysInView ==
  ASSUME Index \subseteq Nat
  PROVE  Spec => WritesInView
<1> DEFINE A == (mem' # mem /\ proxy' = proxy) =>
       \A p \in Usable : Write(p) =>
         \A a \in Address : mem'[a] # mem[a] => a \in Cells(p)
<1>1. ASSUME IInv, NEW p \in Usable, Write(p), NEW a \in Address, mem'[a] # mem[a]
      PROVE  a \in Cells(p)
  <2>1. proxy[p].p_ptr \in Nat /\ proxy[p].ap_length \in Nat
    BY <1>1, ProxyTyped DEF Usable, Address
  <2>2. ASSUME NEW i \in Index, NEW x, AssItem(p, i, x) PROVE a \in Cells(p)
    <3>1. i \in Nat /\ ~(i < 0) OBVIOUS
    <3>2. FromEnd(p, i) = i BY <3>1 DEF FromEnd
    <3>3. i < proxy[p].ap_length /\ a = proxy[p].p_ptr + i
      BY <1>1, <2>2, <3>2 DEF AssItem, IInv, TypeOK
    <3> QED BY <2>1, <3>1, <3>3 DEF Cells
  <2>3. ASSUME NEW xs \in Argument, Reinit(p, xs) PROVE a \in Cells(p)
    <3>1. Memory /\ mem' = Stored(proxy[p], xs) /\ Len(xs) <= proxy[p].ap_length
      BY <1>1, <2>3 DEF IInv, TypeOK, Memory, Reinit
    <3> QED BY <1>1, <2>1, <3>1, StoredItems DEF Cells
  <2> QED BY <1>1, <2>2, <2>3 DEF Write, Copy
<1>2. IInv => A
  <2> SUFFICES ASSUME IInv, NEW p \in Usable, Write(p)
               PROVE  \A a \in Address : mem'[a] # mem[a] => a \in Cells(p)
    OBVIOUS
  <2> QED BY <1>1
<1>3. IInv /\ [Next]_vars => [A]_vars BY <1>2
<1>4. Spec => [][A]_vars
  <2> HIDE DEF A
  <2> QED BY <1>3, Invariant, PTL DEF Spec
<1> QED BY <1>4 DEF WritesInView

-----------------------------------------------------------------------------
(* Functions on the numbers, and their digits.                             *)

LEMMA SetInduction ==
  ASSUME NEW S, 0 \in S, \A n \in Nat : n \in S => n + 1 \in S
  PROVE  Nat \subseteq S
<1> SUFFICES ASSUME Nat \ S # {} PROVE FALSE OBVIOUS
<1>1. PICK n \in Nat \ S : \A m \in Nat \ S : n <= m BY SmallestMember
<1>2. n - 1 \in Nat /\ n - 1 \in S BY <1>1
<1> QED BY <1>1, <1>2

(* A function on the numbers can be defined by what its first value is and *)
(* how each value follows from the one before: parts of it exist up to any *)
(* number, and agree as far as they go.                                    *)
Turns(F, S) == F \in [S \X Nat -> S]
Follows(f, S, c, F) ==
  f \in [Nat -> S] /\ f[0] = c /\ \A k \in Nat : f[k + 1] = F[<<f[k], k>>]

LEMMA Recursion ==
  ASSUME NEW S, NEW c \in S, NEW F, Turns(F, S)
  PROVE  \E f : Follows(f, S, c, F)
<1> USE DEF Turns
<1> DEFINE Part(g, k) ==
      /\ g \in [0 .. k -> S] /\ g[0] = c
      /\ \A i \in 0 .. k - 1 : g[i + 1] = F[<<g[i], i>>]
           Reached == {k \in Nat : \E g : Part(g, k)}
           part(k) == CHOOSE g : Part(g, k)
           f == [k \in Nat |-> part(k)[k]]
<1>1. \A k \in Nat : \E g : Part(g, k)
  <2>1. 0 \in Reached
    <3> DEFINE g == [i \in 0 .. 0 |-> c]
    <3>1. Part(g, 0) OBVIOUS
    <3> QED BY <3>1
  <2>2. ASSUME NEW k \in Nat, k \in Reached PROVE k + 1 \in Reached
    <3>1. PICK g : Part(g, k) BY <2>2
    <3> DEFINE h == [i \in 0 .. k + 1 |-> IF i <= k THEN g[i] ELSE F[<<g[k], k>>]]
    <3>2. g[k] \in S /\ F[<<g[k], k>>] \in S BY <3>1
    <3>3. h \in [0 .. k + 1 -> S] /\ h[0] = c BY <3>1, <3>2
    <3>4. ASSUME NEW i \in 0 .. (k + 1) - 1 PROVE h[i + 1] = F[<<h[i], i>>]
      <4>1. i \in 0 .. k /\ i <= k /\ h[i] = g[i] OBVIOUS
      <4>2. CASE i = k BY <4>1, <4>2
      <4>3. CASE i # k
        <5>1. i \in 0 .. k - 1 /\ h[i + 1] = g[i + 1] BY <4>1, <4>3
        <5> QED BY <5>1, <4>1, <3>1
      <4> QED BY <4>2, <4>3
    <3>5. Part(h, k + 1) BY <3>3, <3>4
    <3> HIDE DEF h, Part
    <3> QED BY <3>5
  <2> HIDE DEF Reached
  <2>3. Nat \subseteq Reached BY <2>1, <2>2, SetInduction
  <2> QED BY <2>3 DEF Reached
<1> HIDE DEF Reached
<1>2. \A k \in Nat : Part(part(k), k)
  <2> HIDE DEF Part
  <2> QED BY <1>1
<1> HIDE DEF part
<1>3. ASSUME NEW k \in Nat PROVE part(k + 1)[k] = part(k)[k]
  <2> DEFINE Agree == {i \in Nat : i <= k => part(k + 1)[i] = part(k)[i]}
  <2>0. Part(part(k + 1), k + 1) /\ Part(part(k), k)
    <3> HIDE DEF Part
    <3> QED BY <1>2
  <2>1. 0 \in Agree BY <2>0
  <2>2. ASSUME NEW i \in Nat, i \in Agree PROVE i + 1 \in Agree
    <3> SUFFICES ASSUME i + 1 <= k PROVE part(k + 1)[i + 1] = part(k)[i + 1]
      OBVIOUS
    <3>1. i \in 0 .. k - 1 /\ i \in 0 .. (k + 1) - 1 OBVIOUS
    <3>2. part(k + 1)[i] = part(k)[i] BY <2>2
    <3> QED BY <2>0, <3>1, <3>2
  <2> HIDE DEF Agree
  <2>3. k \in Agree BY <2>1, <2>2, SetInduction
  <2> QED BY <2>3 DEF Agree
<1>4. ASSUME NEW k \in Nat PROVE f[k] \in S /\ f[k + 1] = F[<<f[k], k>>]
  <2>1. Part(part(k), k) /\ Part(part(k + 1), k + 1)
    <3> HIDE DEF Part
    <3> QED BY <1>2
  <2>2. k \in 0 .. k /\ k \in 0 .. (k + 1) - 1 OBVIOUS
  <2>3. part(k)[k] \in S BY <2>1, <2>2
  <2>4. part(k + 1)[k + 1] = F[<<part(k + 1)[k], k>>] BY <2>1, <2>2
  <2>5. f[k] = part(k)[k] /\ f[k + 1] = part(k + 1)[k + 1] OBVIOUS
  <2> HIDE DEF f, Part
  <2> QED BY <2>3, <2>4, <2>5, <1>3
<1>5. f[0] = c BY <1>2
<1>6. f \in [Nat -> S] BY <1>4
<1>7. Follows(f, S, c, F) BY <1>4, <1>5, <1>6 DEF Follows
<1> HIDE DEF f
<1> QED BY <1>7

(* Division with remainder, and that there is only one.                    *)
LEMMA Division ==
  ASSUME NEW P \in Nat \ {0}, NEW u \in Nat
  PROVE  /\ u \div P \in Nat /\ u % P \in 0 .. P - 1
         /\ u = P * (u \div P) + (u % P)
OBVIOUS

LEMMA DivisionUnique ==
  ASSUME NEW P \in Nat \ {0}, NEW q \in Int, NEW r \in 0 .. P - 1
  PROVE  (P * q + r) \div P = q /\ (P * q + r) % P = r
OBVIOUS

LEMMA Products ==
  ASSUME NEW P \in Nat, NEW a \in Nat, NEW b \in Nat, a <= b
  PROVE  P * a \in Nat /\ P * a <= P * b
OBVIOUS

(* One digit more.                                                         *)
LEMMA NextDigit ==
  ASSUME NEW B \in Nat \ {0}, NEW P \in Nat \ {0}, NEW u \in Nat
  PROVE  /\ B * P \in Nat \ {0}
         /\ u % (B * P) = (u % P) + ((u \div P) % B) * P
<1> DEFINE q == u \div P
           r == u % P
           s == q \div B
           d == q % B
           R == B * P
           v == P * d + r
<1>1. q \in Nat /\ r \in 0 .. P - 1 /\ u = P * q + r BY Division
<1>2. s \in Nat /\ d \in 0 .. B - 1 /\ q = B * s + d BY <1>1, Division
<1> HIDE DEF q, r, s, d
<1>3. P * d \in Nat /\ P * d <= P * (B - 1)
  <2>1. d \in Nat /\ B - 1 \in Nat /\ d <= B - 1 /\ P \in Nat BY <1>2
  <2> QED BY <2>1, Products
<1>4. P * (B - 1) = R - P /\ R \in Nat \ {0} OBVIOUS
<1>5. v \in 0 .. R - 1 BY <1>1, <1>3, <1>4
<1>6. P * q = R * s + P * d
  <2>1. P * q = P * (B * s) + P * d BY <1>2
  <2>2. P * (B * s) = R * s BY <1>2
  <2> QED BY <2>1, <2>2
<1>7. u = R * s + v BY <1>1, <1>2, <1>3, <1>6
<1>8. v = r + d * P BY <1>1, <1>2
<1> HIDE DEF R, v
<1>9. (R * s + v) % R = v BY <1>2, <1>4, <1>5, DivisionUnique
<1>10. u % R = r + d * P BY <1>7, <1>8, <1>9
<1> QED BY <1>4, <1>10 DEF q, r, s, d, R

-----------------------------------------------------------------------------
(* Base types.                                                             *)

LEMMA ByteFacts ==
  /\ ByteRange \in Nat \ {0} /\ ByteRange >= 2 /\ MemSize \in Nat
  /\ \A t \in BaseType : t.size \in Nat \ {0}
BY BaseAssumption DEF Base!Assumptions

LEMMA Powers ==
  /\ Base!Power[0] = 1
  /\ \A k \in Nat : /\ Base!Power[k] \in Nat \ {0}
                    /\ Base!Power[k + 1] = ByteRange * Base!Power[k]
<1> DEFINE F == [x \in (Nat \ {0}) \X Nat |-> ByteRange * x[1]]
           P == Base!Power
<1>1. 1 \in Nat \ {0} /\ Turns(F, Nat \ {0}) BY ByteFacts DEF Turns
<1>2. PICK f : Follows(f, Nat \ {0}, 1, F)
  <2> HIDE DEF F
  <2> QED BY <1>1, Recursion
<1>3. /\ f \in [Nat -> Nat \ {0}] /\ f[0] = 1
      /\ \A k \in Nat : f[k + 1] = ByteRange * f[k]
  BY <1>2 DEF Follows
<1>4. f = [k \in Nat |-> IF k = 0 THEN 1 ELSE ByteRange * f[k - 1]]
  <2>1. \A k \in Nat : f[k] = IF k = 0 THEN 1 ELSE ByteRange * f[k - 1]
    <3> TAKE k \in Nat
    <3>1. k # 0 => k - 1 \in Nat /\ f[(k - 1) + 1] = ByteRange * f[k - 1] BY <1>3
    <3> QED BY <3>1, <1>3
  <2> QED BY <2>1, <1>3
<1>5. P = [k \in Nat |-> IF k = 0 THEN 1 ELSE ByteRange * P[k - 1]]
  BY <1>4 DEF Base!Power
<1> HIDE DEF P
<1>6. P[0] = 1 /\ \A k \in Nat : P[k + 1] = ByteRange * P[k]
  <2>1. P[0] = 1 BY <1>5
  <2>2. ASSUME NEW k \in Nat PROVE P[k + 1] = ByteRange * P[k]
    <3>1. k + 1 \in Nat /\ k + 1 # 0 /\ (k + 1) - 1 = k OBVIOUS
    <3> QED BY <3>1, <1>5
  <2> QED BY <2>1, <2>2
<1> DEFINE S == {k \in Nat : P[k] \in Nat \ {0}}
<1>7. 0 \in S BY <1>6
<1>8. \A k \in Nat : k \in S => k + 1 \in S BY <1>6, ByteFacts
<1>9. \A k \in Nat : P[k] \in Nat \ {0}
  <2> HIDE DEF S
  <2>1. Nat \subseteq S BY <1>7, <1>8, SetInduction
  <2> QED BY <2>1 DEF S
<1> QED BY <1>6, <1>9 DEF P

Contents == [1 .. MemSize -> 0 .. ByteRange - 1]

(* The loop that puts bytes together has a result.                         *)
LEMMA UnsignedSum ==
  ASSUME bytes \in Contents, NEW t \in BaseType, NEW at \in Base!Place(t)
  PROVE  \E low \in [0 .. t.size -> Nat] :
           /\ low[0] = 0 /\ Base!Unsigned(t, at) = low[t.size]
           /\ \A k \in 0 .. t.size - 1 :
                low[k + 1] = low[k] + bytes[at + k] * Base!Power[k]
<1> DEFINE n == t.size
           digit(k) == IF k < n THEN bytes[at + k] ELSE 0
           F == [x \in Nat \X Nat |-> x[1] + digit(x[2]) * Base!Power[x[2]]]
<1>0. n \in Nat \ {0} /\ at \in 1 .. MemSize - n + 1 BY ByteFacts DEF Base!Place
<1>1. \A k \in Nat : digit(k) \in Nat
  <2> TAKE k \in Nat
  <2>1. k < n => at + k \in 1 .. MemSize BY <1>0, ByteFacts
  <2> QED BY <2>1, ByteFacts DEF Contents
<1>2. 0 \in Nat /\ Turns(F, Nat)
  <2> HIDE DEF digit
  <2>1. \A v, k \in Nat : v + digit(k) * Base!Power[k] \in Nat BY <1>1, Powers
  <2> QED BY <2>1 DEF Turns
<1>3. PICK f : Follows(f, Nat, 0, F)
  <2> HIDE DEF F
  <2> QED BY <1>2, Recursion
<1>4. f[0] = 0 /\ \A k \in Nat : f[k + 1] = f[k] + digit(k) * Base!Power[k]
  <2> HIDE DEF digit
  <2> QED BY <1>3 DEF Follows
<1> DEFINE Step(g, i) == IF i = 0 THEN 0
                         ELSE g[i - 1] + bytes[at + i - 1] * Base!Power[i - 1]
           low == CHOOSE g : g = [i \in 0 .. n |-> Step(g, i)]
<1>5. low = [i \in 0 .. n |-> Step(low, i)]
  <2> DEFINE g == [i \in 0 .. n |-> f[i]]
  <2>1. ASSUME NEW i \in 0 .. n PROVE g[i] = Step(g, i)
    <3>1. CASE i = 0 BY <3>1, <1>4
    <3>2. CASE i # 0
      <4>1. i - 1 \in Nat /\ i - 1 \in 0 .. n /\ i - 1 < n /\ (i - 1) + 1 = i
            /\ at + (i - 1) = at + i - 1
        BY <3>2, <1>0
      <4>2. f[i] = f[i - 1] + bytes[at + i - 1] * Base!Power[i - 1]
        BY <4>1, <1>4
      <4> QED BY <3>2, <4>1, <4>2
    <3> QED BY <3>1, <3>2
  <2>2. g = [i \in 0 .. n |-> Step(g, i)] BY <2>1
  <2> HIDE DEF g, Step
  <2> QED BY <2>2
<1>6. Base!Unsigned(t, at) = low[n] BY DEF Base!Unsigned
<1> HIDE DEF low
<1>7. low[0] = 0 BY <1>0, <1>5
<1>8. ASSUME NEW k \in 0 .. n - 1
      PROVE  low[k + 1] = low[k] + bytes[at + k] * Base!Power[k]
  <2>1. k + 1 \in 0 .. n /\ k + 1 # 0 /\ (k + 1) - 1 = k /\ at + (k + 1) - 1 = at + k
    BY <1>0
  <2> QED BY <2>1, <1>5
<1>9. ASSUME NEW k \in 0 .. n PROVE low[k] \in Nat
  <2> DEFINE S == {i \in Nat : i <= n => low[i] \in Nat}
  <2>1. 0 \in S BY <1>7
  <2>2. ASSUME NEW i \in Nat, i \in S PROVE i + 1 \in S
    <3> SUFFICES ASSUME i + 1 <= n PROVE low[i + 1] \in Nat OBVIOUS
    <3>1. i \in 0 .. n - 1 /\ low[i] \in Nat BY <1>0, <2>2
    <3>2. bytes[at + i] \in Nat /\ Base!Power[i] \in Nat
      BY <1>0, <1>1, <3>1, Powers
    <3> QED BY <1>8, <3>1, <3>2
  <2> HIDE DEF S
  <2>3. k \in S BY <2>1, <2>2, <1>0, SetInduction
  <2> QED BY <2>3, <1>0 DEF S
<1>10. low \in [0 .. n -> Nat] BY <1>5, <1>9
<1> QED BY <1>6, <1>7, <1>8, <1>10

(* What the bytes spell, from the lowest to byte k.                        *)
LEMMA UnsignedValue ==
  ASSUME bytes \in Contents, NEW t \in BaseType, NEW at \in Base!Place(t)
  PROVE  /\ Base!Unsigned(t, at) \in 0 .. Base!Range_(t) - 1
         /\ \A u \in 0 .. Base!Range_(t) - 1 :
              (\A k \in 0 .. t.size - 1 :
                 bytes[at + k] = (u \div Base!Power[k]) % ByteRange)
              => Base!Unsigned(t, at) = u
<1> DEFINE n == t.size
           P == Base!Power
<1>0. n \in Nat /\ at \in 1 .. MemSize - n + 1 BY ByteFacts DEF Base!Place
<1>1. PICK low \in [0 .. n -> Nat] :
        /\ low[0] = 0 /\ Base!Unsigned(t, at) = low[n]
        /\ \A k \in 0 .. n - 1 : low[k + 1] = low[k] + bytes[at + k] * P[k]
  BY UnsignedSum
<1>2. \A k \in Nat : P[k] \in Nat \ {0} /\ P[k + 1] = ByteRange * P[k] BY Powers
<1>3. P[0] = 1 BY Powers
<1>4. \A k \in 0 .. n - 1 : bytes[at + k] \in 0 .. ByteRange - 1
  BY <1>0, ByteFacts DEF Contents
<1> HIDE DEF P, n
<1>5. low[n] \in 0 .. P[n] - 1
  <2> DEFINE S == {k \in Nat : k <= n => low[k] \in 0 .. P[k] - 1}
  <2>1. 0 \in S BY <1>1, <1>3
  <2>2. ASSUME NEW k \in Nat, k \in S PROVE k + 1 \in S
    <3> SUFFICES ASSUME k + 1 <= n PROVE low[k + 1] \in 0 .. P[k + 1] - 1 OBVIOUS
    <3> DEFINE d == bytes[at + k]
    <3>1. k \in 0 .. n - 1 /\ low[k] \in 0 .. P[k] - 1 BY <1>0, <2>2
    <3>2. d \in 0 .. ByteRange - 1 /\ low[k + 1] = low[k] + d * P[k] BY <1>1, <1>4, <3>1
    <3>3. P[k] \in Nat \ {0} /\ P[k + 1] = ByteRange * P[k] BY <1>2
    <3> HIDE DEF d
    <3>4. P[k] * d \in Nat /\ P[k] * d <= P[k] * (ByteRange - 1)
      <4>1. d \in Nat /\ ByteRange - 1 \in Nat /\ d <= ByteRange - 1 BY <3>2, ByteFacts
      <4> QED BY <4>1, <3>3, Products
    <3>5. P[k] * (ByteRange - 1) = P[k + 1] - P[k] /\ d * P[k] = P[k] * d
          /\ P[k + 1] \in Nat
      BY <3>2, <3>3, ByteFacts
    <3> QED BY <3>1, <3>2, <3>3, <3>4, <3>5
  <2> HIDE DEF S
  <2>3. n \in S BY <2>1, <2>2, <1>0, SetInduction
  <2> QED BY <2>3, <1>0 DEF S
<1>6. ASSUME NEW u \in 0 .. P[n] - 1,
             \A k \in 0 .. n - 1 : bytes[at + k] = (u \div P[k]) % ByteRange
      PROVE  low[n] = u
  <2> DEFINE S == {k \in Nat : k <= n => low[k] = u % P[k]}
  <2>0. u \in Nat BY <1>0, <1>2
  <2>1. 0 \in S
    <3>1. u % 1 = 0 BY <2>0
    <3> QED BY <3>1, <1>1, <1>3
  <2>2. ASSUME NEW k \in Nat, k \in S PROVE k + 1 \in S
    <3> SUFFICES ASSUME k + 1 <= n PROVE low[k + 1] = u % P[k + 1] OBVIOUS
    <3>1. k \in 0 .. n - 1 /\ low[k] = u % P[k] BY <1>0, <2>2
    <3>2. low[k + 1] = (u % P[k]) + ((u \div P[k]) % ByteRange) * P[k]
      BY <1>1, <1>6, <3>1
    <3>3. P[k] \in Nat \ {0} /\ P[k + 1] = ByteRange * P[k] BY <1>2
    <3>4. u % (ByteRange * P[k]) = (u % P[k]) + ((u \div P[k]) % ByteRange) * P[k]
      BY <2>0, <3>3, ByteFacts, NextDigit
    <3> QED BY <3>2, <3>3, <3>4
  <2> HIDE DEF S
  <2>3. n \in S BY <2>1, <2>2, <1>0, SetInduction
  <2>4. low[n] = u % P[n] BY <2>3, <1>0 DEF S
  <2>5. P[n] \in Nat \ {0} BY <1>0, <1>2
  <2>6. P[n] * 0 + u = u /\ (P[n] * 0 + u) % P[n] = u BY <2>0, <2>5, DivisionUnique
  <2> QED BY <2>4, <2>6
<1> QED BY <1>1, <1>5, <1>6 DEF P, n, Base!Range_

(* The number a store writes, and how many bytes it takes.                 *)
Meant(t, x) ==
  IF t.enc = "boolean" THEN IF Base!IsTrue(x) THEN 1 ELSE 0
  ELSE Base!Number(t, x)[1]
Width(t) == IF t.enc = "boolean" THEN 1 ELSE t.size

(* The bytes of the last store spell its number.                           *)
Spelled ==
  (last # <<>> /\ last.ok) =>
    LET t == last.type
        u == Meant(t, last.value) % Base!Range_(t)
    IN /\ Base!Converts(t, last.value)
       /\ \A k \in 0 .. Width(t) - 1 :
            bytes[last.at + k] = (u \div Base!Power[k]) % ByteRange

BInv == Base!TypeOK /\ Spelled

LEMMA RangeFacts ==
  ASSUME NEW t \in BaseType
  PROVE  /\ Base!Range_(t) \in Nat /\ Base!Range_(t) >= 2
         /\ Base!Range_(t) % 2 = 0
<1> DEFINE n == t.size
<1>1. n \in Nat \ {0} BY ByteFacts
<1>2. n - 1 \in Nat /\ (n - 1) + 1 = n BY <1>1
<1>3. Base!Power[n - 1] \in Nat \ {0} /\ Base!Power[n] = ByteRange * Base!Power[n - 1]
  BY <1>2, Powers
<1> DEFINE P == Base!Power[n - 1]
           h == ByteRange \div 2
<1>4. h \in Nat /\ ByteRange = 2 * h BY ByteFacts, BaseAssumption DEF Base!Assumptions
<1>5. P \in Nat /\ ByteRange * P >= 2 BY <1>3, ByteFacts
<1> HIDE DEF P, h
<1>6. ByteRange * P = 2 * (h * P) + 0 /\ h * P \in Int BY <1>4, <1>5
<1>7. (2 * (h * P) + 0) % 2 = 0 BY <1>6, DivisionUnique
<1>8. Base!Range_(t) = ByteRange * P BY <1>3 DEF Base!Range_, P
<1> QED BY <1>5, <1>6, <1>7, <1>8, ByteFacts

(* Numbers that convert are the ones that fit, in two's complement.        *)
LEMMA MeantFits ==
  ASSUME NEW t \in BaseType, NEW x \in Object, Base!Converts(t, x)
  PROVE  LET n == Meant(t, x)
             u == n % Base!Range_(t)
         IN /\ n \in Int /\ u \in 0 .. Base!Range_(t) - 1
            /\ t.enc # "boolean" => Base!TwosComplement(t, u) = n
            /\ t.enc = "boolean" => u = n
<1> DEFINE n == Meant(t, x)
           R == Base!Range_(t)
           u == n % R
<1>1. R \in Nat /\ R >= 2 BY RangeFacts
<1>2. CASE t.enc = "boolean"
  <2>1. n \in {0, 1} BY <1>2 DEF Meant
  <2> HIDE DEF n, R
  <2>2. u = n BY <2>1, <1>1
  <2> QED BY <1>1, <1>2, <2>1, <2>2 DEF n, R
<1>3. CASE t.enc # "boolean"
  <2>1. Base!Number(t, x) # <<>> /\ Base!Fits(t, n)
    BY <1>3 DEF Base!Converts, Meant
  <2>2. n \in Int
    <3>1. \/ x.class = "int" /\ x.n \in Int
          \/ x.class \in {"bytes", "str"} /\ x.s \in Seq(Int)
          \/ x.class = "none"
      BY BaseAssumption DEF Base!Assumptions
    <3>2. n = Base!Number(t, x)[1] BY <1>3 DEF Meant
    <3>3. CASE Base!Number(t, x) = <<x.n>> /\ x.class = "int" BY <3>1, <3>2, <3>3
    <3>4. CASE Base!Number(t, x) = x.s /\ Len(x.s) = 1 /\ x.class \in {"bytes", "str"}
      <4>1. x.s \in Seq(Int) BY <3>1, <3>4
      <4> QED BY <4>1, <3>2, <3>4
    <3> QED BY <2>1, <3>3, <3>4 DEF Base!Number, Base!CharToLong
  <2>3. IF Base!Signed(t) THEN n >= -(R \div 2) /\ n < R \div 2 ELSE n >= 0 /\ n < R
    BY <2>1 DEF Base!Fits
  <2> HIDE DEF n, R
  <2>4. CASE n >= 0
    <3>1. u = n /\ (Base!Signed(t) => n < R \div 2) BY <1>1, <2>2, <2>3, <2>4
    <3> QED BY <1>1, <1>3, <2>2, <2>3, <2>4, <3>1 DEF Base!TwosComplement, n, R
  <2>5. CASE n < 0
    <3>1. Base!Signed(t) /\ n >= -(R \div 2) BY <2>2, <2>3, <2>5
    <3>2. n + R \in 0 .. R - 1 /\ n + R >= R \div 2 BY <1>1, <2>2, <2>5, <3>1
    <3>3. R * (-1) + (n + R) = n BY <1>1, <2>2
    <3>4. u = n + R
      <4>1. R \in Nat \ {0} /\ -1 \in Int BY <1>1
      <4>2. (R * (-1) + (n + R)) % R = n + R BY <4>1, <3>2, DivisionUnique
      <4> QED BY <4>2, <3>3
    <3>5. Base!TwosComplement(t, n + R) = n
      BY <1>1, <2>2, <3>1, <3>2 DEF Base!TwosComplement, R
    <3> QED BY <1>3, <2>2, <3>2, <3>4, <3>5 DEF n, R
  <2> QED BY <2>2, <2>4, <2>5
<1> QED BY <1>2, <1>3

LEMMA BInvInit == Base!Init => BInv
<1> SUFFICES ASSUME Base!Init PROVE BInv OBVIOUS
<1>1. 0 \in 0 .. ByteRange - 1 BY ByteFacts
<1> QED BY <1>1 DEF Base!Init, BInv, Base!TypeOK, Spelled

LEMMA BInvNext == BInv /\ [Base!Next]_baseVars => BInv'
<1> SUFFICES ASSUME BInv, [Base!Next]_baseVars PROVE BInv' OBVIOUS
<1>1. CASE UNCHANGED baseVars
  BY <1>1 DEF BInv, Base!TypeOK, Spelled, baseVars, Base!Place
<1>2. ASSUME NEW t \in BaseType, Base!Handled(t), NEW at \in Base!Place(t),
             NEW x \in Object, Base!StoreInto(t, at, x)
      PROVE  BInv'
  <2> DEFINE u == Meant(t, x) % Base!Range_(t)
             byte(k) == (u \div Base!Power[k]) % ByteRange
  <2>0. t.size \in Nat \ {0} /\ at \in 1 .. MemSize - t.size + 1
        /\ MemSize \in Nat /\ ByteRange \in Nat \ {0}
    BY ByteFacts DEF Base!Place
  <2>1. last' = [type |-> t, at |-> at, value |-> x, ok |-> Base!Converts(t, x)]
    BY <1>2 DEF Base!StoreInto
  <2>2. bytes' = IF Base!Converts(t, x)
                 THEN [b \in 1 .. MemSize |-> IF b \in at .. at + Width(t) - 1
                                              THEN byte(b - at) ELSE bytes[b]]
                 ELSE bytes
    BY <1>2 DEF Base!StoreInto, Meant, Width
  <2>3. Width(t) \in Nat \ {0} /\ Width(t) <= t.size BY <2>0 DEF Width
  <2>4. bytes \in [1 .. MemSize -> 0 .. ByteRange - 1] BY DEF BInv, Base!TypeOK
  <2>5. Base!Converts(t, x) => \A k \in Nat : byte(k) \in 0 .. ByteRange - 1
    <3> SUFFICES ASSUME Base!Converts(t, x), NEW k \in Nat
                 PROVE  byte(k) \in 0 .. ByteRange - 1
      OBVIOUS
    <3>1. u \in Nat BY MeantFits, RangeFacts
    <3>2. Base!Power[k] \in Nat \ {0} BY Powers
    <3> HIDE DEF u
    <3>3. u \div Base!Power[k] \in Nat BY <3>1, <3>2, Division
    <3> QED BY <3>3, <2>0, Division
  <2> HIDE DEF byte
  <2>6. (bytes \in [1 .. MemSize -> 0 .. ByteRange - 1])'
    <3>1. ASSUME NEW b \in at .. at + Width(t) - 1 PROVE b - at \in Nat BY <2>0, <2>3
    <3> QED BY <2>2, <2>4, <2>5, <3>1
  <2>7. Base!TypeOK' BY <1>2, <2>1, <2>6 DEF Base!TypeOK, Base!Place
  <2>8. Spelled'
    <3> SUFFICES ASSUME Base!Converts(t, x), NEW k \in 0 .. Width(t) - 1
                 PROVE  bytes'[at + k] = byte(k)
      BY <2>1 DEF Spelled, byte
    <3>1. at + k \in 1 .. MemSize /\ at + k \in at .. at + Width(t) - 1
          /\ (at + k) - at = k
      BY <2>0, <2>3
    <3> QED BY <2>2, <3>1
  <2> QED BY <2>7, <2>8 DEF BInv
<1> QED BY <1>1, <1>2 DEF Base!Next

LEMMA StoredIsRead == BInv => Base!ReadsBack
<1> SUFFICES ASSUME BInv, last # <<>>, last.ok
             PROVE  Base!Denotes(last.type, last.value,
                                 Base!GetFrom(last.type, last.at))
  BY DEF Base!ReadsBack
<1> DEFINE t == last.type
           x == last.value
           at == last.at
           n == Meant(t, x)
           R == Base!Range_(t)
           u == n % R
<1>1. /\ bytes \in Contents /\ t \in BaseType /\ at \in Base!Place(t) /\ x \in Object
      /\ Base!Handled(t) /\ Base!Converts(t, x)
      /\ \A k \in 0 .. Width(t) - 1 :
           bytes[at + k] = (u \div Base!Power[k]) % ByteRange
  BY DEF BInv, Base!TypeOK, Spelled, Contents
<1>2. /\ n \in Int /\ u \in 0 .. R - 1
      /\ t.enc # "boolean" => Base!TwosComplement(t, u) = n
      /\ t.enc = "boolean" => u = n
  BY <1>1, MeantFits
<1>3. R \in Nat /\ R >= 2 BY <1>1, RangeFacts
<1>4. t.size \in Nat \ {0} /\ at \in Int BY <1>1, ByteFacts DEF Base!Place
<1> HIDE DEF t, x, at, u, R
<1>5. CASE t.enc = "boolean"
  <2>1. n \in {0, 1} BY <1>5 DEF Meant
  <2>2. 0 \in 0 .. Width(t) - 1 /\ at + 0 = at BY <1>4, <1>5 DEF Width
  <2>3. bytes[at] = (n \div 1) % ByteRange BY <1>1, <1>2, <1>5, <2>2, Powers
  <2>4. (n \div 1) % ByteRange = n BY <2>1, ByteFacts
  <2>5. Base!GetFrom(t, at) = Base!Int_(IF bytes[at] = 0 THEN 0 ELSE 1)
    <3>1. ~Base!IsChar(t) BY <1>5 DEF Base!IsChar
    <3> DEFINE y == Base!Int_(IF bytes[at] = 0 THEN 0 ELSE 1)
    <3>2. Base!GetFrom(t, at) =
            CASE t.enc = "boolean" -> y
              [] Base!IsChar(t) -> Base!Bytes([i \in 1 .. t.size |-> bytes[at + i - 1]])
              [] OTHER -> Base!Int_(Base!TwosComplement(t, Base!Unsigned(t, at)))
      BY Zenon DEF Base!GetFrom
    <3> HIDE DEF y
    <3> QED BY <1>5, <3>1, <3>2 DEF y
  <2>6. Base!GetFrom(t, at) = Base!Int_(n)
    <3>1. (IF bytes[at] = 0 THEN 0 ELSE 1) = n BY <2>1, <2>3, <2>4
    <3> QED BY <2>5, <3>1
  <2>7. n = IF Base!IsTrue(x) THEN 1 ELSE 0 BY <1>5 DEF Meant
  <2> HIDE DEF n
  <2>8. Base!Denotes(t, x, Base!Int_(n))
    <3> DEFINE y == Base!Int_(IF Base!IsTrue(x) THEN 1 ELSE 0)
               V(v) == \E w \in 0 .. Base!Range_(t) - 1 :
                         /\ Base!TwosComplement(t, w) = Base!CharToLong(x)[1]
                         /\ \A i \in 1 .. t.size :
                              v.s[i] = (w \div Base!Power[i - 1]) % ByteRange
    <3>1. \A v : Base!Denotes(t, x, v) =
            CASE t.enc = "boolean" -> v = y
              [] Base!IsChar(t) -> V(v)
              [] OTHER -> v = Base!Int_(x.n)
      BY Zenon DEF Base!Denotes
    <3>2. Base!Int_(n) = y BY <2>7, Zenon
    <3>3. ~Base!IsChar(t) BY <1>5 DEF Base!IsChar
    <3> HIDE DEF y, V
    <3> QED BY <1>5, <3>1, <3>2, <3>3
  <2> QED BY <2>6, <2>8 DEF t, x, at
<1>6. CASE t.enc # "boolean" /\ Base!IsChar(t)
  <2>1. n = Base!CharToLong(x)[1] BY <1>6 DEF Meant, Base!Number
  <2>2. Base!GetFrom(t, at) = Base!Bytes([i \in 1 .. t.size |-> bytes[at + i - 1]])
    BY <1>6 DEF Base!GetFrom
  <2>3. ASSUME NEW i \in 1 .. t.size
        PROVE  Base!GetFrom(t, at).s[i] = (u \div Base!Power[i - 1]) % ByteRange
    <3>1. i - 1 \in 0 .. Width(t) - 1 /\ at + (i - 1) = at + i - 1
      BY <1>4, <1>6 DEF Width
    <3> QED BY <1>1, <2>2, <3>1 DEF Base!Bytes
  <2> QED BY <1>2, <1>6, <2>1, <2>3 DEF Base!Denotes, t, x, at, R
<1>7. CASE t.enc # "boolean" /\ ~Base!IsChar(t)
  <2>1. x.class = "int" /\ n = x.n
    BY <1>1, <1>7 DEF Base!Converts, Meant, Base!Number
  <2>2. Base!Unsigned(t, at) = u
    <3>1. Width(t) = t.size BY <1>7 DEF Width
    <3> QED BY <1>1, <1>2, <3>1, UnsignedValue DEF R
  <2>3. Base!GetFrom(t, at) = Base!Int_(x.n)
    BY <1>2, <1>7, <2>1, <2>2 DEF Base!GetFrom
  <2> QED BY <1>7, <2>3 DEF Base!Denotes, t, x, at
<1> QED BY <1>5, <1>6, <1>7

LEMMA ReadCanBeStored == Base!TypeOK => Base!NumbersStorable
<1> SUFFICES ASSUME Base!TypeOK, NEW t \in BaseType, Base!Handled(t), ~Base!IsChar(t),
                    NEW at \in Base!Place(t), t.enc # "boolean"
             PROVE  Base!Converts(t, Base!GetFrom(t, at))
  BY DEF Base!NumbersStorable, Base!Converts
<1> DEFINE R == Base!Range_(t)
           u == Base!Unsigned(t, at)
           n == Base!TwosComplement(t, u)
<1>1. u \in 0 .. R - 1 BY UnsignedValue DEF Base!TypeOK, Contents
<1>2. R \in Nat /\ R >= 2 /\ R % 2 = 0 BY RangeFacts
<1>3. LongRange \in Nat /\ R <= LongRange BY BaseAssumption DEF Base!Assumptions
<1>4. Base!Number(t, Base!GetFrom(t, at)) = <<n>>
  BY DEF Base!GetFrom, Base!Number, Base!Int_
<1>5. n = IF Base!Signed(t) /\ u >= R \div 2 THEN u - R ELSE u
  BY DEF Base!TwosComplement
<1> HIDE DEF u, n, R
<1>6. IF Base!Signed(t) THEN n >= -(R \div 2) /\ n < R \div 2 ELSE n >= 0 /\ n < R
  BY <1>1, <1>2, <1>5
<1>7. R \div 2 <= LongRange \div 2 /\ R \div 2 \in Nat /\ LongRange \div 2 \in Nat
  BY <1>2, <1>3
<1>8. n \in Int BY <1>1, <1>2, <1>5
<1>9. Base!Fits(t, n) BY <1>2, <1>3, <1>6, <1>7, <1>8 DEF Base!Fits, R
<1> QED BY <1>4, <1>9 DEF Base!Converts

-----------------------------------------------------------------------------
(* Every behaviour of the whole is one of each component: those it is not  *)
(* about stand still, in the state they begin in.                          *)

dataVars_ == <<component, vars, structVars, baseVars>>

LEMMA ArraysBehave == DataSpec => Spec
<1>1. DataInit => Init BY DEF DataInit
<1>2. [DataNext]_dataVars_ => [Next]_vars BY DEF DataNext, Ended, dataVars_
<1> QED BY <1>1, <1>2, PTL DEF DataSpec, Spec, dataVars_

LEMMA StructsBehave == DataSpec => Structure!Spec
<1>1. DataInit => Structure!Init BY DEF DataInit
<1>2. [DataNext]_dataVars_ => [Structure!Next]_Structure!vars
  BY DEF DataNext, dataVars_, structVars, Structure!vars
<1> QED BY <1>1, <1>2, PTL DEF DataSpec, Structure!Spec, dataVars_

LEMMA BaseTypesBehave == DataSpec => Base!Init /\ [][Base!Next]_baseVars
<1>1. DataInit => Base!Init BY DEF DataInit
<1>2. [DataNext]_dataVars_ => [Base!Next]_baseVars BY DEF DataNext, dataVars_
<1> QED BY <1>1, <1>2, PTL DEF DataSpec, dataVars_

LEMMA BaseTypesSound == DataSpec => []BInv
<1>1. Base!Init => BInv BY BInvInit
<1>2. BInv /\ [Base!Next]_baseVars => BInv' BY BInvNext
<1> QED BY <1>1, <1>2, BaseTypesBehave, PTL

-----------------------------------------------------------------------------
(* The results about the whole.                                            *)

(* The state of each component is well-formed. *)
THEOREM DataTypeCorrect == DataSpec => []DataTypeOK
<1>1. Structure!Spec => []Structure!TypeOK
  BY StructureAssumption, Structure!TypeCorrect
<1>2. TypeOK /\ Structure!TypeOK /\ BInv => DataTypeOK BY DEF DataTypeOK, BInv
<1> QED
  BY <1>1, <1>2, TypeCorrect, ArraysBehave, StructsBehave, BaseTypesSound, PTL

(* After a successful initialisation each handled field of a struct holds  *)
(* what the call gives it, and no field that can be read is unwritten      *)
(* (composite_proxy.c:118); for structs with memory in every field, whose  *)
(* first field is handled, and calls that copy written structs.            *)
THEOREM FieldsFollowCalls ==
  ASSUME Structure!Disjoint, Structure!FirstHandled, Structure!Occupied,
         Structure!CopiesWritten
  PROVE  DataSpec => []FieldsAsGiven
<1>1. Structure!Spec => []Structure!FieldsAsGiven
  BY StructureAssumption, Structure!FieldsAlwaysAsGiven
<1>2. Structure!Spec => []Structure!NoJunk
  BY StructureAssumption, Structure!FieldsNeverJunk
<1>3. Structure!FieldsAsGiven /\ Structure!NoJunk => FieldsAsGiven
  BY DEF FieldsAsGiven
<1> QED BY <1>1, <1>2, <1>3, StructsBehave, PTL

(* What a base type stored without an exception is what it reads back, for *)
(* every type, place and object, and what is read can be stored            *)
(* (foreign_basetype.c:37).                                                *)
THEOREM ValuesReadBack == DataSpec => []ReadsBack
<1>1. BInv => ReadsBack BY StoredIsRead, ReadCanBeStored DEF ReadsBack, BInv
<1> QED BY <1>1, BaseTypesSound, PTL

(* The store of a base type changes its own bytes only, and none when it   *)
(* raises an exception (foreign_basetype.c:37).                            *)
THEOREM StoresStayInPlace == DataSpec => StoresInPlace
<1>1. BInv /\ [Base!Next]_baseVars => [Base!StoreKept]_baseVars
  <2> SUFFICES ASSUME BInv, Base!Next PROVE Base!StoreKept OBVIOUS
  <2>0. PICK t \in BaseType : \E at \in Base!Place(t), x \in Object :
                                Base!StoreInto(t, at, x)
    BY DEF Base!Next
  <2>1. PICK at \in Base!Place(t), x \in Object : Base!StoreInto(t, at, x) BY <2>0
  <2>2. last' = [type |-> t, at |-> at, value |-> x, ok |-> Base!Converts(t, x)]
    BY <2>1 DEF Base!StoreInto
  <2>3. ASSUME NEW b \in 1 .. MemSize, bytes'[b] # bytes[b]
        PROVE  Base!Converts(t, x) /\ b \in at .. at + Width(t) - 1
    BY <2>1, <2>3 DEF Base!StoreInto, Width, BInv, Base!TypeOK
  <2>4. Width(t) \in Nat /\ t.size \in Nat /\ Width(t) <= t.size /\ at \in Int
    BY ByteFacts DEF Width, Base!Place
  <2> QED BY <2>2, <2>3, <2>4 DEF Base!StoreKept
<1> QED BY <1>1, BaseTypesSound, BaseTypesBehave, PTL DEF StoresInPlace
=============================================================================
