------------------------- MODULE ProxyLifetimeProofs -------------------------
(***************************************************************************)
(* Proofs about ProxyLifetime, for every value of its constants, in three  *)
(* parts that build on each other.                                         *)
(*                                                                         *)
(* 1. Counters and registry.  Neither is inductive by itself: that an      *)
(* entry names a registered proxy depends on the counter being exact (a    *)
(* proxy with an entry is not being deallocated), that the counter does    *)
(* not go below zero on the entries being sound, and both on where each    *)
(* suspended deallocation is.  IInv says so, and is proved as a whole.     *)
(*                                                                         *)
(* 2. Refinement.  ProxyLifetime implements ManagedHeap: IInv says what    *)
(* each step starts from; most steps then leave the four mapped variables  *)
(* alone, and the others are one step of the heap.                         *)
(*                                                                         *)
(* 3. Pointers in memory.  A pointer the program can still read is to      *)
(* memory C owns, or has an entry in proxy_pointing_addr_dict, which keeps *)
(* the base proxy of that memory.  A store is announced before it is done; *)
(* what is to be stored is kept meanwhile by where it was taken from.      *)
(***************************************************************************)
EXTENDS HeapRefinement, FiniteSetTheorems, TLAPS

-----------------------------------------------------------------------------
(* 1. Counters and registry: the parts of the inductive invariant.         *)

(* An object is being deallocated exactly when nothing refers to it. *)
Objects ==
  \A p \in Proxy :
    /\ pc[p] # "idle" => ob_refcnt[p] = 0 /\ p_ptr[p] # NULL
    /\ pc[p] = "idle" /\ p_ptr[p] # NULL => ob_refcnt[p] > 0
    /\ p_ptr[p] = NULL => ob_refcnt[p] = 0 /\ pointing_dict[p] = NULL

(* Only sweeping a chunk and dropping the own reference call back. *)
Frames == \A p \in Proxy : pc[p] \in {"unregister", "unmap"} => frame = p

(* The deallocations in progress form a stack: each has a depth, the one   *)
(* that runs is the deepest, and each returns to the next below it.        *)
Dying == {p \in Proxy : pc[p] # "idle"}
StackedBy(depth) ==
  /\ frame # NULL => frame \in Dying
  /\ \A p \in Dying :
       /\ frame # NULL
       /\ p # frame => depth[p] < depth[frame]
       /\ caller[p] # NULL => caller[p] \in Dying /\ depth[caller[p]] < depth[p]
       /\ \A q \in Dying : depth[q] < depth[p] =>
            caller[p] # NULL /\ (q = caller[p] \/ depth[q] < depth[caller[p]])
Stacked == \E depth \in [Proxy -> Nat] : StackedBy(depth)

(* proxy_dict leads to an object for that address. *)
Registry ==
  \A c \in Chunk : proxy_dict[c] # NULL =>
    p_ptr[proxy_dict[c]] = c /\ pc[proxy_dict[c]] # "own"

(* A proxy leaves proxy_dict last, after its chunk was freed if at all. *)
Sweeping ==
  \A p \in Proxy :
    /\ pc[p] \in {"sweep", "unmap"} => proxy_dict[p_ptr[p]] = p
    /\ pc[p] = "sweep" => policies[p_ptr[p]] = {}

EntriesBase ==
  \A l \in Loc : pointing_dict[l] # NULL => IsBase(pointing_dict[l])

(* A proxy that is not a base keeps the base of its chunk alive. *)
Anchored ==
  \A p \in Proxy : pc[p] = "idle" /\ ~NoObject(p) /\ ~IsBase(p) =>
    pointing_dict[p] # NULL /\ p_ptr[pointing_dict[p]] = p_ptr[p]

(* What the collector has still to clear is still there. *)
Collecting ==
  \A p \in gc_set : IsBase(p) /\ pc[p] \in {"idle", "unregister"}

(* The constructor holds the object it initialises. *)
Building == init_fresh /\ init_obj # NULL => pyrefs[init_obj] > 0

Shape == /\ Objects /\ Frames /\ Stacked /\ Registry /\ Sweeping /\ PolicyHasProxy
         /\ EntriesBase /\ Anchored /\ Collecting

IInv == TypeOK /\ CountsExact /\ Shape /\ Building

-----------------------------------------------------------------------------
(* Counting entries.                                                       *)

LEMMA LocFinite == IsFiniteSet(Loc)
BY FiniteAssumption, FS_Union DEF Loc, Place

(* The entries of one proxy can be counted. *)
LEMMA EntriesFinite ==
  ASSUME NEW f, NEW p
  PROVE  /\ IsFiniteSet({l \in Loc : f[l] = p})
         /\ Cardinality({l \in Loc : f[l] = p}) \in Nat
<1>1. IsFiniteSet({l \in Loc : f[l] = p})
  BY LocFinite, FS_Subset
<1> QED BY <1>1, FS_CardinalityType

(* A proxy one entry refers to has a count above zero. *)
LEMMA EntriesPositive ==
  ASSUME NEW f, NEW p, NEW l \in Loc, f[l] = p
  PROVE  Cardinality({k \in Loc : f[k] = p}) > 0
<1> DEFINE E == {k \in Loc : f[k] = p}
<1>1. IsFiniteSet(E) /\ Cardinality(E) \in Nat BY EntriesFinite
<1>2. E # {} BY DEF E
<1>3. Cardinality(E) # 0 BY <1>1, <1>2, FS_EmptySet
<1> QED BY <1>1, <1>3

(* Changing one entry moves one unit from its old target to its new one. *)
LEMMA EntriesMoved ==
  ASSUME NEW f \in [Loc -> Proxy \cup {NULL}], NEW l \in Loc,
         NEW q \in Proxy \cup {NULL}, q # f[l], NEW p \in Proxy
  PROVE  LET g == [f EXCEPT ![l] = q]
             before == Cardinality({k \in Loc : f[k] = p})
             after == Cardinality({k \in Loc : g[k] = p})
         IN  /\ p = q => after = before + 1
             /\ p = f[l] => after = before - 1
             /\ p # q /\ p # f[l] => after = before
<1> DEFINE g == [f EXCEPT ![l] = q]
           B == {k \in Loc : f[k] = p}
           A == {k \in Loc : g[k] = p}
<1>1. IsFiniteSet(B) /\ Cardinality(B) \in Nat BY EntriesFinite
<1>2. ASSUME p = q PROVE Cardinality(A) = Cardinality(B) + 1
  <2>1. A = B \cup {l} /\ l \notin B BY <1>2
  <2> QED BY <2>1, <1>1, FS_AddElement
<1>3. ASSUME p = f[l] PROVE Cardinality(A) = Cardinality(B) - 1
  <2>1. A = B \ {l} /\ l \in B BY <1>3
  <2> QED BY <2>1, <1>1, FS_RemoveElement
<1>4. ASSUME p # q, p # f[l] PROVE A = B
  BY <1>4
<1> QED BY <1>2, <1>3, <1>4

-----------------------------------------------------------------------------
(* The stack of deallocations.                                             *)

(* It stays as it is while nothing enters or leaves it. *)
LEMMA StackSame ==
  ASSUME Stacked, UNCHANGED <<frame, caller>>,
         \A p \in Proxy : pc'[p] = "idle" <=> pc[p] = "idle"
  PROVE  Stacked'
<1>1. PICK depth \in [Proxy -> Nat] : StackedBy(depth)
  BY DEF Stacked
<1>2. Dying' = Dying BY DEF Dying
<1>3. StackedBy(depth)' BY <1>1, <1>2 DEF StackedBy
<1> QED BY <1>3 DEF Stacked

(* A deallocation that starts is one deeper than the one that was running. *)
LEMMA StackPush ==
  ASSUME TypeOK, Stacked, NEW q \in Proxy, pc[q] = "idle", EnterDealloc(q)
  PROVE  Stacked'
<1> USE DistinctAssumption
<1>1. PICK depth \in [Proxy -> Nat] : StackedBy(depth)
  BY DEF Stacked
<1> DEFINE top == IF frame = NULL THEN 0 ELSE depth[frame] + 1
<1>2. frame \in Proxy \cup {NULL} BY DEF TypeOK
<1>3. top \in Nat BY <1>1, <1>2
<1>4. PICK d \in [Proxy -> Nat] : d = [depth EXCEPT ![q] = top]
  BY <1>1, <1>3
<1>5. Dying' = Dying \cup {q} /\ q \notin Dying
  BY DEF Dying, EnterDealloc, TypeOK
<1>6. /\ frame' = q /\ caller'[q] = frame /\ q # NULL
      /\ \A p \in Proxy \ {q} : caller'[p] = caller[p]
  BY DEF EnterDealloc, TypeOK
<1>7. d[q] = top /\ \A p \in Proxy \ {q} : d[p] = depth[p]
  BY <1>1, <1>4
<1>8. Dying \subseteq Proxy BY DEF Dying
<1>9. \A p \in Dying : depth[p] < top
  BY <1>1, <1>2, <1>8 DEF StackedBy
<1> HIDE DEF top
<1>10. \A p \in Dying : caller[p] # NULL => caller[p] \in Dying
  BY <1>1 DEF StackedBy
<1>11. StackedBy(d)'
  <2> SUFFICES ASSUME NEW p \in Dying'
               PROVE /\ p # q => d[p] < d[q]
                     /\ caller'[p] # NULL =>
                          caller'[p] \in Dying' /\ d[caller'[p]] < d[p]
                     /\ \A r \in Dying' : d[r] < d[p] =>
                          caller'[p] # NULL /\ (r = caller'[p] \/ d[r] < d[caller'[p]])
    BY <1>5, <1>6 DEF StackedBy
  <2>1. CASE p = q
    <3>1. frame # NULL => frame \in Dying /\ depth[frame] < top
      BY <1>1, <1>9 DEF StackedBy
    <3>2. \A r \in Dying : frame # NULL /\ (r = frame \/ depth[r] < depth[frame])
      BY <1>1 DEF StackedBy
    <3>3. ~(d[q] < d[q]) BY <1>3, <1>7
    <3> QED BY <2>1, <3>1, <3>2, <3>3, <1>5, <1>6, <1>7, <1>8
  <2>2. CASE p # q
    <3>1. p \in Dying BY <2>2, <1>5
    <3>2. d[p] < d[q] BY <3>1, <2>2, <1>7, <1>8, <1>9
    <3>3. ~(d[q] < d[p])
      BY <3>2, <3>1, <1>8, <1>4
    <3>4. caller'[p] = caller[p] BY <3>1, <2>2, <1>6, <1>8
    <3>5. /\ caller[p] # NULL => caller[p] \in Dying /\ d[caller[p]] < d[p]
          /\ \A r \in Dying : d[r] < d[p] =>
               caller[p] # NULL /\ (r = caller[p] \/ d[r] < d[caller[p]])
      BY <3>1, <2>2, <1>1, <1>5, <1>7, <1>8, <1>10 DEF StackedBy
    <3> QED BY <3>2, <3>3, <3>4, <3>5, <1>5
  <2> QED BY <2>1, <2>2
<1> QED BY <1>4, <1>11 DEF Stacked

(* The deallocation that ends returns to the one that was running before. *)
LEMMA StackPop ==
  ASSUME TypeOK, Stacked, NEW p \in Proxy, FreeObject(p)
  PROVE  Stacked'
<1> USE DistinctAssumption
<1>1. PICK depth \in [Proxy -> Nat] : StackedBy(depth)
  BY DEF Stacked
<1>2. Dying' = Dying \ {p} /\ frame = p /\ p \in Dying /\ p # NULL
  BY DEF Dying, FreeObject, TypeOK
<1>3. /\ frame' = caller[p]
      /\ \A q \in Proxy \ {p} : caller'[q] = caller[q]
  BY DEF FreeObject, TypeOK
<1>4. Dying \subseteq Proxy BY DEF Dying
<1>5. \A q \in Dying : q # p => depth[q] < depth[p] /\ caller[q] # p
  <2> SUFFICES ASSUME NEW q \in Dying, q # p
               PROVE depth[q] < depth[p] /\ caller[q] # p
    OBVIOUS
  <2>1. depth[q] < depth[p] BY <1>1, <1>2 DEF StackedBy
  <2>2. caller[q] = p => depth[p] < depth[q] BY <1>1, <1>2 DEF StackedBy
  <2>3. depth[p] \in Nat /\ depth[q] \in Nat BY <1>1, <1>4
  <2> QED BY <2>1, <2>2, <2>3
<1>6. caller[p] # NULL => caller[p] \in Dying /\ caller[p] # p
  <2>1. caller[p] # NULL => caller[p] \in Dying /\ depth[caller[p]] < depth[p]
    BY <1>1, <1>2 DEF StackedBy
  <2>2. ~(depth[p] < depth[p]) BY <1>1
  <2> QED BY <2>1, <2>2
<1>7. StackedBy(depth)'
  <2>1. \A q \in Dying : q # p => caller[p] # NULL
                                 /\ (q = caller[p] \/ depth[q] < depth[caller[p]])
    BY <1>1, <1>2, <1>5 DEF StackedBy
  <2>2. \A q \in Dying : q # p =>
          /\ caller[q] # NULL => caller[q] \in Dying /\ depth[caller[q]] < depth[q]
          /\ \A r \in Dying : depth[r] < depth[q] =>
               caller[q] # NULL /\ (r = caller[q] \/ depth[r] < depth[caller[q]])
    BY <1>1 DEF StackedBy
  <2> QED BY <2>1, <2>2, <1>2, <1>3, <1>4, <1>5, <1>6 DEF StackedBy
<1> QED BY <1>7 DEF Stacked

-----------------------------------------------------------------------------
(* Dropping and taking references.                                         *)

(* The variables reference counting writes keep their types. *)
RefTypes ==
  /\ pointing_dict \in [Loc -> Proxy \cup {NULL}]
  /\ ob_refcnt \in [Proxy -> Nat]
  /\ frame \in Proxy \cup {NULL}
  /\ caller \in [Proxy -> Proxy \cup {NULL}]
  /\ pc \in [Proxy -> {"idle", "unregister", "sweep", "unmap", "own"}]

(* A proxy something refers to can be named by an entry, by Python, by the *)
(* collector or by a reference that was leaked: its count is above zero,   *)
(* and it is not being deallocated.                                        *)
LEMMA Referenced ==
  ASSUME IInv, NEW q \in Proxy,
         \/ pyrefs[q] > 0
         \/ leaked[q] > 0
         \/ gc_hold = q
         \/ \E l \in Loc : pointing_dict[l] = q
  PROVE  ob_refcnt[q] > 0 /\ pc[q] = "idle" /\ p_ptr[q] # NULL
<1>1. Cardinality(EntriesOf(q)) \in Nat
  BY EntriesFinite DEF EntriesOf
<1>2. (\E l \in Loc : pointing_dict[l] = q) => Cardinality(EntriesOf(q)) > 0
  BY EntriesPositive DEF EntriesOf
<1>3. pyrefs[q] \in Nat /\ leaked[q] \in Nat
  BY DEF IInv, TypeOK
<1>4. ob_refcnt[q] = pyrefs[q] + leaked[q] + Cardinality(EntriesOf(q))
                     + (IF gc_hold = q THEN 1 ELSE 0)
  BY DEF IInv, CountsExact
<1>5. ob_refcnt[q] > 0
  BY <1>1, <1>2, <1>3, <1>4
<1> QED
  BY <1>5 DEF IInv, Shape, Objects

(* Which counters are zero, and which deallocation starts, is all the      *)
(* shape depends on: references may come and go as long as a counter that  *)
(* reaches zero starts the deallocation of its proxy, new entries name     *)
(* base proxies, and only a dying proxy loses the entry that anchors it.   *)
LEMMA RefShape ==
  ASSUME TypeOK, Shape, NEW q,
         frame = NULL \/ pc[frame] \in {"sweep", "own"},
         \/ /\ NoDealloc
            /\ \A p \in Proxy : ob_refcnt'[p] = 0 <=> ob_refcnt[p] = 0
         \/ /\ q \in Proxy /\ ob_refcnt[q] > 0 /\ ob_refcnt'[q] = 0
            /\ EnterDealloc(q)
            /\ \A p \in Proxy \ {q} : ob_refcnt'[p] = 0 <=> ob_refcnt[p] = 0,
         UNCHANGED <<policies, p_ptr, proxy_dict>>,
         gc_set' \subseteq gc_set,
         ob_refcnt' \in [Proxy -> Nat],
         pointing_dict' \in [Loc -> Proxy \cup {NULL}],
         \A l \in Loc : \/ pointing_dict'[l] = pointing_dict[l]
                        \/ /\ pointing_dict'[l] = NULL
                           /\ l \in Proxy => pc[l] # "idle"
                        \/ l \in Place /\ IsBase(pointing_dict'[l])
  PROVE  Shape' /\ RefTypes'
<1> USE DistinctAssumption
<1>1. RefTypes'
  BY DEF TypeOK, RefTypes, EnterDealloc, NoDealloc, stackVars
<1>2. CASE UNCHANGED stackVars
  <2>1. \A p \in Proxy : ob_refcnt'[p] = 0 <=> ob_refcnt[p] = 0
    BY <1>2 DEF TypeOK, Shape, Objects, EnterDealloc, stackVars
  <2>2. Objects'
    BY <1>2, <2>1 DEF TypeOK, Shape, Objects, Loc, Place, stackVars
  <2>3. Frames' /\ Registry' /\ Sweeping' /\ PolicyHasProxy' /\ Collecting'
    BY <1>2 DEF Shape, Frames, Registry, Sweeping, PolicyHasProxy, Collecting,
       GcManaged, IsBase, NoObject, stackVars
  <2>4. EntriesBase'
    BY DEF TypeOK, Shape, EntriesBase, IsBase, NoObject
  <2>5. Anchored'
    BY <1>2 DEF TypeOK, Shape, Anchored, IsBase, NoObject, Loc, Place, stackVars
  <2>6. Stacked'
    BY <1>2, StackSame DEF Shape, stackVars
  <2> QED BY <1>1, <2>2, <2>3, <2>4, <2>5, <2>6 DEF Shape
<1>3. CASE ~UNCHANGED stackVars
  <2>1. /\ q \in Proxy /\ ob_refcnt[q] > 0 /\ ob_refcnt'[q] = 0
        /\ EnterDealloc(q)
        /\ \A p \in Proxy \ {q} : ob_refcnt'[p] = 0 <=> ob_refcnt[p] = 0
    BY <1>3 DEF NoDealloc
  <2>2. pc[q] = "idle" /\ p_ptr[q] # NULL
    BY <2>1 DEF TypeOK, Shape, Objects
  <2>3. /\ \A p \in Proxy : p # q => pc'[p] = pc[p]
        /\ pc'[q] = "unregister" /\ frame' = q
    BY <2>1 DEF TypeOK, EnterDealloc
  <2>4. Objects'
    BY <2>1, <2>2, <2>3 DEF TypeOK, Shape, Objects, Loc, Place
  <2>5. Frames'
    BY <2>1, <2>2, <2>3 DEF TypeOK, Shape, Frames
  <2>6. Registry' /\ Sweeping'
    BY <2>1, <2>2, <2>3 DEF TypeOK, Shape, Registry, Sweeping
  <2>7. PolicyHasProxy'
    BY <2>1, <2>2, <2>3 DEF TypeOK, Shape, PolicyHasProxy, GcManaged
  <2>8. EntriesBase'
    BY DEF TypeOK, Shape, EntriesBase, IsBase, NoObject
  <2>9. Anchored'
    BY <2>1, <2>2, <2>3 DEF TypeOK, Shape, Anchored, IsBase, NoObject, Loc, Place
  <2>10. Collecting'
    BY <2>1, <2>2, <2>3 DEF TypeOK, Shape, Collecting, IsBase, NoObject
  <2>11. Stacked'
    BY <2>1, <2>2, StackPush DEF Shape
  <2> QED BY <1>1, <2>4, <2>5, <2>6, <2>7, <2>8, <2>9, <2>10, <2>11 DEF Shape
<1> QED BY <1>2, <1>3

(* Py_DECREF of a referenced proxy keeps the shape, whoever calls it. *)
LEMMA DecRefShape ==
  ASSUME TypeOK, Shape, NEW q \in Proxy, ob_refcnt[q] > 0,
         frame = NULL \/ pc[frame] \in {"sweep", "own"},
         DecRef(q),
         UNCHANGED <<policies, p_ptr, proxy_dict>>,
         gc_set' \subseteq gc_set,
         pointing_dict' \in [Loc -> Proxy \cup {NULL}],
         \A l \in Loc : \/ pointing_dict'[l] = pointing_dict[l]
                        \/ /\ pointing_dict'[l] = NULL
                           /\ l \in Proxy => pc[l] # "idle"
  PROVE  Shape' /\ RefTypes'
<1>1. /\ ob_refcnt' \in [Proxy -> Nat]
      /\ ob_refcnt'[q] = ob_refcnt[q] - 1
      /\ \A p \in Proxy \ {q} : ob_refcnt'[p] = ob_refcnt[p]
  BY DEF TypeOK, DecRef
<1>2. CASE ob_refcnt[q] = 1
  BY <1>1, <1>2, RefShape DEF DecRef
<1>3. CASE ob_refcnt[q] # 1
  <2>1. NoDealloc /\ ob_refcnt'[q] # 0
    BY <1>1, <1>3 DEF DecRef, TypeOK
  <2> QED BY <1>1, <2>1, RefShape DEF TypeOK
<1> QED BY <1>2, <1>3

(* A step that leaves proxies, references and policies alone. *)
LEMMA StutterKeeps ==
  ASSUME IInv,
         UNCHANGED <<policies, proxyVars, proxy_dict, pointing_dict, stackVars>>,
         UNCHANGED gcVars
  PROVE  CountsExact' /\ Shape' /\ RefTypes'
<1>1. CountsExact'
  BY DEF IInv, CountsExact, EntriesOf, gcVars, proxyVars
<1>2. Objects' /\ Frames' /\ Registry' /\ Sweeping'
  BY DEF IInv, Shape, Objects, Frames, Registry, Sweeping, proxyVars, stackVars
<1>3. PolicyHasProxy'
  BY DEF IInv, Shape, PolicyHasProxy, GcManaged, proxyVars, stackVars
<1>4. EntriesBase' /\ Anchored' /\ Collecting'
  BY DEF IInv, Shape, EntriesBase, Anchored, Collecting, IsBase, NoObject,
     gcVars, proxyVars, stackVars
<1>5. RefTypes'
  BY DEF IInv, TypeOK, RefTypes, proxyVars, stackVars
<1>6. Stacked'
  BY StackSame DEF IInv, Shape, stackVars
<1> QED BY <1>1, <1>2, <1>3, <1>4, <1>5, <1>6 DEF Shape

(* proxy_delref keeps the counters exact and the shape. *)
LEMMA DelRefKeeps ==
  ASSUME IInv, NEW from \in Loc,
         from \in Proxy => pc[from] # "idle",
         frame = NULL \/ pc[frame] \in {"sweep", "own"},
         DelRef(from),
         UNCHANGED <<policies, p_ptr, pyrefs, leaked, proxy_dict, gcVars>>
  PROVE  CountsExact' /\ Shape' /\ RefTypes'
<1> USE DistinctAssumption
<1> DEFINE q == pointing_dict[from]
<1>0. TypeOK /\ CountsExact /\ Shape BY DEF IInv
<1>1. CASE q = NULL
  <2>1. UNCHANGED <<pointing_dict, ob_refcnt, frame, caller, pc>>
    BY <1>1 DEF DelRef, stackVars
  <2> QED BY <2>1, StutterKeeps DEF proxyVars, stackVars
<1>2. CASE q # NULL
  <2>1. q \in Proxy BY <1>0, <1>2 DEF TypeOK
  <2>2. ob_refcnt[q] > 0 BY <2>1, Referenced
  <2>3. /\ pointing_dict' = [pointing_dict EXCEPT ![from] = NULL]
        /\ DecRef(q)
    BY <1>2 DEF DelRef
  <2>4. Shape' /\ RefTypes'
    <3>1. pointing_dict' \in [Loc -> Proxy \cup {NULL}]
      BY <2>3, <1>0 DEF TypeOK
    <3>2. \A l \in Loc : \/ pointing_dict'[l] = pointing_dict[l]
                         \/ /\ pointing_dict'[l] = NULL
                            /\ l \in Proxy => pc[l] # "idle"
      BY <2>3, <1>0 DEF TypeOK
    <3> QED BY <2>1, <2>2, <2>3, <3>1, <3>2, <1>0, DecRefShape DEF gcVars
  <2>5. CountsExact'
    <3> SUFFICES ASSUME NEW p \in Proxy
                 PROVE ob_refcnt'[p] = pyrefs'[p] + leaked'[p] + Cardinality(EntriesOf(p)')
                                       + (IF gc_hold' = p THEN 1 ELSE 0)
      BY DEF CountsExact
    <3>1. ob_refcnt'[p] = IF p = q THEN ob_refcnt[p] - 1 ELSE ob_refcnt[p]
      BY <2>3, <2>1, <1>0 DEF DecRef, TypeOK
    <3>2. Cardinality(EntriesOf(p)') =
            IF p = q THEN Cardinality(EntriesOf(p)) - 1 ELSE Cardinality(EntriesOf(p))
      <4>1. pointing_dict \in [Loc -> Proxy \cup {NULL}] /\ q # NULL
        BY <1>0, <1>2 DEF TypeOK
      <4>2. EntriesOf(p)' =
              {k \in Loc : [pointing_dict EXCEPT ![from] = NULL][k] = p}
        BY <2>3 DEF EntriesOf
      <4> QED BY <4>1, <4>2, EntriesMoved, <2>1 DEF EntriesOf
    <3>3. Cardinality(EntriesOf(p)) \in Nat
      BY EntriesFinite DEF EntriesOf
    <3>4. pyrefs[p] \in Nat /\ leaked[p] \in Nat /\ ob_refcnt[p] \in Nat
      BY <1>0, BoundAssumption DEF TypeOK
    <3> QED BY <3>1, <3>2, <3>3, <3>4, <1>0 DEF CountsExact, gcVars
  <2> QED BY <2>4, <2>5
<1> QED BY <1>1, <1>2

(* Proxy_AddRefTo for a registered proxy does, whatever entry it replaces. *)
LEMMA AddRefKeeps ==
  ASSUME IInv, NEW b \in Proxy, IsBase(b), pc[b] = "idle",
         NEW from \in Place, frame = NULL,
         AddRefTo(b, from),
         UNCHANGED <<policies, p_ptr, pyrefs, leaked, proxy_dict, gcVars>>
  PROVE  CountsExact' /\ Shape' /\ RefTypes'
<1> USE DistinctAssumption
<1> DEFINE old == pointing_dict[from]
<1>1. TypeOK /\ CountsExact /\ Shape BY DEF IInv
<1>2. from \in Loc /\ old \in Proxy \cup {NULL}
  BY <1>1 DEF Loc, TypeOK
<1>3. /\ pointing_dict' = [pointing_dict EXCEPT ![from] = b]
      /\ pointing_dict' \in [Loc -> Proxy \cup {NULL}]
  BY <1>1, <1>2 DEF AddRefTo, TypeOK
<1>4. ob_refcnt[b] > 0
  BY <1>1 DEF Shape, Objects, IsBase, NoObject
<1>5. old # NULL => ob_refcnt[old] > 0
  BY <1>2, Referenced
<1>6. \A l \in Loc : \/ pointing_dict'[l] = pointing_dict[l]
                     \/ l \in Place /\ IsBase(pointing_dict'[l])
  <2>1. IsBase(b)' BY DEF IsBase, NoObject
  <2> QED BY <1>1, <1>3, <2>1 DEF IsBase, NoObject, TypeOK
<1>7. /\ ob_refcnt' \in [Proxy -> Nat]
      /\ \A p \in Proxy : ob_refcnt'[p] =
           ob_refcnt[p] + (IF p = b /\ old # b THEN 1 ELSE 0)
                        - (IF p = old /\ old # b THEN 1 ELSE 0)
  <2>1. CASE old = NULL
    BY <2>1, <1>1 DEF AddRefTo, TypeOK
  <2>2. CASE old = b
    BY <2>2, <1>1 DEF AddRefTo, TypeOK
  <2>3. CASE old # NULL /\ old # b
    <3>1. ob_refcnt' = [ob_refcnt EXCEPT ![b] = @ + 1, ![old] = @ - 1]
      BY <2>3 DEF AddRefTo
    <3> QED BY <3>1, <2>3, <1>1, <1>2, <1>5 DEF TypeOK
  <2> QED BY <2>1, <2>2, <2>3
<1>8. Shape' /\ RefTypes'
  <2>1. CASE old = NULL \/ old = b
    <3>1. NoDealloc
      BY <2>1 DEF AddRefTo, NoDealloc
    <3>2. \A p \in Proxy : ob_refcnt'[p] = 0 <=> ob_refcnt[p] = 0
      BY <1>1, <1>4, <1>7, <2>1 DEF TypeOK
    <3> QED BY <3>1, <3>2, <1>1, <1>3, <1>6, <1>7, RefShape DEF gcVars
  <2>2. CASE old # NULL /\ old # b
    <3>1. IF ob_refcnt[old] = 1 THEN EnterDealloc(old) ELSE NoDealloc
      BY <2>2 DEF AddRefTo
    <3>2. \A p \in Proxy \ {old} : ob_refcnt'[p] = 0 <=> ob_refcnt[p] = 0
      <4> HIDE DEF old
      <4> SUFFICES ASSUME NEW p \in Proxy, p # old
                   PROVE ob_refcnt'[p] = 0 <=> ob_refcnt[p] = 0
        OBVIOUS
      <4>1. ob_refcnt[p] \in Nat BY <1>1 DEF TypeOK
      <4>2. ob_refcnt'[p] = ob_refcnt[p] + (IF p = b THEN 1 ELSE 0)
        BY <1>7, <2>2, <4>1
      <4> QED BY <4>1, <4>2, <1>4
    <3>3. old \in Proxy /\ ob_refcnt'[old] = ob_refcnt[old] - 1
      BY <1>1, <1>2, <1>7, <2>2 DEF TypeOK
    <3>4. CASE ob_refcnt[old] = 1
      BY <3>1, <3>2, <3>3, <3>4, <1>1, <1>3, <1>6, <1>7, RefShape DEF gcVars
    <3>5. CASE ob_refcnt[old] # 1
      <4>1. ob_refcnt'[old] # 0 /\ ob_refcnt[old] # 0
        BY <3>3, <3>5, <1>1, <1>5 DEF TypeOK
      <4> QED
        BY <3>1, <3>2, <3>5, <4>1, <1>1, <1>3, <1>6, <1>7, RefShape DEF gcVars
    <3> QED BY <3>4, <3>5
  <2> QED BY <2>1, <2>2
<1>9. CountsExact'
  <2> SUFFICES ASSUME NEW p \in Proxy
               PROVE ob_refcnt'[p] = pyrefs'[p] + leaked'[p] + Cardinality(EntriesOf(p)')
                                     + (IF gc_hold' = p THEN 1 ELSE 0)
    BY DEF CountsExact
  <2>1. Cardinality(EntriesOf(p)') = Cardinality(EntriesOf(p))
          + (IF p = b /\ old # b THEN 1 ELSE 0)
          - (IF p = old /\ old # b THEN 1 ELSE 0)
    <3>1. EntriesOf(p)' =
            {k \in Loc : [pointing_dict EXCEPT ![from] = b][k] = p}
      BY <1>3 DEF EntriesOf
    <3>2. Cardinality(EntriesOf(p)) \in Nat
      BY EntriesFinite DEF EntriesOf
    <3>3. CASE old = b
      <4>1. EntriesOf(p)' = EntriesOf(p)
        BY <3>1, <3>3, <1>1 DEF EntriesOf, TypeOK
      <4> QED BY <4>1, <3>2, <3>3
    <3>4. CASE old # b
      <4> DEFINE n == Cardinality(EntriesOf(p))
      <4>1. pointing_dict \in [Loc -> Proxy \cup {NULL}] /\ b # old
        BY <1>1, <3>4 DEF TypeOK
      <4>2. /\ p = b => Cardinality(EntriesOf(p)') = n + 1
            /\ p = old => Cardinality(EntriesOf(p)') = n - 1
            /\ p # b /\ p # old => Cardinality(EntriesOf(p)') = n
        BY <4>1, <3>1, <1>2, EntriesMoved DEF EntriesOf
      <4> HIDE DEF n, old
      <4>3. n \in Nat BY <3>2 DEF n
      <4> QED BY <4>2, <4>3, <3>4 DEF n
    <3> QED BY <3>3, <3>4
  <2>2. Cardinality(EntriesOf(p)) \in Nat
    BY EntriesFinite DEF EntriesOf
  <2>3. pyrefs[p] \in Nat /\ leaked[p] \in Nat /\ ob_refcnt[p] \in Nat
    BY <1>1, BoundAssumption DEF TypeOK
  <2> QED BY <1>1, <1>7, <2>1, <2>2, <2>3 DEF CountsExact, gcVars
<1> QED BY <1>8, <1>9

-----------------------------------------------------------------------------
(* The invariant holds at first and every step keeps it.                   *)

LEMMA InvInit == Init => IInv
<1> SUFFICES ASSUME Init PROVE IInv
  OBVIOUS
<1> USE DistinctAssumption, BoundAssumption
<1>1. TypeOK
  <2>1. 0 \in 0..OldestGen /\ Untracked \in Untracked..OldestGen
    BY DEF Untracked
  <2> HIDE BoundAssumption
  <2> QED BY <2>1 DEF Init, TypeOK
<1>2. CountsExact
  <2> SUFFICES ASSUME NEW p \in Proxy
               PROVE ob_refcnt[p] = pyrefs[p] + leaked[p] + Cardinality(EntriesOf(p))
                                     + (IF gc_hold = p THEN 1 ELSE 0)
    BY DEF CountsExact
  <2>1. EntriesOf(p) = {}
    BY DEF Init, EntriesOf, Loc
  <2>2. Cardinality(EntriesOf(p)) = 0
    BY <2>1, FS_EmptySet
  <2> QED BY <2>2 DEF Init
<1>3. Stacked
  <2>1. StackedBy([p \in Proxy |-> 0])
    BY DEF Init, StackedBy, Dying
  <2> QED BY <2>1 DEF Stacked
<1>4. Shape
  BY <1>3 DEF Init, Shape, Objects, Frames, Registry, Sweeping, PolicyHasProxy,
     EntriesBase, Anchored, Collecting, IsBase, NoObject, GcManaged, Loc
<1>5. Building
  BY DEF Init, Building
<1> QED BY <1>1, <1>2, <1>4, <1>5 DEF IInv

(* A step of tp_dealloc. *)
LEMMA InvDealloc ==
  ASSUME IInv, NEW p \in Proxy,
         \/ Unregister(p) \/ Sweep(p) \/ EndSweep(p) \/ Unmap(p)
         \/ DropOwnRef(p) \/ FreeObject(p)
  PROVE  IInv'
<1> USE DistinctAssumption
<1>0. TypeOK /\ CountsExact /\ Shape /\ Building BY DEF IInv
<1> DEFINE c == p_ptr[p]
<1>1. CASE Unregister(p)
  <2>1. p_ptr[p] \in Chunk
    BY <1>0, <1>1 DEF Unregister, TypeOK, Shape, Objects
  <2>2. TypeOK'
    BY <1>0, <1>1, <2>1 DEF Unregister, Forget, TypeOK, heapVars, histVars,
       proxyVars, stackVars, storeVars, initVars, gcVars, genVars
  <2>3. CountsExact'
    BY <1>0, <1>1 DEF Unregister, CountsExact, EntriesOf, proxyVars
  <2>4. Objects'
    BY <1>0, <1>1 DEF Unregister, TypeOK, Shape, Objects, proxyVars
  <2>5. Frames'
    BY <1>0, <1>1 DEF Unregister, TypeOK, Shape, Frames
  <2>6. Registry' /\ Sweeping'
    BY <1>0, <1>1, <2>1 DEF Unregister, TypeOK, Shape, Registry, Sweeping,
       Objects, proxyVars
  <2>7. PolicyHasProxy'
    BY <1>0, <1>1, <2>1 DEF Unregister, TypeOK, Shape, PolicyHasProxy, Registry,
       GcManaged, proxyVars
  <2>8. EntriesBase'
    BY <1>0, <1>1 DEF Unregister, Shape, EntriesBase, IsBase, NoObject, proxyVars
  <2>9. Anchored'
    BY <1>0, <1>1 DEF Unregister, TypeOK, Shape, Anchored, IsBase, NoObject,
       proxyVars
  <2>10. Collecting'
    BY <1>0, <1>1 DEF Unregister, TypeOK, Shape, Collecting, IsBase, NoObject,
       proxyVars
  <2>11. Building'
    BY <1>0, <1>1 DEF Unregister, Building, proxyVars, initVars
  <2>12. Stacked'
    <3>1. \A r \in Proxy : pc'[r] = "idle" <=> pc[r] = "idle"
      BY <1>0, <1>1 DEF Unregister, TypeOK
    <3> QED BY <3>1, <1>0, <1>1, StackSame DEF Unregister, Shape
  <2> QED BY <2>2, <2>3, <2>4, <2>5, <2>6, <2>7, <2>8, <2>9, <2>10, <2>11, <2>12
             DEF IInv, Shape
<1>2. CASE Sweep(p)
  <2>1. PICK s \in Slots(p_ptr[p]) : SweepSlot(s)
    BY <1>2 DEF Sweep
  <2>2. /\ s \in Loc /\ s \in Place /\ s \notin Proxy
        /\ frame = p /\ pc[frame] = "sweep"
    BY <1>2 DEF Sweep, Slots, Loc, Place
  <2>3. CountsExact' /\ Shape' /\ RefTypes'
    <3>1. CASE GcManaged(field[s])
      <4>1. DelRef(s) BY <2>1, <3>1 DEF SweepSlot
      <4>2. UNCHANGED <<policies, p_ptr, pyrefs, leaked, proxy_dict, gcVars>>
        BY <2>1 DEF SweepSlot
      <4> QED BY <2>2, <4>1, <4>2, DelRefKeeps
    <3>2. CASE ~GcManaged(field[s])
      BY <2>1, <3>2, StutterKeeps DEF SweepSlot, proxyVars
    <3> QED BY <3>1, <3>2
  <2>4. TypeOK'
    BY <1>0, <2>1, <2>2, <2>3 DEF SweepSlot, TypeOK, RefTypes, histVars,
       storeVars, initVars, gcVars, genVars
  <2>5. Building'
    BY <1>0, <2>1 DEF SweepSlot, Building, initVars
  <2> QED BY <2>3, <2>4, <2>5 DEF IInv
<1>3. CASE EndSweep(p)
  <2>1. TypeOK'
    BY <1>0, <1>3 DEF EndSweep, TypeOK, heapVars, histVars, proxyVars, storeVars,
       initVars, gcVars, genVars
  <2>2. CountsExact'
    BY <1>0, <1>3 DEF EndSweep, CountsExact, EntriesOf, proxyVars, gcVars
  <2>5. Stacked'
    <3>1. \A r \in Proxy : pc'[r] = "idle" <=> pc[r] = "idle"
      BY <1>0, <1>3 DEF EndSweep, TypeOK
    <3> QED BY <3>1, <1>0, <1>3, StackSame DEF EndSweep, Shape
  <2>3. Shape'
    BY <2>5, <1>0, <1>3 DEF EndSweep, TypeOK, Shape, Objects, Frames, Registry,
       Sweeping, PolicyHasProxy, EntriesBase, Anchored, Collecting, IsBase,
       NoObject, GcManaged, heapVars, proxyVars, gcVars
  <2>4. Building'
    BY <1>0, <1>3 DEF EndSweep, Building, proxyVars, initVars
  <2> QED BY <2>1, <2>2, <2>3, <2>4 DEF IInv
<1>4. CASE Unmap(p)
  <2>0. c \in Chunk /\ proxy_dict[c] = p /\ ob_refcnt[p] = 0
    BY <1>0, <1>4 DEF Unmap, TypeOK, Shape, Objects, Sweeping
  <2>1. TypeOK'
    BY <1>0, <1>4, <2>0 DEF Unmap, TypeOK, heapVars, histVars, proxyVars,
       storeVars, initVars, gcVars, genVars
  <2>2. CountsExact'
    BY <1>0, <1>4 DEF Unmap, CountsExact, EntriesOf, proxyVars, gcVars
  <2>3. Objects' /\ Frames'
    BY <1>0, <1>4 DEF Unmap, TypeOK, Shape, Objects, Frames, proxyVars
  <2>4. Registry' /\ Sweeping'
    BY <1>0, <1>4, <2>0 DEF Unmap, TypeOK, Shape, Registry, Sweeping, heapVars,
       proxyVars
  <2>5. PolicyHasProxy'
    BY <1>0, <1>4, <2>0 DEF Unmap, TypeOK, Shape, PolicyHasProxy, GcManaged,
       heapVars, proxyVars
  <2>6. EntriesBase'
    <3> SUFFICES ASSUME NEW l \in Loc, pointing_dict[l] # NULL
                 PROVE IsBase(pointing_dict[l])'
      BY <1>4 DEF Unmap, EntriesBase
    <3>1. pointing_dict[l] \in Proxy BY <1>0 DEF TypeOK
    <3>2. pointing_dict[l] # p BY <3>1, <2>0, Referenced
    <3>3. IsBase(pointing_dict[l]) BY <1>0 DEF Shape, EntriesBase
    <3> QED BY <3>1, <3>2, <3>3, <2>0, <1>4, <1>0
            DEF Unmap, IsBase, NoObject, TypeOK, proxyVars
  <2>7. Anchored'
    BY <1>0, <1>4, <2>0 DEF Unmap, TypeOK, Shape, Anchored, IsBase, NoObject,
       proxyVars
  <2>8. Collecting'
    BY <1>0, <1>4, <2>0 DEF Unmap, TypeOK, Shape, Collecting, IsBase, NoObject,
       proxyVars, gcVars
  <2>9. Building'
    BY <1>0, <1>4 DEF Unmap, Building, proxyVars, initVars
  <2>10. Stacked'
    <3>1. \A r \in Proxy : pc'[r] = "idle" <=> pc[r] = "idle"
      BY <1>0, <1>4 DEF Unmap, TypeOK
    <3> QED BY <3>1, <1>0, <1>4, StackSame DEF Unmap, Shape
  <2> QED BY <2>1, <2>2, <2>3, <2>4, <2>5, <2>6, <2>7, <2>8, <2>9, <2>10
             DEF IInv, Shape
<1>5. CASE DropOwnRef(p)
  <2>1. CountsExact' /\ Shape' /\ RefTypes'
    <3>1. p \in Loc /\ pc[p] = "own" /\ frame = p
      BY <1>5 DEF DropOwnRef, Loc
    <3> QED BY <3>1, <1>5, DelRefKeeps DEF DropOwnRef, heapVars
  <2>2. TypeOK'
    BY <1>0, <1>5, <2>1 DEF DropOwnRef, TypeOK, RefTypes, heapVars, histVars,
       storeVars, initVars, gcVars, genVars
  <2>3. Building'
    BY <1>0, <1>5 DEF DropOwnRef, Building, initVars
  <2> QED BY <2>1, <2>2, <2>3 DEF IInv
<1>6. CASE FreeObject(p)
  <2>0. /\ ob_refcnt[p] = 0 /\ c \in Chunk
        /\ \A l \in Loc : pointing_dict[l] # p
        /\ \A d \in Chunk : proxy_dict[d] # p
    <3>1. ob_refcnt[p] = 0 /\ c \in Chunk
      BY <1>0, <1>6 DEF FreeObject, TypeOK, Shape, Objects
    <3>2. \A d \in Chunk : proxy_dict[d] # p
      BY <1>0, <1>6 DEF FreeObject, Shape, Registry
    <3> QED BY <3>1, <3>2, Referenced
  <2>1. TypeOK'
    BY <1>0, <1>6, BoundAssumption DEF FreeObject, TypeOK, heapVars, histVars,
       storeVars, initVars, gcVars
  <2>2. CountsExact'
    BY <1>0, <1>6 DEF FreeObject, CountsExact, EntriesOf, gcVars
  <2>3. Objects' /\ Frames'
    BY <1>0, <1>6, <2>0 DEF FreeObject, TypeOK, Shape, Objects, Frames
  <2>4. Registry' /\ Sweeping'
    BY <1>0, <1>6, <2>0 DEF FreeObject, TypeOK, Shape, Registry, Sweeping, heapVars
  <2>5. PolicyHasProxy'
    BY <1>0, <1>6, <2>0 DEF FreeObject, TypeOK, Shape, PolicyHasProxy, GcManaged,
       heapVars
  <2>6. EntriesBase'
    BY <1>0, <1>6, <2>0 DEF FreeObject, TypeOK, Shape, EntriesBase, IsBase, NoObject
  <2>7. Anchored'
    BY <1>0, <1>6, <2>0 DEF FreeObject, TypeOK, Shape, Anchored, IsBase, NoObject,
       Loc
  <2>8. Collecting'
    BY <1>0, <1>6, <2>0 DEF FreeObject, TypeOK, Shape, Collecting, IsBase,
       NoObject, gcVars
  <2>9. Building'
    BY <1>0, <1>6 DEF FreeObject, Building, initVars
  <2>10. Stacked'
    BY <1>0, <1>6, StackPop DEF Shape
  <2> QED BY <2>1, <2>2, <2>3, <2>4, <2>5, <2>6, <2>7, <2>8, <2>9, <2>10
             DEF IInv, Shape
<1> QED BY <1>1, <1>2, <1>3, <1>4, <1>5, <1>6

(* A pointer store begins: the old pointer is let go of. *)
LEMMA BeginStoreKeeps ==
  ASSUME IInv, Quiet, NEW dest \in Place, NEW val \in Chunk \cup {NULL},
         BeginStore(dest, val),
         UNCHANGED <<policies, p_ptr, pyrefs, leaked, proxy_dict, gcVars>>
  PROVE  CountsExact' /\ Shape' /\ RefTypes'
<1>1. dest \in Loc /\ dest \notin Proxy /\ frame = NULL
  BY DistinctAssumption DEF Loc, Place, Quiet
<1>2. CASE GcManaged(field[dest])
  <2>1. DelRef(dest) BY <1>2 DEF BeginStore
  <2> QED BY <1>1, <2>1, DelRefKeeps
<1>3. CASE ~GcManaged(field[dest])
  BY <1>3, StutterKeeps DEF BeginStore, proxyVars
<1> QED BY <1>2, <1>3

(* The store ends: the base proxy of the new target gains a reference. *)
LEMMA InvFinishStore == ASSUME IInv, FinishStore PROVE IInv'
<1> USE DistinctAssumption
<1>0. TypeOK /\ Shape /\ Building BY DEF IInv
<1> DEFINE b == proxy_dict[notify_val]
<1>1. notify_dest \in Place /\ frame = NULL
  BY <1>0 DEF FinishStore, TypeOK
<1>2. UNCHANGED <<policies, p_ptr, pyrefs, leaked, proxy_dict, gcVars>>
  BY DEF FinishStore
<1>3. CountsExact' /\ Shape' /\ RefTypes' /\ dict_gen' \in Untracked..OldestGen
  <2>1. CASE GcManaged(notify_val)
    <3>1. notify_val \in Chunk
      BY <1>0, <2>1 DEF TypeOK, GcManaged
    <3>2. b \in Proxy /\ p_ptr[b] = notify_val /\ pc[b] \in {"idle", "unregister"}
      BY <1>0, <2>1, <3>1 DEF TypeOK, Shape, PolicyHasProxy
    <3>3. IsBase(b) /\ pc[b] = "idle"
      BY <1>0, <1>1, <3>1, <3>2 DEF IsBase, NoObject, Shape, Frames
    <3>4. AddRefTo(b, notify_dest)
      BY <2>1 DEF FinishStore
    <3>5. CountsExact' /\ Shape' /\ RefTypes'
      BY <1>1, <1>2, <3>2, <3>3, <3>4, AddRefKeeps
    <3>6. dict_gen' \in Untracked..OldestGen
      BY <1>0, <3>4, BoundAssumption DEF AddRefTo, TypeOK, Untracked
    <3> QED BY <3>5, <3>6
  <2>2. CASE ~GcManaged(notify_val)
    <3>1. UNCHANGED <<pointing_dict, ob_refcnt, stackVars, dict_gen>>
      BY <2>2 DEF FinishStore
    <3> QED BY <1>0, <1>2, <3>1, StutterKeeps DEF proxyVars, TypeOK
  <2> QED BY <2>1, <2>2
<1>4. TypeOK'
  BY <1>0, <1>1, <1>2, <1>3 DEF FinishStore, TypeOK, RefTypes, initVars, gcVars
<1>5. Building'
  BY <1>0 DEF FinishStore, Building, initVars
<1> QED BY <1>3, <1>4, <1>5 DEF IInv

(* Stores by initialisers, by Python code and by C code. *)
LEMMA InvStores ==
  ASSUME IInv, NEW dest \in Place, NEW val \in Chunk \cup {NULL},
         \/ InitStore(dest, val)
         \/ \E p \in Proxy : SetField(p, dest, val)
         \/ CWrite(dest, val)
  PROVE  IInv'
<1>0. TypeOK /\ Building BY DEF IInv
<1>1. Quiet /\ BeginStore(dest, val)
  BY DEF InitStore, SetField, CWrite, Idle
<1>2. UNCHANGED <<heapVars, histVars, p_ptr, pyrefs, leaked, proxy_dict, freeing, gcVars,
                  genVars>>
  BY DEF InitStore, SetField, CWrite
<1>3. /\ UNCHANGED <<init_obj, init_fresh, init_attrs>>
      /\ init_todo' \subseteq init_todo
  BY DEF InitStore, SetField, CWrite, initVars
<1>4. CountsExact' /\ Shape' /\ RefTypes'
  BY <1>1, <1>2, BeginStoreKeeps DEF heapVars
<1>5. notify_dest' = dest /\ notify_val' = val
  BY <1>1 DEF BeginStore
<1>6. TypeOK'
  BY <1>0, <1>2, <1>3, <1>4, <1>5 DEF TypeOK, RefTypes, heapVars, histVars, gcVars,
     genVars
<1>7. Building'
  BY <1>0, <1>2, <1>3 DEF Building
<1> QED BY <1>4, <1>6, <1>7 DEF IInv

(* The fields of what C frees are let go of. *)
LEMMA InvCFreeSweep == ASSUME IInv, CFreeSweep PROVE IInv'
<1> USE DistinctAssumption
<1>0. TypeOK /\ Building BY DEF IInv
<1>1. PICK s \in Slots(freeing) : SweepSlot(s)
  BY DEF CFreeSweep
<1>2. s \in Loc /\ s \in Place /\ s \notin Proxy /\ frame = NULL
  BY DEF CFreeSweep, Slots, Loc, Place
<1>3. CountsExact' /\ Shape' /\ RefTypes'
  <2>1. CASE GcManaged(field[s])
    <3>1. DelRef(s) BY <1>1, <2>1 DEF SweepSlot
    <3>2. UNCHANGED <<policies, p_ptr, pyrefs, leaked, proxy_dict, gcVars>>
      BY <1>1 DEF SweepSlot
    <3> QED BY <1>2, <3>1, <3>2, DelRefKeeps
  <2>2. CASE ~GcManaged(field[s])
    BY <1>1, <2>2, StutterKeeps DEF SweepSlot, proxyVars
  <2> QED BY <2>1, <2>2
<1>4. TypeOK'
  BY <1>0, <1>1, <1>2, <1>3 DEF SweepSlot, TypeOK, RefTypes, histVars, storeVars,
     initVars, gcVars, genVars
<1>5. Building'
  BY <1>0, <1>1 DEF SweepSlot, Building, initVars
<1> QED BY <1>3, <1>4, <1>5 DEF IInv

-----------------------------------------------------------------------------
(* Steps between operations: no deallocation is in progress.               *)

LEMMA QuietIdle ==
  ASSUME IInv, frame = NULL
  PROVE  \A p \in Proxy : pc[p] = "idle"
BY DEF IInv, Shape, Stacked, StackedBy, Dying

(* A reference Python code or the collector holds is dropped. *)
LEMMA DropRef ==
  ASSUME IInv, frame = NULL, NEW q \in Proxy, DecRef(q),
         UNCHANGED <<policies, p_ptr, proxy_dict, pointing_dict>>,
         gc_set' \subseteq gc_set, leaked' = leaked,
         \/ /\ pyrefs[q] > 0 /\ pyrefs' = [pyrefs EXCEPT ![q] = @ - 1]
            /\ gc_hold' = gc_hold
         \/ gc_hold = q /\ gc_hold' = NULL /\ pyrefs' = pyrefs
  PROVE  /\ CountsExact' /\ Shape' /\ RefTypes'
         /\ pyrefs' \in [Proxy -> Nat]
<1> USE DistinctAssumption
<1>0. TypeOK /\ CountsExact /\ Shape BY DEF IInv
<1>1. ob_refcnt[q] > 0 BY Referenced
<1>2. Shape' /\ RefTypes'
  BY <1>0, <1>1, DecRefShape DEF TypeOK
<1>3. pyrefs' \in [Proxy -> Nat]
  BY <1>0, BoundAssumption DEF TypeOK
<1>4. CountsExact'
  <2> SUFFICES ASSUME NEW p \in Proxy
               PROVE ob_refcnt'[p] = pyrefs'[p] + leaked'[p] + Cardinality(EntriesOf(p)')
                                     + (IF gc_hold' = p THEN 1 ELSE 0)
    BY DEF CountsExact
  <2>1. EntriesOf(p)' = EntriesOf(p) BY DEF EntriesOf
  <2>2. Cardinality(EntriesOf(p)) \in Nat BY EntriesFinite DEF EntriesOf
  <2>3. pyrefs[p] \in Nat /\ leaked[p] \in Nat /\ ob_refcnt[p] \in Nat
    BY <1>0, BoundAssumption DEF TypeOK
  <2>4. ob_refcnt'[p] = IF p = q THEN ob_refcnt[p] - 1 ELSE ob_refcnt[p]
    BY <1>0 DEF DecRef, TypeOK
  <2>5. /\ pyrefs'[p] + (IF gc_hold' = p THEN 1 ELSE 0) =
             pyrefs[p] + (IF gc_hold = p THEN 1 ELSE 0) - (IF p = q THEN 1 ELSE 0)
        /\ leaked'[p] = leaked[p]
    BY <1>0, <2>3 DEF TypeOK
  <2>6. ob_refcnt[p] = pyrefs[p] + leaked[p] + Cardinality(EntriesOf(p))
                       + (IF gc_hold = p THEN 1 ELSE 0)
    BY <1>0 DEF CountsExact
  <2>7. pyrefs'[p] \in Nat BY <1>3, BoundAssumption
  <2> QED BY <2>1, <2>2, <2>3, <2>4, <2>5, <2>6, <2>7
<1> QED BY <1>2, <1>3, <1>4

(* One more reference is taken to an object that has some. *)
LEMMA TakeRef ==
  ASSUME IInv, frame = NULL, NEW q \in Proxy, ob_refcnt[q] > 0,
         ob_refcnt' = [ob_refcnt EXCEPT ![q] = @ + 1],
         UNCHANGED <<policies, p_ptr, proxy_dict, pointing_dict, stackVars, gc_set>>,
         \/ /\ pyrefs' = [pyrefs EXCEPT ![q] = @ + 1]
            /\ gc_hold' = gc_hold /\ leaked' = leaked
         \/ /\ leaked' = [leaked EXCEPT ![q] = @ + 1]
            /\ gc_hold' = gc_hold /\ pyrefs' = pyrefs
         \/ gc_hold = NULL /\ gc_hold' = q /\ UNCHANGED <<pyrefs, leaked>>
  PROVE  CountsExact' /\ Shape' /\ RefTypes'
<1> USE DistinctAssumption
<1>0. TypeOK /\ CountsExact /\ Shape BY DEF IInv
<1>1. Shape' /\ RefTypes'
  <2>1. /\ ob_refcnt' \in [Proxy -> Nat]
        /\ \A p \in Proxy : ob_refcnt'[p] = 0 <=> ob_refcnt[p] = 0
    BY <1>0 DEF TypeOK
  <2> QED BY <1>0, <2>1, RefShape DEF TypeOK, NoDealloc
<1>2. CountsExact'
  <2> SUFFICES ASSUME NEW p \in Proxy
               PROVE ob_refcnt'[p] = pyrefs'[p] + leaked'[p] + Cardinality(EntriesOf(p)')
                                     + (IF gc_hold' = p THEN 1 ELSE 0)
    BY DEF CountsExact
  <2>1. EntriesOf(p)' = EntriesOf(p) BY DEF EntriesOf
  <2>2. Cardinality(EntriesOf(p)) \in Nat BY EntriesFinite DEF EntriesOf
  <2>3. pyrefs[p] \in Nat /\ leaked[p] \in Nat /\ ob_refcnt[p] \in Nat
    BY <1>0, BoundAssumption DEF TypeOK
  <2>4. ob_refcnt'[p] = IF p = q THEN ob_refcnt[p] + 1 ELSE ob_refcnt[p]
    BY <1>0 DEF TypeOK
  <2>5. pyrefs'[p] + leaked'[p] + (IF gc_hold' = p THEN 1 ELSE 0) =
          pyrefs[p] + leaked[p] + (IF gc_hold = p THEN 1 ELSE 0)
                    + (IF p = q THEN 1 ELSE 0)
    BY <1>0, <2>3 DEF TypeOK
  <2>6. ob_refcnt[p] = pyrefs[p] + leaked[p] + Cardinality(EntriesOf(p))
                       + (IF gc_hold = p THEN 1 ELSE 0)
    BY <1>0 DEF CountsExact
  <2>7. pyrefs'[p] \in Nat /\ leaked'[p] \in Nat BY <1>0, <2>3 DEF TypeOK
  <2> QED BY <2>1, <2>2, <2>3, <2>4, <2>5, <2>6, <2>7
<1> QED BY <1>1, <1>2

(* Nothing refers to an object that does not exist. *)
LEMMA Unborn ==
  ASSUME IInv, NEW p \in Proxy, NoObject(p)
  PROVE  /\ ob_refcnt[p] = 0 /\ pyrefs[p] = 0 /\ leaked[p] = 0
         /\ gc_hold # p /\ pc[p] = "idle"
         /\ Cardinality(EntriesOf(p)) = 0
         /\ \A l \in Loc : pointing_dict[l] # p
         /\ \A c \in Chunk : proxy_dict[c] # p
         /\ pointing_dict[p] = NULL
<1> USE DistinctAssumption
<1>0. TypeOK /\ CountsExact /\ Shape BY DEF IInv
<1>1. ob_refcnt[p] = 0 /\ pc[p] = "idle" /\ pointing_dict[p] = NULL
  BY <1>0 DEF TypeOK, Shape, Objects, NoObject
<1>2. /\ \A l \in Loc : pointing_dict[l] # p
      /\ gc_hold # p /\ ~(pyrefs[p] > 0) /\ ~(leaked[p] > 0)
  BY <1>1, Referenced
<1>3. pyrefs[p] = 0 /\ leaked[p] = 0
  BY <1>0, <1>2, BoundAssumption DEF TypeOK
<1>4. EntriesOf(p) = {} BY <1>2 DEF EntriesOf
<1>5. \A c \in Chunk : proxy_dict[c] # p
  BY <1>0 DEF Shape, Registry, NoObject
<1> QED BY <1>1, <1>2, <1>3, <1>4, <1>5, FS_EmptySet

(* Objects D are created together with, or for, the base proxy b of c,     *)
(* which may be created first: all of them are anchored.                   *)
LEMMA BaseShape ==
  ASSUME IInv, Idle, NEW c \in Chunk, NEW b \in Proxy, NEW D \in SUBSET Proxy,
         \A d \in D : NoObject(d) /\ d # b,
         \/ /\ proxy_dict[c] = b
            /\ UNCHANGED <<proxy_dict, policies>>
         \/ /\ proxy_dict[c] = NULL /\ NoObject(b)
            /\ proxy_dict' = [proxy_dict EXCEPT ![c] = b]
            /\ policies' = [policies EXCEPT ![c] = @ \cup {"gc"}],
         p_ptr' = [p \in Proxy |-> IF p \in D \cup {b} THEN c ELSE p_ptr[p]],
         pointing_dict' = [l \in Loc |-> IF l \in D THEN b ELSE pointing_dict[l]],
         ob_refcnt' \in [Proxy -> Nat],
         \A p \in Proxy : IF p \in D \cup {b} THEN ob_refcnt'[p] > 0
                          ELSE ob_refcnt'[p] = ob_refcnt[p],
         UNCHANGED <<stackVars, gcVars>>
  PROVE  Shape'
<1> USE DistinctAssumption
<1>0. TypeOK /\ Shape BY DEF IInv
<1>1. frame = NULL /\ gc_set = {} /\ UNCHANGED <<frame, caller, pc, gc_set>>
  BY DEF Idle, Quiet, stackVars, gcVars
<1>2. \A p \in Proxy : pc[p] = "idle" /\ pc'[p] = "idle"
  BY <1>1, QuietIdle
<1>3. /\ \A p \in Proxy : p_ptr'[p] = IF p \in D \cup {b} THEN c ELSE p_ptr[p]
      /\ \A l \in Loc : pointing_dict'[l] = IF l \in D THEN b ELSE pointing_dict[l]
  OBVIOUS
<1>4. /\ proxy_dict'[c] = b
      /\ \A x \in Chunk : x # c => proxy_dict'[x] = proxy_dict[x]
      /\ "gc" \in policies'[c]
      /\ \A x \in Chunk : x # c => policies'[x] = policies[x]
      /\ proxy_dict[c] \in {b, NULL}
      /\ b # NULL /\ c # NULL
      /\ NoObject(b) \/ p_ptr[b] = c
  <2>1. b # NULL /\ c # NULL OBVIOUS
  <2>2. CASE proxy_dict[c] = b
    <3>1. p_ptr[b] = c /\ "gc" \in policies[c]
      BY <1>0, <1>2, <2>1, <2>2 DEF Shape, Registry, PolicyHasProxy, GcManaged
    <3> QED BY <2>1, <2>2, <3>1
  <2>3. CASE proxy_dict[c] = NULL
    BY <1>0, <2>1, <2>3 DEF TypeOK
  <2> QED BY <2>2, <2>3
<1>5. \A p \in Proxy : NoObject(p) =>
        /\ \A l \in Loc : pointing_dict[l] # p
        /\ pointing_dict[p] = NULL
        /\ \A x \in Chunk : proxy_dict[x] # p
  BY Unborn
<1>6. Objects'
  BY <1>0, <1>2, <1>3, <1>4 DEF Shape, Objects, Loc
<1>7. Frames' /\ Sweeping' /\ Collecting'
  BY <1>1, <1>2 DEF Frames, Sweeping, Collecting
<1>8. Stacked'
  BY <1>0, <1>1, StackSame DEF Shape
<1>9. Registry'
  BY <1>0, <1>2, <1>3, <1>4, <1>5 DEF TypeOK, Shape, Registry, NoObject
<1>10. PolicyHasProxy'
  <2> SUFFICES ASSUME NEW x \in Chunk
               PROVE GcManaged(x)' <=>
                     /\ proxy_dict'[x] # NULL /\ p_ptr'[proxy_dict'[x]] = x
                     /\ pc'[proxy_dict'[x]] \in {"idle", "unregister"}
    BY DEF PolicyHasProxy
  <2>1. CASE x = c
    BY <2>1, <1>2, <1>3, <1>4 DEF GcManaged
  <2>2. CASE x # c
    <3>1. GcManaged(x)' <=> GcManaged(x)
      BY <2>2, <1>4 DEF GcManaged
    <3>2. GcManaged(x) <=> /\ proxy_dict[x] # NULL /\ p_ptr[proxy_dict[x]] = x
                           /\ pc[proxy_dict[x]] \in {"idle", "unregister"}
      BY <1>0 DEF Shape, PolicyHasProxy
    <3>3. proxy_dict'[x] = proxy_dict[x] BY <2>2, <1>4
    <3>4. proxy_dict[x] # NULL => proxy_dict[x] \in Proxy /\ p_ptr[proxy_dict[x]] = x
      BY <1>0 DEF TypeOK, Shape, Registry
    <3>5. proxy_dict[x] # NULL => proxy_dict[x] \notin D \cup {b}
      BY <2>2, <3>4, <1>4, <1>5
    <3> QED BY <3>1, <3>2, <3>3, <3>4, <3>5, <1>2, <1>3
  <2> QED BY <2>1, <2>2
<1>11. EntriesBase'
  <2> SUFFICES ASSUME NEW l \in Loc, pointing_dict'[l] # NULL
               PROVE IsBase(pointing_dict[l])'
    BY DEF EntriesBase
  <2>1. CASE l \in D
    BY <2>1, <1>3, <1>4 DEF IsBase, NoObject
  <2>2. CASE l \notin D
    <3>1. /\ pointing_dict'[l] = pointing_dict[l]
          /\ pointing_dict[l] \in Proxy /\ IsBase(pointing_dict[l])
      BY <2>2, <1>0, <1>3 DEF TypeOK, Shape, EntriesBase
    <3>2. p_ptr[pointing_dict[l]] \in Chunk
      BY <3>1, <1>0 DEF TypeOK, IsBase, NoObject
    <3>3. pointing_dict[l] \notin D BY <3>1 DEF IsBase
    <3> QED BY <3>1, <3>2, <3>3, <1>3, <1>4 DEF IsBase, NoObject
  <2> QED BY <2>1, <2>2
<1>12. Anchored'
  <2> SUFFICES ASSUME NEW p \in Proxy, ~NoObject(p)', ~IsBase(p)'
               PROVE pointing_dict'[p] # NULL
                     /\ p_ptr'[pointing_dict'[p]] = p_ptr'[p]
    BY DEF Anchored
  <2>1. p # b /\ p \in Loc
    BY <1>3, <1>4 DEF IsBase, NoObject, Loc
  <2>2. CASE p \in D
    BY <2>1, <2>2, <1>3, <1>4
  <2>3. CASE p \notin D
    <3>1. /\ p_ptr'[p] = p_ptr[p] /\ pointing_dict'[p] = pointing_dict[p]
          /\ ~NoObject(p)
      BY <2>1, <2>3, <1>3 DEF NoObject
    <3>2. p_ptr[p] \in Chunk
      BY <3>1, <1>0 DEF TypeOK, NoObject
    <3>3. ~IsBase(p)
      BY <2>1, <3>1, <3>2, <1>4 DEF IsBase, NoObject
    <3>4. pointing_dict[p] # NULL /\ p_ptr[pointing_dict[p]] = p_ptr[p]
      BY <3>1, <3>3, <1>0, <1>2 DEF Shape, Anchored
    <3>5. pointing_dict[p] \in Proxy /\ ~NoObject(pointing_dict[p])
      BY <2>1, <3>4, <1>0, <1>5 DEF TypeOK
    <3> QED BY <3>1, <3>4, <3>5, <1>3, <1>4
  <2> QED BY <2>2, <2>3
<1> QED BY <1>6, <1>7, <1>8, <1>9, <1>10, <1>11, <1>12 DEF Shape

(* A constructor registers a new object for new memory. *)
LEMMA InvConstruct ==
  ASSUME IInv, NEW p \in Proxy, NEW c \in Chunk, Construct(p, c)
  PROVE  IInv'
<1> USE DistinctAssumption
<1>0. TypeOK /\ CountsExact /\ Shape /\ Building BY DEF IInv
<1>1. PICK junk \in [Slots(c) -> Chunk \cup {NULL}] :
        field' = [x \in Place |-> IF x \in Slots(c) THEN junk[x] ELSE field[x]]
  BY DEF Construct
<1>2. /\ Idle /\ NoObject(p) /\ proxy_dict[c] = NULL /\ Register(p, c)
      /\ p_ptr' = [p_ptr EXCEPT ![p] = c]
      /\ ob_refcnt' = [ob_refcnt EXCEPT ![p] = 1]
      /\ pyrefs' = [pyrefs EXCEPT ![p] = 1]
      /\ init_obj' = p /\ init_todo' = Slots(c) /\ init_fresh' = TRUE
      /\ init_attrs' \in BOOLEAN
      /\ UNCHANGED <<leaked, histVars, pointing_dict, stackVars, storeVars, gcVars,
                     dict_gen>>
  BY DEF Construct
<1>3. Shape'
  <2>1. p_ptr' = [q \in Proxy |-> IF q \in {} \cup {p} THEN c ELSE p_ptr[q]]
    BY <1>0, <1>2 DEF TypeOK
  <2>2. pointing_dict' = [l \in Loc |-> IF l \in {} THEN p ELSE pointing_dict[l]]
    BY <1>0, <1>2 DEF TypeOK
  <2>3. /\ ob_refcnt' \in [Proxy -> Nat]
        /\ \A q \in Proxy : IF q \in {} \cup {p} THEN ob_refcnt'[q] > 0
                            ELSE ob_refcnt'[q] = ob_refcnt[q]
    BY <1>0, <1>2 DEF TypeOK
  <2> QED BY <1>2, <2>1, <2>2, <2>3, BaseShape DEF Register
<1>4. CountsExact'
  <2> SUFFICES ASSUME NEW q \in Proxy
               PROVE ob_refcnt'[q] = pyrefs'[q] + leaked'[q] + Cardinality(EntriesOf(q)')
                                     + (IF gc_hold' = q THEN 1 ELSE 0)
    BY DEF CountsExact
  <2>1. EntriesOf(q)' = EntriesOf(q) /\ gc_hold' = gc_hold
    BY <1>2 DEF EntriesOf, gcVars
  <2>2. CASE q = p
    <3>1. Cardinality(EntriesOf(p)) = 0 /\ leaked[p] = 0 /\ gc_hold # p
      BY <1>2, Unborn
    <3>2. ob_refcnt'[p] = 1 /\ pyrefs'[p] = 1 /\ leaked' = leaked
      BY <1>0, <1>2 DEF TypeOK
    <3> QED BY <2>1, <2>2, <3>1, <3>2
  <2>3. CASE q # p
    <3>1. ob_refcnt'[q] = ob_refcnt[q] /\ pyrefs'[q] = pyrefs[q]
      BY <1>0, <1>2, <2>3 DEF TypeOK
    <3>2. leaked' = leaked BY <1>2
    <3>3. ob_refcnt[q] = pyrefs[q] + leaked[q] + Cardinality(EntriesOf(q))
                         + (IF gc_hold = q THEN 1 ELSE 0)
      BY <1>0 DEF CountsExact
    <3> QED BY <2>1, <3>1, <3>2, <3>3
  <2> QED BY <2>2, <2>3
<1>5. TypeOK'
  <2>1. field' \in [Place -> Chunk \cup {NULL}]
    BY <1>0, <1>1 DEF TypeOK
  <2>2. pyrefs' \in [Proxy -> Nat]
    BY <1>0, <1>2, BoundAssumption DEF TypeOK
  <2>3. gen' \in [Proxy -> 0..OldestGen]
    BY <1>0, <1>2, BoundAssumption DEF TypeOK, Register
  <2>4. init_todo' \subseteq Slot BY <1>2 DEF Slots
  <2> QED BY <1>0, <1>2, <2>1, <2>2, <2>3, <2>4 DEF TypeOK, Register, histVars,
          stackVars, storeVars, gcVars
<1>6. Building'
  BY <1>0, <1>2 DEF TypeOK, Building
<1> QED BY <1>3, <1>4, <1>5, <1>6 DEF IInv

(* A base proxy is handed to Python code. *)
LEMMA InvReturnBase ==
  ASSUME IInv, NEW c \in Chunk, NEW b \in Proxy, ReturnBase(c, b)
  PROVE  IInv'
<1> USE DistinctAssumption
<1>0. TypeOK /\ CountsExact /\ Shape /\ Building BY DEF IInv
<1>1. /\ Idle /\ GetOrCreateBase(c, b)
      /\ p_ptr' = [p_ptr EXCEPT ![b] = c]
      /\ ob_refcnt' = [ob_refcnt EXCEPT ![b] = @ + 1]
      /\ pyrefs' = [pyrefs EXCEPT ![b] = @ + 1]
      /\ UNCHANGED <<field, leaked, histVars, pointing_dict, stackVars, storeVars,
                     initVars, gcVars, dict_gen>>
  BY DEF ReturnBase
<1>2. Shape'
  <2>1. p_ptr' = [q \in Proxy |-> IF q \in {} \cup {b} THEN c ELSE p_ptr[q]]
    BY <1>0, <1>1 DEF TypeOK
  <2>2. pointing_dict' = [l \in Loc |-> IF l \in {} THEN b ELSE pointing_dict[l]]
    BY <1>0, <1>1 DEF TypeOK
  <2>3. /\ ob_refcnt' \in [Proxy -> Nat]
        /\ \A q \in Proxy : IF q \in {} \cup {b} THEN ob_refcnt'[q] > 0
                            ELSE ob_refcnt'[q] = ob_refcnt[q]
    BY <1>0, <1>1 DEF TypeOK
  <2> QED BY <1>1, <2>1, <2>2, <2>3, BaseShape DEF GetOrCreateBase, Register
<1>3. CountsExact'
  <2> SUFFICES ASSUME NEW q \in Proxy
               PROVE ob_refcnt'[q] = pyrefs'[q] + leaked'[q] + Cardinality(EntriesOf(q)')
                                     + (IF gc_hold' = q THEN 1 ELSE 0)
    BY DEF CountsExact
  <2>1. EntriesOf(q)' = EntriesOf(q) /\ gc_hold' = gc_hold
    BY <1>1 DEF EntriesOf, gcVars
  <2>2. Cardinality(EntriesOf(q)) \in Nat BY EntriesFinite DEF EntriesOf
  <2>3. /\ pyrefs[q] \in Nat /\ leaked[q] \in Nat /\ ob_refcnt[q] \in Nat
        /\ leaked' = leaked
    BY <1>0, <1>1, BoundAssumption DEF TypeOK
  <2>4. IF q = b THEN ob_refcnt'[q] = ob_refcnt[q] + 1 /\ pyrefs'[q] = pyrefs[q] + 1
        ELSE ob_refcnt'[q] = ob_refcnt[q] /\ pyrefs'[q] = pyrefs[q]
    BY <1>0, <1>1 DEF TypeOK
  <2>5. ob_refcnt[q] = pyrefs[q] + leaked[q] + Cardinality(EntriesOf(q))
                       + (IF gc_hold = q THEN 1 ELSE 0)
    BY <1>0 DEF CountsExact
  <2> QED BY <2>1, <2>2, <2>3, <2>4, <2>5
<1>4. TypeOK'
  <2>1. pyrefs' \in [Proxy -> Nat]
    BY <1>0, <1>1, BoundAssumption DEF TypeOK
  <2>2. gen' \in [Proxy -> 0..OldestGen]
    BY <1>0, <1>1, BoundAssumption DEF TypeOK, GetOrCreateBase, Register
  <2>3. proxy_dict' \in [Chunk -> Proxy \cup {NULL}]
        /\ policies' \in [Chunk -> SUBSET {"manual", "gc"}]
    BY <1>0, <1>1 DEF TypeOK, GetOrCreateBase, Register
  <2> QED BY <1>0, <1>1, <2>1, <2>2, <2>3 DEF TypeOK, histVars, stackVars, storeVars,
          initVars, gcVars
<1>5. Building'
  BY <1>1 DEF Building, Idle, initVars
<1> QED BY <1>2, <1>3, <1>4, <1>5 DEF IInv

(* A new proxy that keeps the base alive is. *)
LEMMA InvReturnDerived ==
  ASSUME IInv, NEW c \in Chunk, NEW b \in Proxy, NEW d \in Proxy,
         ReturnDerived(c, b, d)
  PROVE  IInv'
<1> USE DistinctAssumption
<1>0. TypeOK /\ CountsExact /\ Shape /\ Building BY DEF IInv
<1>1. /\ Idle /\ GetOrCreateBase(c, b) /\ b # d /\ NoObject(d)
      /\ p_ptr' = [p_ptr EXCEPT ![b] = c, ![d] = c]
      /\ pointing_dict' = [pointing_dict EXCEPT ![d] = b]
      /\ ob_refcnt' = [ob_refcnt EXCEPT ![b] = @ + 1, ![d] = 1]
      /\ pyrefs' = [pyrefs EXCEPT ![d] = 1]
      /\ dict_gen' = IF dict_gen = Untracked THEN 0 ELSE dict_gen
      /\ UNCHANGED <<field, leaked, histVars, stackVars, storeVars, initVars, gcVars>>
  BY DEF ReturnDerived
<1>2. d \in Loc /\ d \notin Place BY DEF Loc, Place
<1>3. /\ ob_refcnt[d] = 0 /\ pyrefs[d] = 0 /\ leaked[d] = 0 /\ gc_hold # d
      /\ Cardinality(EntriesOf(d)) = 0 /\ pointing_dict[d] = NULL
  BY <1>1, Unborn
<1>4. Shape'
  <2>1. p_ptr' = [q \in Proxy |-> IF q \in {d} \cup {b} THEN c ELSE p_ptr[q]]
    BY <1>0, <1>1 DEF TypeOK
  <2>2. pointing_dict' = [l \in Loc |-> IF l \in {d} THEN b ELSE pointing_dict[l]]
    BY <1>0, <1>1, <1>2 DEF TypeOK
  <2>3. /\ ob_refcnt' \in [Proxy -> Nat]
        /\ \A q \in Proxy : IF q \in {d} \cup {b} THEN ob_refcnt'[q] > 0
                            ELSE ob_refcnt'[q] = ob_refcnt[q]
    BY <1>0, <1>1 DEF TypeOK
  <2>4. UNCHANGED <<stackVars, gcVars>> /\ {d} \in SUBSET Proxy
        /\ \A x \in {d} : NoObject(x) /\ x # b
    BY <1>1
  <2> QED BY <1>1, <2>1, <2>2, <2>3, <2>4, BaseShape DEF GetOrCreateBase, Register
<1>5. CountsExact'
  <2> SUFFICES ASSUME NEW q \in Proxy
               PROVE ob_refcnt'[q] = pyrefs'[q] + leaked'[q] + Cardinality(EntriesOf(q)')
                                     + (IF gc_hold' = q THEN 1 ELSE 0)
    BY DEF CountsExact
  <2>1. Cardinality(EntriesOf(q)') =
          IF q = b THEN Cardinality(EntriesOf(q)) + 1 ELSE Cardinality(EntriesOf(q))
    <3>1. EntriesOf(q)' = {k \in Loc : [pointing_dict EXCEPT ![d] = b][k] = q}
      BY <1>1 DEF EntriesOf
    <3>2. pointing_dict \in [Loc -> Proxy \cup {NULL}] /\ b # pointing_dict[d]
      BY <1>0, <1>3 DEF TypeOK
    <3>3. q # pointing_dict[d] BY <1>3
    <3> QED BY <3>1, <3>2, <3>3, <1>2, EntriesMoved DEF EntriesOf
  <2>2. Cardinality(EntriesOf(q)) \in Nat BY EntriesFinite DEF EntriesOf
  <2>3. /\ pyrefs[q] \in Nat /\ leaked[q] \in Nat /\ ob_refcnt[q] \in Nat
        /\ gc_hold' = gc_hold /\ leaked' = leaked
    BY <1>0, <1>1, BoundAssumption DEF TypeOK, gcVars
  <2>4. /\ ob_refcnt'[q] = IF q = d THEN 1
                           ELSE IF q = b THEN ob_refcnt[q] + 1 ELSE ob_refcnt[q]
        /\ pyrefs'[q] = IF q = d THEN 1 ELSE pyrefs[q]
    BY <1>0, <1>1 DEF TypeOK
  <2>5. ob_refcnt[q] = pyrefs[q] + leaked[q] + Cardinality(EntriesOf(q))
                       + (IF gc_hold = q THEN 1 ELSE 0)
    BY <1>0 DEF CountsExact
  <2>6. CASE q = d
    BY <2>6, <2>1, <2>3, <2>4, <1>1, <1>3
  <2>7. CASE q # d
    BY <2>7, <2>1, <2>2, <2>3, <2>4, <2>5
  <2> QED BY <2>6, <2>7
<1>6. TypeOK'
  <2>1. pyrefs' \in [Proxy -> Nat]
    BY <1>0, <1>1, BoundAssumption DEF TypeOK
  <2>2. gen' \in [Proxy -> 0..OldestGen]
    BY <1>0, <1>1, BoundAssumption DEF TypeOK, GetOrCreateBase, Register
  <2>3. proxy_dict' \in [Chunk -> Proxy \cup {NULL}]
        /\ policies' \in [Chunk -> SUBSET {"manual", "gc"}]
    BY <1>0, <1>1 DEF TypeOK, GetOrCreateBase, Register
  <2>4. dict_gen' \in Untracked..OldestGen
    BY <1>0, <1>1, BoundAssumption DEF TypeOK, Untracked
  <2>5. /\ p_ptr' \in [Proxy -> Chunk \cup {NULL}]
        /\ ob_refcnt' \in [Proxy -> Nat]
        /\ pointing_dict' \in [Loc -> Proxy \cup {NULL}]
    BY <1>0, <1>1, <1>2 DEF TypeOK
  <2> QED BY <1>0, <1>1, <2>1, <2>2, <2>3, <2>4, <2>5 DEF TypeOK, histVars, stackVars,
          storeVars, initVars, gcVars
<1>7. Building'
  BY <1>1 DEF Building, Idle, initVars
<1> QED BY <1>4, <1>5, <1>6, <1>7 DEF IInv

(* Initialisation beyond its stores. *)
LEMMA InvInitialise ==
  ASSUME IInv,
         \/ \E p \in Proxy : Reinit(p)
         \/ \E s \in Slot : InitZero(s)
         \/ AttributesFail \/ EndInit \/ InitFail
  PROVE  IInv'
<1> USE DistinctAssumption
<1>0. TypeOK /\ Building BY DEF IInv
<1>1. CASE \E p \in Proxy : Reinit(p)
  <2>1. PICK p \in Proxy : Reinit(p) BY <1>1
  <2>2. CountsExact' /\ Shape' /\ RefTypes'
    BY <2>1, StutterKeeps DEF Reinit, heapVars
  <2>3. TypeOK'
    BY <1>0, <2>1 DEF Reinit, Slots, TypeOK, heapVars, histVars, proxyVars, stackVars,
       storeVars, gcVars, genVars
  <2>4. Building' BY <2>1 DEF Reinit, Building
  <2> QED BY <2>2, <2>3, <2>4 DEF IInv
<1>2. CASE \E s \in Slot : InitZero(s)
  <2>1. PICK s \in Slot : InitZero(s) BY <1>2
  <2>2. CountsExact' /\ Shape' /\ RefTypes'
    BY <2>1, StutterKeeps DEF InitZero
  <2>3. TypeOK'
    BY <1>0, <2>1 DEF InitZero, TypeOK, histVars, proxyVars, stackVars, storeVars,
       gcVars, genVars
  <2>4. Building' BY <1>0, <2>1 DEF InitZero, Building, proxyVars
  <2> QED BY <2>2, <2>3, <2>4 DEF IInv
<1>3. CASE EndInit
  <2>1. CountsExact' /\ Shape' /\ RefTypes'
    BY <1>3, StutterKeeps DEF EndInit, heapVars
  <2>2. TypeOK'
    BY <1>0, <1>3 DEF EndInit, TypeOK, heapVars, histVars, proxyVars, stackVars,
       storeVars, gcVars, genVars
  <2>3. Building' BY <1>3 DEF EndInit, Building
  <2> QED BY <2>1, <2>2, <2>3 DEF IInv
<1>4. CASE InitFail
  <2>1. CountsExact' /\ Shape' /\ RefTypes' /\ pyrefs' \in [Proxy -> Nat]
    <3>1. CASE init_fresh
      <4>1. init_obj \in Proxy /\ frame = NULL
        BY <1>0, <1>4 DEF InitFail, Quiet, TypeOK
      <4>2. pyrefs[init_obj] > 0
        BY <1>0, <1>4, <3>1 DEF InitFail, Building
      <4>3. /\ DecRef(init_obj)
            /\ pyrefs' = [pyrefs EXCEPT ![init_obj] = @ - 1]
            /\ UNCHANGED <<policies, p_ptr, leaked, proxy_dict, pointing_dict, gc_set,
                           gc_hold>>
        BY <1>4, <3>1 DEF InitFail, heapVars, gcVars
      <4> QED BY <4>1, <4>2, <4>3, DropRef
    <3>2. CASE ~init_fresh
      BY <1>0, <1>4, <3>2, StutterKeeps DEF InitFail, proxyVars, heapVars, TypeOK
    <3> QED BY <3>1, <3>2
  <2>2. TypeOK'
    BY <1>0, <1>4, <2>1 DEF InitFail, TypeOK, RefTypes, heapVars, histVars, storeVars,
       gcVars, genVars
  <2>3. Building' BY <1>4 DEF InitFail, Building
  <2> QED BY <2>1, <2>2, <2>3 DEF IInv
<1>5. CASE AttributesFail
  <2>1. CountsExact' /\ Shape' /\ RefTypes'
    BY <1>5, StutterKeeps DEF AttributesFail, heapVars
  <2>2. TypeOK'
    BY <1>0, <1>5 DEF AttributesFail, Slots, TypeOK, heapVars, histVars, proxyVars,
       stackVars, storeVars, gcVars, genVars
  <2>3. Building' BY <1>0, <1>5 DEF AttributesFail, Building, proxyVars
  <2> QED BY <2>1, <2>2, <2>3 DEF IInv
<1> QED BY <1>1, <1>2, <1>3, <1>4, <1>5

(* Python code copies and drops references. *)
LEMMA InvPyRefs ==
  ASSUME IInv, NEW p \in Proxy, PyIncref(p) \/ PyDecref(p)
  PROVE  IInv'
<1> USE DistinctAssumption
<1>0. TypeOK /\ Building BY DEF IInv
<1>1. Idle /\ frame = NULL /\ pyrefs[p] > 0
  BY DEF PyIncref, PyDecref, Idle, Quiet, Holds
<1>2. CountsExact' /\ Shape' /\ RefTypes' /\ pyrefs' \in [Proxy -> Nat]
  <2>1. CASE PyIncref(p)
    <3>1. ob_refcnt[p] > 0 BY <1>1, Referenced
    <3>2. CountsExact' /\ Shape' /\ RefTypes'
      BY <1>1, <2>1, <3>1, TakeRef DEF PyIncref, heapVars, gcVars
    <3>3. pyrefs' \in [Proxy -> Nat]
      BY <1>0, <2>1, BoundAssumption DEF PyIncref, TypeOK
    <3> QED BY <3>2, <3>3
  <2>2. CASE PyDecref(p)
    BY <1>1, <2>2, DropRef DEF PyDecref, heapVars, gcVars
  <2> QED BY <2>1, <2>2
<1>3. UNCHANGED <<heapVars, histVars, p_ptr, leaked, proxy_dict, storeVars, initVars,
                  gcVars, genVars>>
  BY DEF PyIncref, PyDecref
<1>4. TypeOK'
  BY <1>0, <1>2, <1>3 DEF TypeOK, RefTypes, heapVars, histVars, storeVars, initVars,
     gcVars, genVars
<1>5. Building'
  BY <1>1, <1>3 DEF Building, Idle, initVars
<1> QED BY <1>2, <1>4, <1>5 DEF IInv

(* A reference to an object Python code holds is taken and never given back. *)
LEMMA InvLeaks ==
  ASSUME IInv, NEW p \in Proxy, ReadAttribute(p) \/ CallbackLeaks(p)
  PROVE  IInv'
<1>0. TypeOK /\ Building BY DEF IInv
<1>1. /\ frame = NULL /\ pyrefs[p] > 0
      /\ ob_refcnt' = [ob_refcnt EXCEPT ![p] = @ + 1]
      /\ leaked' = [leaked EXCEPT ![p] = @ + 1]
      /\ UNCHANGED <<heapVars, histVars, p_ptr, pyrefs, proxy_dict, pointing_dict,
                     stackVars, storeVars, initVars, gcVars, genVars>>
  BY DEF ReadAttribute, CallbackLeaks, Idle, Quiet, Holds
<1>2. ob_refcnt[p] > 0 BY <1>1, Referenced
<1>3. CountsExact' /\ Shape' /\ RefTypes'
  BY <1>1, <1>2, TakeRef DEF heapVars, gcVars
<1>4. TypeOK'
  BY <1>0, <1>1, <1>3 DEF TypeOK, RefTypes, heapVars, histVars, storeVars, initVars,
     gcVars, genVars
<1>5. Building' BY <1>0, <1>1 DEF Building, initVars
<1> QED BY <1>3, <1>4, <1>5 DEF IInv

(* C code allocates and frees. *)
LEMMA InvCHeap ==
  ASSUME IInv, NEW c \in Chunk,
         (\E v \in Var : CMalloc(c, v)) \/ CFree(c) \/ CFreeEnd
  PROVE  IInv'
<1> USE DistinctAssumption
<1>0. TypeOK /\ CountsExact /\ Shape /\ Building BY DEF IInv
<1>1. CASE CFreeEnd
  <2>1. CountsExact' /\ Shape' /\ RefTypes'
    BY <1>1, StutterKeeps DEF CFreeEnd, heapVars
  <2>2. TypeOK'
    BY <1>0, <1>1 DEF CFreeEnd, TypeOK, heapVars, histVars, proxyVars, stackVars,
       initVars, gcVars, genVars
  <2>3. Building' BY <1>0, <1>1 DEF CFreeEnd, Building, proxyVars, initVars
  <2> QED BY <2>1, <2>2, <2>3 DEF IInv
<1>2. CASE (\E v \in Var : CMalloc(c, v)) \/ CFree(c)
  <2>1. /\ Idle /\ frame = NULL
        /\ UNCHANGED <<proxyVars, proxy_dict, pointing_dict, stackVars, initVars, gcVars,
                       genVars>>
    BY <1>2 DEF CMalloc, CFree, Idle, Quiet
  <2>2. /\ \A x \in Chunk : GcManaged(x)' <=> GcManaged(x)
        /\ policies' \in [Chunk -> SUBSET {"manual", "gc"}]
    <3>1. CASE \E v \in Var : CMalloc(c, v)
      BY <1>0, <3>1 DEF CMalloc, Live, GcManaged, TypeOK
    <3>2. CASE CFree(c)
      BY <1>0, <3>2 DEF CFree, GcManaged, TypeOK
    <3> QED BY <1>2, <3>1, <3>2
  <2>3. \A p \in Proxy : pc[p] = "idle" BY <2>1, QuietIdle
  <2>4. CountsExact'
    BY <1>0, <2>1 DEF CountsExact, EntriesOf, proxyVars, gcVars
  <2>5. Objects' /\ Frames' /\ Registry' /\ Sweeping'
    BY <1>0, <2>1, <2>3 DEF Shape, Objects, Frames, Registry, Sweeping, proxyVars,
       stackVars
  <2>6. PolicyHasProxy'
    BY <1>0, <2>1, <2>2 DEF Shape, PolicyHasProxy, proxyVars, stackVars
  <2>7. EntriesBase' /\ Anchored' /\ Collecting'
    BY <1>0, <2>1 DEF Shape, EntriesBase, Anchored, Collecting, IsBase, NoObject,
       proxyVars, stackVars, gcVars
  <2>8. Stacked'
    BY <1>0, <2>1, StackSame DEF Shape, stackVars
  <2>9. TypeOK'
    <3>1. CASE \E v \in Var : CMalloc(c, v)
      <4>1. PICK v \in Var : CMalloc(c, v) BY <3>1
      <4>2. field' \in [Place -> Chunk \cup {NULL}]
        BY <1>0, <4>1 DEF CMalloc, TypeOK
      <4> QED BY <1>0, <2>1, <2>2, <4>1, <4>2 DEF CMalloc, TypeOK, histVars, proxyVars,
              stackVars, storeVars, initVars, gcVars, genVars
    <3>2. CASE CFree(c)
      BY <1>0, <2>1, <2>2, <3>2 DEF CFree, Forget, TypeOK, histVars, proxyVars, stackVars,
         initVars, gcVars, genVars
    <3> QED BY <1>2, <3>1, <3>2
  <2>10. Building' BY <2>1 DEF Building, Idle, initVars
  <2> QED BY <2>4, <2>5, <2>6, <2>7, <2>8, <2>9, <2>10 DEF IInv, Shape
<1> QED BY <1>1, <1>2

(* A collection starts: it condemns base proxies only. *)
LEMMA InvCollect ==
  ASSUME IInv, NEW g \in 0..OldestGen, Collect(g)
  PROVE  IInv'
<1> USE DistinctAssumption
<1>0. TypeOK /\ CountsExact /\ Shape /\ Building BY DEF IInv
<1>1. /\ Idle /\ frame = NULL /\ gc_set' = Garbage(g)
      /\ UNCHANGED <<heapVars, forgotten, proxyVars, proxy_dict, pointing_dict,
                     stackVars, storeVars, initVars, gc_hold>>
  BY DEF Collect, Idle, Quiet
<1>2. \A p \in Garbage(g) : p \in Proxy /\ IsBase(p)
  BY DEF Garbage, ClosedGarbage
<1>3. \A p \in Proxy : pc[p] = "idle" BY <1>1, QuietIdle
<1>4. CountsExact'
  BY <1>0, <1>1 DEF CountsExact, EntriesOf, proxyVars
<1>5. Collecting'
  BY <1>1, <1>2, <1>3 DEF Collecting, IsBase, NoObject, proxyVars, stackVars
<1>6. Objects' /\ Frames' /\ Registry' /\ Sweeping' /\ PolicyHasProxy'
      /\ EntriesBase' /\ Anchored'
  BY <1>0, <1>1, <1>3 DEF Shape, Objects, Frames, Registry, Sweeping, PolicyHasProxy,
     EntriesBase, Anchored, IsBase, NoObject, GcManaged, heapVars, proxyVars, stackVars
<1>7. Stacked'
  BY <1>0, <1>1, StackSame DEF Shape, stackVars
<1>8. TypeOK'
  <2>1. Older(g) \in 0..OldestGen
    BY BoundAssumption DEF Older
  <2>2. gen' \in [Proxy -> 0..OldestGen]
    BY <1>0, <2>1 DEF Collect, TypeOK
  <2>3. dict_gen' \in Untracked..OldestGen
    BY <1>0, <2>1, BoundAssumption DEF Collect, TypeOK, Untracked
  <2>4. condemned' \subseteq Chunk
    <3>1. \A p \in Garbage(g) : p_ptr[p] \in Chunk
      BY <1>0, <1>2 DEF TypeOK, IsBase, NoObject
    <3> QED BY <1>0, <3>1 DEF Collect, TypeOK
  <2> QED BY <1>0, <1>1, <1>2, <2>2, <2>3, <2>4 DEF TypeOK, heapVars, proxyVars,
          stackVars, storeVars, initVars
<1>9. Building' BY <1>1 DEF Building, Idle, initVars
<1> QED BY <1>4, <1>5, <1>6, <1>7, <1>8, <1>9 DEF IInv, Shape

(* The collector clears what it condemned. *)
LEMMA InvClear ==
  ASSUME IInv,
         \/ \E p \in Proxy : ClearStart(p)
         \/ \E s \in Slot : ClearSlot(s)
         \/ ClearEnd
  PROVE  IInv'
<1> USE DistinctAssumption
<1>0. TypeOK /\ Shape /\ Building BY DEF IInv
<1>1. frame = NULL
  BY DEF ClearStart, ClearSlot, ClearEnd, Quiet
<1>2. UNCHANGED <<heapVars, condemned, p_ptr, pyrefs, leaked, proxy_dict, storeVars, initVars,
                  genVars>>
  BY DEF ClearStart, ClearSlot, ClearEnd, histVars
<1>3. Building' BY <1>0, <1>2 DEF Building, initVars
<1>4. CASE \E p \in Proxy : ClearStart(p)
  <2>1. PICK p \in Proxy : ClearStart(p) BY <1>4
  <2>2. ob_refcnt[p] > 0
    BY <1>0, <1>1, <2>1, QuietIdle DEF ClearStart, Shape, Collecting, Objects, IsBase,
       NoObject
  <2>3. CountsExact' /\ Shape' /\ RefTypes'
    BY <1>1, <1>2, <2>1, <2>2, TakeRef DEF ClearStart, heapVars
  <2>4. TypeOK'
    BY <1>0, <1>2, <2>1, <2>3 DEF ClearStart, TypeOK, RefTypes, heapVars, histVars,
       storeVars, initVars, genVars
  <2> QED BY <1>3, <2>3, <2>4 DEF IInv
<1>5. CASE \E s \in Slot : ClearSlot(s)
  <2>1. PICK s \in Slot : ClearSlot(s) BY <1>5
  <2>2. s \in Loc /\ s \notin Proxy BY DEF Loc, Place
  <2>3. CountsExact' /\ Shape' /\ RefTypes'
    BY <1>1, <1>2, <2>1, <2>2, DelRefKeeps DEF ClearSlot, heapVars
  <2>4. TypeOK'
    BY <1>0, <1>2, <2>1, <2>3 DEF ClearSlot, TypeOK, RefTypes, heapVars, storeVars,
       initVars, gcVars, genVars
  <2> QED BY <1>3, <2>3, <2>4 DEF IInv
<1>6. CASE ClearEnd
  <2>1. gc_hold \in Proxy
    BY <1>0, <1>6 DEF ClearEnd, TypeOK
  <2>2. CountsExact' /\ Shape' /\ RefTypes'
    <3>1. /\ DecRef(gc_hold) /\ gc_hold' = NULL /\ gc_set' \subseteq gc_set
          /\ UNCHANGED <<policies, p_ptr, pyrefs, leaked, proxy_dict, pointing_dict>>
      BY <1>6 DEF ClearEnd, heapVars
    <3> QED BY <1>1, <2>1, <3>1, DropRef
  <2>3. TypeOK'
    BY <1>0, <1>2, <1>6, <2>2 DEF ClearEnd, TypeOK, RefTypes, heapVars, histVars,
       storeVars, initVars, genVars
  <2> QED BY <1>3, <2>2, <2>3 DEF IInv
<1> QED BY <1>4, <1>5, <1>6

LEMMA InvNext == IInv /\ [Next]_vars => IInv'
<1> SUFFICES ASSUME IInv, [Next]_vars PROVE IInv'
  OBVIOUS
<1>1. CASE Runtime
  <2>1. CASE Dealloc
    BY <2>1, InvDealloc DEF Dealloc
  <2>2. CASE CFreeEnd
    <3>1. freeing \in Chunk BY <2>2 DEF CFreeEnd, IInv, TypeOK
    <3> QED BY <2>2, <3>1, InvCHeap
  <2>3. CASE \E s \in Slot, val \in Chunk \cup {NULL} : InitStore(s, val)
    BY <2>3, InvStores DEF Place
  <2>4. CASE FinishStore \/ CFreeSweep
    BY <2>4, InvFinishStore, InvCFreeSweep
  <2>5. CASE \/ \E p \in Proxy : ClearStart(p)
             \/ \E s \in Slot : ClearSlot(s)
             \/ ClearEnd
    BY <2>5, InvClear
  <2>6. CASE (\E s \in Slot : InitZero(s)) \/ AttributesFail \/ EndInit \/ InitFail
    BY <2>6, InvInitialise
  <2>7. CASE \E p \in Proxy : ReadAttribute(p)
    BY <2>7, InvLeaks
  <2> QED BY <1>1, <2>1, <2>2, <2>3, <2>4, <2>5, <2>6, <2>7 DEF Runtime
<1>2. CASE PythonStep
  <2>1. Slot \subseteq Place BY DEF Place
  <2> QED BY <1>2, <2>1, InvConstruct, InvInitialise, InvStores, InvReturnBase,
             InvReturnDerived, InvPyRefs, InvLeaks
          DEF PythonStep
<1>3. CASE CStep
  BY <1>3, InvCHeap, InvStores DEF CStep
<1>4. CASE \E g \in 0..OldestGen : Collect(g)
  BY <1>4, InvCollect
<1>5. CASE UNCHANGED vars
  <2>1. UNCHANGED <<heapVars, histVars, proxyVars, proxy_dict, pointing_dict, stackVars,
                    storeVars, initVars, gcVars, genVars>>
    BY <1>5 DEF vars
  <2>2. CountsExact' /\ Shape' /\ RefTypes'
    BY <2>1, StutterKeeps DEF heapVars
  <2>3. TypeOK'
    BY <2>1 DEF IInv, TypeOK, heapVars, histVars, proxyVars, stackVars, storeVars,
       initVars, gcVars, genVars
  <2>4. Building' BY <2>1 DEF IInv, Building, proxyVars, initVars
  <2> QED BY <2>2, <2>3, <2>4 DEF IInv
<1> QED BY <1>1, <1>2, <1>3, <1>4, <1>5 DEF Next

LEMMA Invariant == Spec => []IInv
<1>1. Init => IInv BY InvInit
<1>2. IInv /\ [Next]_vars => IInv' BY InvNext
<1> QED BY <1>1, <1>2, PTL DEF Spec

-----------------------------------------------------------------------------
(* The results.                                                            *)

(* Every variable keeps its type; in particular no reference counter of    *)
(* a proxy ever goes below zero (Py_DECREF on a dead object), whatever     *)
(* cascades of deallocations, stores and collections interleave.           *)
THEOREM TypeCorrect == Spec => []TypeOK
<1>1. IInv => TypeOK BY DEF IInv
<1> QED BY <1>1, Invariant, PTL

(* Reference counts match the references that exist and the two kinds that *)
(* are leaked: proxy_addref and proxy_delref, the macros of proxy.c and    *)
(* the fallback of PyDict_SetItem over an existing entry balance, and only *)
(* attributes and callbacks (composite_proxy.c:108, function_proxy.c:373)  *)
(* keep references for good.                                               *)
THEOREM CountsAlwaysExact == Spec => []CountsExact
<1>1. IInv => CountsExact BY DEF IInv
<1> QED BY <1>1, Invariant, PTL

(* A chunk has the gc policy exactly while a usable base proxy is          *)
(* registered for it: Proxy_Register, Proxy_Unregister and free keep the   *)
(* registry and liballocs in step, however they interleave.                *)
THEOREM PolicyAlwaysHasProxy == Spec => []PolicyHasProxy
<1>1. IInv => PolicyHasProxy BY DEF IInv, Shape
<1> QED BY <1>1, Invariant, PTL

(* What the counters say of entries and of Python's references. *)
LEMMA EntriesRegistered == IInv => EntriesSound
<1> SUFFICES ASSUME IInv, NEW l \in Loc, pointing_dict[l] # NULL
             PROVE  /\ pc[pointing_dict[l]] = "idle"
                    /\ IsBase(pointing_dict[l])
                    /\ GcManaged(p_ptr[pointing_dict[l]])
  BY DEF EntriesSound
<1> DEFINE q == pointing_dict[l]
<1>1. q \in Proxy BY DEF IInv, TypeOK
<1>2. pc[q] = "idle" /\ p_ptr[q] # NULL BY <1>1, Referenced
<1>3. IsBase(q) BY DEF IInv, Shape, EntriesBase
<1>4. p_ptr[q] \in Chunk BY <1>1, <1>2 DEF IInv, TypeOK
<1>5. q # NULL BY <1>1, DistinctAssumption
<1>6. GcManaged(p_ptr[q])
  BY <1>2, <1>3, <1>4, <1>5 DEF IsBase, IInv, Shape, PolicyHasProxy
<1> QED BY <1>2, <1>3, <1>6

LEMMA HeldRegistered ==
  ASSUME IInv, NEW p \in Proxy, Holds(p)
  PROVE  p_ptr[p] \in Chunk /\ GcManaged(p_ptr[p]) /\ InUse(p_ptr[p])
<1> USE DistinctAssumption
<1> DEFINE c == p_ptr[p]
<1>1. pc[p] = "idle" /\ c \in Chunk
  BY Referenced DEF Holds, IInv, TypeOK
<1>2. CASE IsBase(p)
  BY <1>1, <1>2 DEF IsBase, IInv, Shape, PolicyHasProxy, InUse
<1>3. CASE ~IsBase(p)
  <2>1. /\ pointing_dict[p] # NULL /\ p_ptr[pointing_dict[p]] = c
        /\ p \in Loc /\ pointing_dict[p] \in Proxy
    BY <1>1, <1>3 DEF NoObject, IInv, TypeOK, Shape, Anchored, Loc
  <2>2. pc[pointing_dict[p]] = "idle" /\ IsBase(pointing_dict[p])
    BY <2>1, Referenced DEF IInv, Shape, EntriesBase
  <2> QED BY <1>1, <2>1, <2>2 DEF IsBase, IInv, Shape, PolicyHasProxy, InUse
<1> QED BY <1>2, <1>3

(* An entry of proxy_pointing_addr_dict names a live, registered base      *)
(* proxy whose chunk is under the gc policy.                               *)
THEOREM EntriesAlwaysSound == Spec => []EntriesSound
BY EntriesRegistered, Invariant, PTL

(* Memory Python code holds a proxy to, base or derived, is never freed:   *)
(* neither by C's free, nor by the end of other proxies, nor by the        *)
(* collector.                                                              *)
THEOREM HeldMemoryAlwaysAlive == Spec => []HeldMemoryAlive
<1>1. IInv => HeldMemoryAlive
  BY HeldRegistered, DistinctAssumption DEF HeldMemoryAlive
<1> QED BY <1>1, Invariant, PTL

-----------------------------------------------------------------------------
(* 2. ProxyLifetime implements ManagedHeap.                                *)
AbstractHeap == <<AliveChunks, OwnedChunks, HeldChunks, RecordedChunks>>

-----------------------------------------------------------------------------
(* What each mapped variable depends on.                                   *)

(* The chunk an entry with that value records. *)
RecordOf(q) == IF q = NULL THEN NULL ELSE p_ptr[q]

(* Records last while the proxies with entries keep pointing where they do. *)
LEMMA RecordedSame ==
  ASSUME IInv,
         \A x \in Place : pointing_dict'[x] = pointing_dict[x],
         \A p \in Proxy : (\E x \in Place : pointing_dict[x] = p) => p_ptr'[p] = p_ptr[p]
  PROVE  UNCHANGED RecordedChunks
<1>1. \A x \in Place : pointing_dict[x] \in Proxy \cup {NULL}
  BY DEF IInv, TypeOK, Loc
<1>2. \A x \in Place : RecordOf(pointing_dict[x])' = RecordOf(pointing_dict[x])
  BY <1>1 DEF RecordOf
<1> QED BY <1>2 DEF RecordOf, RecordedChunks

(* What Python holds is the same while it holds the same proxies.          *)
LEMMA HeldSame ==
  ASSUME \A p \in Proxy : Keeps(p)' <=> Keeps(p),
         \A p \in Proxy : Keeps(p) => p_ptr'[p] = p_ptr[p]
  PROVE  UNCHANGED HeldChunks
BY DEF HeldChunks

LEMMA PoliciesSame ==
  ASSUME UNCHANGED policies PROVE UNCHANGED <<AliveChunks, OwnedChunks>>
BY DEF AliveChunks, OwnedChunks, Live

(* Attaching the gc policy to memory that is alive changes neither.        *)
LEMMA AttachSame ==
  ASSUME TypeOK, NEW c \in Chunk, Live(c),
         policies' = [policies EXCEPT ![c] = @ \cup {"gc"}]
  PROVE  UNCHANGED <<AliveChunks, OwnedChunks>>
<1>1. \A k \in Chunk : (Live(k)' <=> Live(k))
                       /\ ("manual" \in policies'[k] <=> "manual" \in policies[k])
  BY DEF TypeOK, Live
<1> QED BY <1>1 DEF AliveChunks, OwnedChunks

(* A step that changes no policy, record, hold or place pointed to.        *)
LEMMA Silent ==
  ASSUME IInv, UNCHANGED <<policies, p_ptr, pyrefs, leaked>>,
         \A x \in Place : pointing_dict'[x] = pointing_dict[x]
  PROVE  UNCHANGED AbstractHeap
<1>1. UNCHANGED RecordedChunks BY RecordedSame
<1>2. UNCHANGED HeldChunks BY HeldSame DEF Keeps, Holds
<1> QED BY <1>1, <1>2, PoliciesSame DEF AbstractHeap

-----------------------------------------------------------------------------
(* Memory that is claimed has a base proxy that is in use: Python holds    *)
(* that proxy or one that keeps it alive, or an entry names it.            *)
LEMMA Claimed ==
  ASSUME IInv, NEW c \in Chunk,
         c \in HeldChunks \/ \E x \in Place : RecordedChunks[x] = c
  PROVE  /\ proxy_dict[c] # NULL /\ pc[proxy_dict[c]] = "idle"
         /\ GcManaged(c)
<1> USE DistinctAssumption
<1>0. TypeOK /\ Shape BY DEF IInv
<1>1. SUFFICES \E b \in Proxy : pc[b] = "idle" /\ p_ptr[b] = c /\ IsBase(b)
  <2>1. PICK b \in Proxy : pc[b] = "idle" /\ p_ptr[b] = c /\ IsBase(b)
    BY <1>1
  <2>2. proxy_dict[c] = b /\ b # NULL BY <2>1 DEF IsBase
  <2> QED BY <1>0, <2>1, <2>2 DEF Shape, PolicyHasProxy
<1>2. ASSUME NEW l \in Loc, NEW b \in Proxy, pointing_dict[l] = b, p_ptr[b] = c
      PROVE  pc[b] = "idle" /\ p_ptr[b] = c /\ IsBase(b)
  <2>1. pc[b] = "idle" BY <1>2, Referenced
  <2>2. b # NULL OBVIOUS
  <2> QED BY <1>0, <1>2, <2>1, <2>2 DEF Shape, EntriesBase
<1>3. CASE c \in HeldChunks
  <2>1. PICK p \in Proxy : (pyrefs[p] > 0 \/ leaked[p] > 0) /\ p_ptr[p] = c
    BY <1>3 DEF HeldChunks, Keeps, Holds
  <2>2. pc[p] = "idle" /\ ~NoObject(p) BY <2>1, Referenced DEF NoObject
  <2>3. CASE IsBase(p) BY <2>1, <2>2, <2>3
  <2>4. CASE ~IsBase(p)
    <3>1. pointing_dict[p] # NULL /\ p_ptr[pointing_dict[p]] = c /\ p \in Loc
      BY <1>0, <2>1, <2>2, <2>4 DEF Shape, Anchored, Loc
    <3>2. pointing_dict[p] \in Proxy BY <1>0, <3>1 DEF TypeOK
    <3> QED BY <1>2, <3>1, <3>2
  <2> QED BY <2>3, <2>4
<1>4. CASE \E x \in Place : RecordedChunks[x] = c
  <2>1. PICK x \in Place : RecordOf(pointing_dict[x]) = c
    BY <1>4 DEF RecordOf, RecordedChunks
  <2>2. x \in Loc /\ pointing_dict[x] \in Proxy \cup {NULL}
    BY <1>0 DEF Loc, TypeOK
  <2>3. pointing_dict[x] \in Proxy /\ p_ptr[pointing_dict[x]] = c
    BY <2>1, <2>2 DEF RecordOf
  <2> QED BY <1>2, <2>2, <2>3
<1> QED BY <1>3, <1>4

-----------------------------------------------------------------------------
(* One lemma for each way a step can change the claims.                    *)

(* proxy_delref removes the record of a place, if there is one.            *)
LEMMA DelRefErases ==
  ASSUME IInv, NEW x \in Place, DelRef(x), UNCHANGED <<policies, p_ptr, pyrefs, leaked>>
  PROVE  Heap!Erase(x) \/ UNCHANGED AbstractHeap
<1>0. TypeOK BY DEF IInv
<1>1. CASE UNCHANGED pointing_dict BY <1>1, Silent
<1>2. CASE pointing_dict' = [pointing_dict EXCEPT ![x] = NULL]
  <2>1. \A y \in Place : pointing_dict'[y] = IF y = x THEN NULL ELSE pointing_dict[y]
    BY <1>0, <1>2 DEF TypeOK, Loc
  <2>2. \A y \in Place : RecordOf(pointing_dict[y])'
                         = IF y = x THEN NULL ELSE RecordOf(pointing_dict[y])
    BY <2>1 DEF RecordOf
  <2>3. RecordedChunks' = [RecordedChunks EXCEPT ![x] = NULL]
    BY <2>2 DEF RecordOf, RecordedChunks
  <2>4. UNCHANGED HeldChunks BY HeldSame DEF Keeps, Holds
  <2> QED BY <2>3, <2>4, PoliciesSame DEF Heap!Erase
<1> QED BY <1>1, <1>2 DEF DelRef

LEMMA BeginStoreErases ==
  ASSUME IInv, NEW x \in Place, NEW val, BeginStore(x, val),
         UNCHANGED <<policies, p_ptr, pyrefs, leaked>>
  PROVE  Heap!Erase(x) \/ UNCHANGED AbstractHeap
BY DelRefErases, Silent DEF BeginStore

LEMMA SweepErases ==
  ASSUME IInv, NEW s \in Slot, SweepSlot(s)
  PROVE  Heap!Erase(s) \/ UNCHANGED AbstractHeap
<1>1. s \in Place BY DEF Place
<1>2. UNCHANGED <<policies, p_ptr, pyrefs, leaked>> BY DEF SweepSlot
<1> QED BY <1>1, <1>2, DelRefErases, Silent DEF SweepSlot

(* The second half of a store records the new pointer.                     *)
LEMMA FinishStoreRecords ==
  ASSUME IInv, FinishStore
  PROVE  \/ /\ Heap!Record(notify_dest, notify_val)
            /\ notify_dest \in Place /\ notify_val \in Chunk
         \/ UNCHANGED AbstractHeap
<1> USE DistinctAssumption
<1>0. TypeOK /\ Shape BY DEF IInv
<1>1. UNCHANGED <<policies, p_ptr, pyrefs, leaked>> BY DEF FinishStore
<1>2. CASE ~GcManaged(notify_val) BY <1>1, <1>2, Silent DEF FinishStore
<1>3. CASE GcManaged(notify_val)
  <2> DEFINE x == notify_dest
             c == notify_val
             b == proxy_dict[c]
  <2>1. x \in Place /\ x \in Loc /\ c \in Chunk /\ Live(c)
    BY <1>0, <1>3 DEF TypeOK, FinishStore, GcManaged, Live, Loc
  <2>2. b # NULL /\ p_ptr[b] = c
    BY <1>0, <1>3, <2>1 DEF Shape, PolicyHasProxy
  <2>3. pointing_dict' = [pointing_dict EXCEPT ![x] = b]
    BY <1>3 DEF FinishStore, AddRefTo
  <2>4. \A y \in Place : pointing_dict'[y] = IF y = x THEN b ELSE pointing_dict[y]
    BY <1>0, <2>3 DEF TypeOK, Loc
  <2>5. \A y \in Place : RecordOf(pointing_dict[y])'
                         = IF y = x THEN c ELSE RecordOf(pointing_dict[y])
    BY <1>1, <2>2, <2>4 DEF RecordOf
  <2>6. RecordedChunks' = [RecordedChunks EXCEPT ![x] = c]
    BY <2>5 DEF RecordOf, RecordedChunks
  <2>7. UNCHANGED HeldChunks BY <1>1, HeldSame DEF Keeps, Holds
  <2>8. c \in AliveChunks BY <2>1 DEF AliveChunks
  <2> QED BY <1>1, <2>1, <2>6, <2>7, <2>8, PoliciesSame DEF Heap!Record
<1> QED BY <1>2, <1>3

(* Chunks come with the claim of whoever allocates them.                   *)
LEMMA ConstructAllocates ==
  ASSUME IInv, NEW p \in Proxy, NEW c \in Chunk, Construct(p, c)
  PROVE  Heap!Allocate(c)
<1>0. TypeOK BY DEF IInv
<1>1. /\ NoObject(p) /\ ~Live(c) /\ UNCHANGED <<leaked, pointing_dict>>
      /\ policies' = [policies EXCEPT ![c] = @ \cup {"gc"}]
      /\ p_ptr' = [p_ptr EXCEPT ![p] = c]
      /\ pyrefs' = [pyrefs EXCEPT ![p] = 1]
  BY DEF Construct, Register
<1>2. /\ pyrefs[p] = 0 /\ leaked[p] = 0
      /\ \A l \in Loc : pointing_dict[l] # p
  BY <1>1, Unborn
<1>3. UNCHANGED RecordedChunks
  <2>1. \A q \in Proxy : q # p => p_ptr'[q] = p_ptr[q]
    BY <1>0, <1>1 DEF TypeOK
  <2> QED BY <1>1, <1>2, <2>1, RecordedSame DEF Loc
<1>4. HeldChunks' = HeldChunks \cup {c}
  <2>1. \A q \in Proxy : /\ q # p => (Keeps(q)' <=> Keeps(q)) /\ p_ptr'[q] = p_ptr[q]
                         /\ q = p => ~Keeps(q) /\ Keeps(q)' /\ p_ptr'[q] = c
    BY <1>0, <1>1, <1>2 DEF TypeOK, Keeps, Holds
  <2> QED BY <2>1 DEF HeldChunks
<1>5. /\ c \notin AliveChunks
      /\ AliveChunks' = AliveChunks \cup {c} /\ UNCHANGED OwnedChunks
  BY <1>0, <1>1 DEF TypeOK, Live, AliveChunks, OwnedChunks
<1> QED BY <1>3, <1>4, <1>5 DEF Heap!Allocate

LEMMA MallocAllocates ==
  ASSUME IInv, NEW c \in Chunk, NEW v \in Var, CMalloc(c, v)
  PROVE  Heap!Allocate(c)
<1>0. TypeOK BY DEF IInv
<1>1. /\ ~Live(c) /\ UNCHANGED <<p_ptr, pyrefs, leaked, pointing_dict>>
      /\ policies' = [policies EXCEPT ![c] = {"manual"}]
  BY DEF CMalloc, proxyVars
<1>2. UNCHANGED RecordedChunks BY <1>1, RecordedSame
<1>3. UNCHANGED HeldChunks BY <1>1, HeldSame DEF Keeps, Holds
<1>4. /\ c \notin AliveChunks
      /\ AliveChunks' = AliveChunks \cup {c} /\ OwnedChunks' = OwnedChunks \cup {c}
  BY <1>0, <1>1 DEF TypeOK, Live, AliveChunks, OwnedChunks
<1> QED BY <1>2, <1>3, <1>4 DEF Heap!Allocate

(* ft_getfrom takes hold of memory that is alive, through its base proxy b *)
(* or through a new proxy d that b stands behind.                          *)
LEMMA Unchanged ==
  ASSUME IInv, NEW c \in Chunk, NEW b \in Proxy, GetOrCreateBase(c, b), Live(c)
  PROVE  /\ UNCHANGED <<AliveChunks, OwnedChunks>>
         /\ (\E l \in Loc : pointing_dict[l] = b) \/ Keeps(b) => p_ptr[b] = c
<1> USE DistinctAssumption
<1>0. TypeOK /\ Shape BY DEF IInv
<1>1. CASE proxy_dict[c] = b /\ UNCHANGED policies
  BY <1>0, <1>1, PoliciesSame DEF Shape, Registry
<1>2. CASE NoObject(b) /\ Register(b, c)
  <2>1. UNCHANGED <<AliveChunks, OwnedChunks>>
    BY <1>0, <1>2, AttachSame DEF Register
  <2>2. /\ pyrefs[b] = 0 /\ leaked[b] = 0
        /\ \A l \in Loc : pointing_dict[l] # b
    BY <1>2, Unborn
  <2> QED BY <2>1, <2>2 DEF Keeps, Holds
<1> QED BY <1>1, <1>2 DEF GetOrCreateBase

LEMMA ReturnBaseHolds ==
  ASSUME IInv, NEW c \in Chunk, NEW b \in Proxy, ReturnBase(c, b)
  PROVE  Heap!Hold(c)
<1>0. TypeOK BY DEF IInv
<1>1. /\ Live(c) /\ GetOrCreateBase(c, b) /\ UNCHANGED <<leaked, pointing_dict>>
      /\ p_ptr' = [p_ptr EXCEPT ![b] = c]
      /\ pyrefs' = [pyrefs EXCEPT ![b] = @ + 1]
  BY DEF ReturnBase, Decodable
<1>2. /\ UNCHANGED <<AliveChunks, OwnedChunks>>
      /\ (\E l \in Loc : pointing_dict[l] = b) \/ Keeps(b) => p_ptr[b] = c
  BY <1>1, Unchanged
<1>3. \A q \in Proxy : IF q = b THEN p_ptr'[q] = c /\ Keeps(q)'
                       ELSE p_ptr'[q] = p_ptr[q] /\ (Keeps(q)' <=> Keeps(q))
  BY <1>0, <1>1, BoundAssumption DEF TypeOK, Keeps, Holds
<1>4. UNCHANGED RecordedChunks BY <1>1, <1>2, <1>3, RecordedSame DEF Loc
<1>5. HeldChunks' = HeldChunks \cup {c} BY <1>2, <1>3 DEF HeldChunks
<1>6. c \in AliveChunks BY <1>1 DEF AliveChunks
<1> QED BY <1>2, <1>4, <1>5, <1>6 DEF Heap!Hold

LEMMA ReturnDerivedHolds ==
  ASSUME IInv, NEW c \in Chunk, NEW b \in Proxy, NEW d \in Proxy,
         ReturnDerived(c, b, d)
  PROVE  Heap!Hold(c)
<1>0. TypeOK BY DEF IInv
<1>1. /\ Live(c) /\ GetOrCreateBase(c, b) /\ b # d /\ NoObject(d)
      /\ p_ptr' = [p_ptr EXCEPT ![b] = c, ![d] = c]
      /\ pointing_dict' = [pointing_dict EXCEPT ![d] = b]
      /\ pyrefs' = [pyrefs EXCEPT ![d] = 1] /\ UNCHANGED leaked
  BY DEF ReturnDerived, Decodable
<1>2. /\ UNCHANGED <<AliveChunks, OwnedChunks>>
      /\ (\E l \in Loc : pointing_dict[l] = b) \/ Keeps(b) => p_ptr[b] = c
  BY <1>1, Unchanged
<1>3. ~Keeps(d) /\ \A l \in Loc : pointing_dict[l] # d
  BY <1>1, Unborn DEF Keeps, Holds
<1>4. \A q \in Proxy :
        /\ q = d => p_ptr'[q] = c /\ Keeps(q)'
        /\ q = b => p_ptr'[q] = c /\ (Keeps(q)' <=> Keeps(q))
        /\ q \notin {b, d} => p_ptr'[q] = p_ptr[q] /\ (Keeps(q)' <=> Keeps(q))
  BY <1>0, <1>1 DEF TypeOK, Keeps, Holds
<1>5. \A x \in Place : pointing_dict'[x] = pointing_dict[x]
  BY <1>0, <1>1, DistinctAssumption DEF TypeOK, Loc, Place
<1>6. UNCHANGED RecordedChunks BY <1>2, <1>3, <1>4, <1>5, RecordedSame DEF Loc
<1>7. HeldChunks' = HeldChunks \cup {c} BY <1>2, <1>3, <1>4 DEF HeldChunks
<1>8. c \in AliveChunks BY <1>1 DEF AliveChunks
<1> QED BY <1>2, <1>6, <1>7, <1>8 DEF Heap!Hold

(* Dropping a reference of Python's lets go of the memory unless another   *)
(* is left, or one was leaked.                                             *)
LEMMA DropLetsGo ==
  ASSUME IInv, NEW p \in Proxy, Holds(p),
         pyrefs' = [pyrefs EXCEPT ![p] = @ - 1],
         UNCHANGED <<policies, p_ptr, leaked, pointing_dict>>
  PROVE  (p_ptr[p] \in Chunk /\ Heap!LetGo(p_ptr[p])) \/ UNCHANGED AbstractHeap
<1>0. TypeOK BY DEF IInv
<1>1. p_ptr[p] \in Chunk BY <1>0, Referenced DEF Holds, TypeOK
<1>2. UNCHANGED RecordedChunks BY RecordedSame
<1>3. Keeps(p) /\ \A q \in Proxy : q # p => (Keeps(q)' <=> Keeps(q))
  BY <1>0 DEF TypeOK, Keeps, Holds
<1>4. CASE \E q \in Proxy : Keeps(q)' /\ p_ptr[q] = p_ptr[p]
  <2>1. HeldChunks' = HeldChunks BY <1>3, <1>4 DEF HeldChunks
  <2> QED BY <1>2, <2>1, PoliciesSame DEF AbstractHeap
<1>5. CASE ~\E q \in Proxy : Keeps(q)' /\ p_ptr[q] = p_ptr[p]
  <2>1. HeldChunks' = HeldChunks \ {p_ptr[p]} BY <1>3, <1>5 DEF HeldChunks
  <2> QED BY <1>1, <1>2, <2>1, PoliciesSame DEF Heap!LetGo
<1> QED BY <1>4, <1>5

(* A reference that is leaked is to what Python holds. *)
LEMMA LeakHolds ==
  ASSUME IInv, NEW p \in Proxy, Holds(p),
         leaked' = [leaked EXCEPT ![p] = @ + 1],
         UNCHANGED <<policies, p_ptr, pyrefs, pointing_dict>>
  PROVE  UNCHANGED AbstractHeap
<1>1. \A q \in Proxy : Keeps(q)' <=> Keeps(q)
  BY DEF Keeps, Holds, IInv, TypeOK
<1> QED BY <1>1, HeldSame, RecordedSame, PoliciesSame DEF AbstractHeap

(* The last base proxy of a chunk frees it once nobody claims the chunk,   *)
(* and so does C if there is no proxy to do so.                            *)
LEMMA UnregisterReclaims ==
  ASSUME IInv, NEW p \in Proxy, Unregister(p)
  PROVE  (p_ptr[p] \in Chunk /\ Heap!Reclaim(p_ptr[p])) \/ UNCHANGED AbstractHeap
<1> USE DistinctAssumption
<1>0. TypeOK /\ Shape BY DEF IInv
<1> DEFINE c == p_ptr[p]
           left == policies[c] \ {"gc"}
<1>1. /\ frame = p /\ pc[p] = "unregister"
      /\ UNCHANGED <<p_ptr, pyrefs, leaked, pointing_dict>>
  BY DEF Unregister, proxyVars
<1>2. c \in Chunk BY <1>0, <1>1 DEF TypeOK, Shape, Objects
<1>3. UNCHANGED RecordedChunks /\ UNCHANGED HeldChunks
  BY <1>1, RecordedSame, HeldSame DEF Keeps, Holds
<1>4. CASE UNCHANGED policies BY <1>3, <1>4, PoliciesSame DEF AbstractHeap
<1>5. CASE proxy_dict[c] = p /\ policies' = [policies EXCEPT ![c] = left]
  <2>1. UNCHANGED OwnedChunks
    <3>1. \A k \in Chunk : "manual" \in policies'[k] <=> "manual" \in policies[k]
      BY <1>0, <1>2, <1>5 DEF TypeOK
    <3> QED BY <3>1 DEF OwnedChunks
  <2>2. CASE "manual" \in policies[c]
    <3>1. \A k \in Chunk : Live(k)' <=> Live(k)
      BY <1>0, <1>2, <1>5, <2>2 DEF TypeOK, Live
    <3>2. UNCHANGED AliveChunks BY <3>1 DEF AliveChunks
    <3> QED BY <1>3, <2>1, <3>2 DEF AbstractHeap
  <2>3. CASE "manual" \notin policies[c]
    <3>1. GcManaged(c) /\ left = {}
      BY <1>0, <1>1, <1>2, <1>5, <2>3 DEF TypeOK, Shape, PolicyHasProxy
    <3>2. \A k \in Chunk : Live(k)' <=> Live(k) /\ k # c
      BY <1>0, <1>2, <1>5, <3>1 DEF TypeOK, Live
    <3>3. AliveChunks' = AliveChunks \ {c} BY <3>2 DEF AliveChunks
    <3>4. c \in AliveChunks /\ c \notin OwnedChunks
      BY <1>2, <2>3, <3>1 DEF AliveChunks, OwnedChunks, Live, GcManaged
    <3>5. c \notin HeldChunks /\ ~\E x \in Place : RecordedChunks[x] = c
      BY <1>1, <1>2, <1>5, Claimed
    <3> QED
      BY <1>2, <1>3, <2>1, <3>3, <3>4, <3>5
      DEF Heap!Reclaim, Heap!Abandoned, Heap!PointedTo
  <2> QED BY <2>2, <2>3
<1> QED BY <1>4, <1>5 DEF Unregister

LEMMA CFreeFrees ==
  ASSUME IInv, NEW c \in Chunk, CFree(c)
  PROVE  Heap!Free(c)
<1>0. TypeOK BY DEF IInv
<1>1. /\ "manual" \in policies[c] /\ UNCHANGED <<p_ptr, pyrefs, leaked, pointing_dict>>
      /\ policies' = [policies EXCEPT ![c] = @ \ {"manual"}]
  BY DEF CFree, proxyVars
<1>2. UNCHANGED RecordedChunks /\ UNCHANGED HeldChunks
  BY <1>1, RecordedSame, HeldSame DEF Keeps, Holds
<1>3. c \in OwnedChunks /\ OwnedChunks' = OwnedChunks \ {c}
  BY <1>0, <1>1 DEF TypeOK, OwnedChunks
<1>4. CASE GcManaged(c)
  <2>1. \A k \in Chunk : Live(k)' <=> Live(k)
    BY <1>0, <1>1, <1>4 DEF TypeOK, Live, GcManaged
  <2>2. UNCHANGED AliveChunks BY <2>1 DEF AliveChunks
  <2> QED BY <1>2, <1>3, <2>2 DEF Heap!Free
<1>5. CASE ~GcManaged(c)
  <2>1. \A k \in Chunk : Live(k)' <=> Live(k) /\ k # c
    BY <1>0, <1>1, <1>5, DistinctAssumption DEF TypeOK, Live, GcManaged
  <2>2. AliveChunks' = AliveChunks \ {c} BY <2>1 DEF AliveChunks
  <2>3. c \notin HeldChunks /\ ~\E x \in Place : RecordedChunks[x] = c
    BY <1>5, Claimed
  <2> QED BY <1>2, <1>3, <2>2, <2>3 DEF Heap!Free, Heap!PointedTo
<1> QED BY <1>4, <1>5

-----------------------------------------------------------------------------
(* Every step is a step of the heap or leaves it alone.                    *)

LEMMA DeallocRefines ==
  ASSUME IInv, NEW p \in Proxy,
         Unregister(p) \/ Sweep(p) \/ EndSweep(p) \/ Unmap(p) \/ DropOwnRef(p)
           \/ FreeObject(p)
  PROVE  [Heap!Next]_AbstractHeap
<1>0. TypeOK /\ Shape BY DEF IInv
<1>1. CASE Unregister(p) BY <1>1, UnregisterReclaims DEF Heap!Next
<1>2. CASE Sweep(p)
  <2>1. PICK s \in Slot : SweepSlot(s) BY <1>2 DEF Sweep, Slots
  <2> QED BY <2>1, SweepErases DEF Heap!Next, Place
<1>3. CASE EndSweep(p) \/ Unmap(p)
  BY <1>3, Silent DEF EndSweep, Unmap, heapVars, proxyVars
<1>4. CASE DropOwnRef(p)
  <2>1. /\ UNCHANGED <<policies, p_ptr, pyrefs, leaked>>
        /\ pointing_dict' = [pointing_dict EXCEPT ![p] = NULL]
    BY <1>4 DEF DropOwnRef, DelRef, heapVars
  <2>2. \A x \in Place : pointing_dict'[x] = pointing_dict[x]
    BY <1>0, <2>1, DistinctAssumption DEF TypeOK, Loc, Place
  <2> QED BY <2>1, <2>2, Silent
<1>5. CASE FreeObject(p)
  <2>1. /\ pc[p] = "own" /\ UNCHANGED <<policies, pyrefs, leaked, pointing_dict>>
        /\ p_ptr' = [p_ptr EXCEPT ![p] = NULL]
    BY <1>5 DEF FreeObject, heapVars
  <2>2. ~Keeps(p) /\ \A l \in Loc : pointing_dict[l] # p
    BY <1>0, <2>1, Referenced DEF Keeps, Holds
  <2>3. \A q \in Proxy : q # p => p_ptr'[q] = p_ptr[q]
    BY <1>0, <2>1 DEF TypeOK
  <2>4. UNCHANGED RecordedChunks BY <2>1, <2>2, <2>3, RecordedSame DEF Loc
  <2>5. UNCHANGED HeldChunks BY <2>1, <2>2, <2>3, HeldSame DEF Keeps, Holds
  <2> QED BY <2>1, <2>4, <2>5, PoliciesSame DEF AbstractHeap
<1> QED BY <1>1, <1>2, <1>3, <1>4, <1>5

LEMMA RuntimeRefines ==
  ASSUME IInv, Runtime PROVE [Heap!Next]_AbstractHeap
<1>0. TypeOK BY DEF IInv
<1>1. CASE Dealloc BY <1>1, DeallocRefines DEF Dealloc
<1>2. CASE FinishStore BY <1>2, FinishStoreRecords DEF Heap!Next
<1>3. CASE CFreeSweep
  <2>1. PICK s \in Slot : SweepSlot(s) BY <1>3 DEF CFreeSweep, Slots
  <2> QED BY <2>1, SweepErases DEF Heap!Next, Place
<1>4. CASE CFreeEnd \/ AttributesFail \/ EndInit \/ ClearEnd
           \/ \E p \in Proxy : ClearStart(p)
  BY <1>4, Silent DEF CFreeEnd, AttributesFail, EndInit, ClearEnd, ClearStart,
     heapVars, proxyVars
<1>5. CASE \E s \in Slot : InitZero(s)
  BY <1>5, Silent DEF InitZero, proxyVars
<1>6. CASE \E s \in Slot : ClearSlot(s)
  BY <1>6, DelRefErases DEF ClearSlot, heapVars, Heap!Next, Place
<1>7. CASE \E s \in Slot, val \in Chunk \cup {NULL} : InitStore(s, val)
  BY <1>7, BeginStoreErases DEF InitStore, heapVars, Heap!Next, Place
<1>8. CASE InitFail
  <2>1. CASE init_fresh
    <3>1. init_obj \in Proxy /\ Holds(init_obj)
      BY <1>0, <1>8, <2>1 DEF InitFail, TypeOK, IInv, Building, Holds
    <3> QED BY <1>8, <2>1, <3>1, DropLetsGo DEF InitFail, heapVars, Heap!Next
  <2>2. CASE ~init_fresh BY <1>8, <2>2, Silent DEF InitFail, heapVars
  <2> QED BY <2>1, <2>2
<1>9. CASE \E p \in Proxy : ReadAttribute(p)
  BY <1>9, LeakHolds DEF ReadAttribute, heapVars
<1> QED BY <1>1, <1>2, <1>3, <1>4, <1>5, <1>6, <1>7, <1>8, <1>9 DEF Runtime

LEMMA PythonRefines ==
  ASSUME IInv, PythonStep PROVE [Heap!Next]_AbstractHeap
<1>1. CASE \E p \in Proxy, c \in Chunk : Construct(p, c)
  BY <1>1, ConstructAllocates DEF Heap!Next
<1>2. CASE \E p \in Proxy : Reinit(p)
  BY <1>2, Silent DEF Reinit, heapVars, proxyVars
<1>3. CASE \E p \in Proxy, s \in Slot, val \in Chunk \cup {NULL} : SetField(p, s, val)
  BY <1>3, BeginStoreErases DEF SetField, heapVars, Heap!Next, Place
<1>4. CASE \E c \in Chunk, b \in Proxy : ReturnBase(c, b)
  BY <1>4, ReturnBaseHolds DEF Heap!Next
<1>5. CASE \E c \in Chunk, b, d \in Proxy : ReturnDerived(c, b, d)
  BY <1>5, ReturnDerivedHolds DEF Heap!Next
<1>6. ASSUME NEW p \in Proxy, PyIncref(p) PROVE UNCHANGED AbstractHeap
  <2>1. /\ UNCHANGED <<policies, p_ptr, leaked, pointing_dict>> /\ Holds(p)
        /\ pyrefs' = [pyrefs EXCEPT ![p] = @ + 1]
    BY <1>6 DEF PyIncref, heapVars
  <2>2. \A q \in Proxy : Keeps(q)' <=> Keeps(q)
    BY <2>1 DEF Keeps, Holds, IInv, TypeOK
  <2>3. UNCHANGED HeldChunks BY <2>1, <2>2, HeldSame
  <2> QED BY <2>1, <2>3, RecordedSame, PoliciesSame DEF AbstractHeap
<1>7. CASE \E p \in Proxy : PyDecref(p)
  <2>1. PICK p \in Proxy : PyDecref(p) BY <1>7
  <2> QED BY <2>1, DropLetsGo DEF PyDecref, heapVars, Heap!Next
<1>8. CASE \E p \in Proxy : CallbackLeaks(p)
  BY <1>8, LeakHolds DEF CallbackLeaks, heapVars
<1> QED BY <1>1, <1>2, <1>3, <1>4, <1>5, <1>6, <1>7, <1>8 DEF PythonStep

LEMMA CRefines ==
  ASSUME IInv, CStep PROVE [Heap!Next]_AbstractHeap
<1>1. CASE \E c \in Chunk, v \in Var : CMalloc(c, v)
  BY <1>1, MallocAllocates DEF Heap!Next
<1>2. CASE \E dest \in Place, val \in Chunk \cup {NULL} : CWrite(dest, val)
  BY <1>2, BeginStoreErases DEF CWrite, heapVars, Heap!Next
<1>3. CASE \E c \in Chunk : CFree(c)
  BY <1>3, CFreeFrees DEF Heap!Next
<1> QED BY <1>1, <1>2, <1>3 DEF CStep

LEMMA InitRefines == Init => Heap!Init
<1> SUFFICES ASSUME Init PROVE Heap!Init OBVIOUS
<1>1. AliveChunks = {} /\ OwnedChunks = {} BY DEF Init, AliveChunks, OwnedChunks, Live
<1>2. HeldChunks = {} BY DEF Init, HeldChunks, Keeps, Holds
<1>3. RecordedChunks = [x \in Place |-> NULL]
  BY DEF Init, RecordedChunks, Loc
<1> QED BY <1>1, <1>2, <1>3 DEF Heap!Init

LEMMA StepRefines == IInv /\ [Next]_vars => [Heap!Next]_AbstractHeap
<1> SUFFICES ASSUME IInv, [Next]_vars PROVE [Heap!Next]_AbstractHeap
  OBVIOUS
<1>1. CASE \E g \in 0..OldestGen : Collect(g)
  BY <1>1, Silent DEF Collect, heapVars, proxyVars
<1>2. CASE UNCHANGED vars
  BY <1>2, Silent DEF vars, heapVars, proxyVars
<1> QED BY <1>1, <1>2, RuntimeRefines, PythonRefines, CRefines DEF Next

-----------------------------------------------------------------------------
(* The results.                                                            *)

(* Reference counting through proxy_dict, proxy_pointing_addr_dict and the *)
(* gc policy implements the heap of ManagedHeap: whatever Python, C and    *)
(* the collector do, a chunk is freed only when C has given it up, Python  *)
(* holds nothing in it and no pointer to it is recorded.                   *)
THEOREM HeapImplemented == Spec => ImplementsHeap
<1>1. Init => Heap!Init BY InitRefines
<1>2. IInv /\ [Next]_vars => [Heap!Next]_AbstractHeap BY StepRefines
<1>3. AbstractHeap = Heap!heap BY DEF AbstractHeap, Heap!heap
<1>4. IInv /\ [Next]_vars => [Heap!Next]_(Heap!heap)
  BY <1>2, <1>3 DEF AbstractHeap, Heap!heap
<1> QED BY <1>1, <1>4, Invariant, PTL DEF Spec, ImplementsHeap, Heap!Spec

LEMMA ClaimedAliveKept ==
  ASSUME Heap!ClaimedAlive, [Heap!Next]_(Heap!heap) PROVE Heap!ClaimedAlive'
<1> USE DEF Heap!ClaimedAlive
<1>1. CASE UNCHANGED Heap!heap BY <1>1 DEF Heap!heap
<1>2. ASSUME NEW c \in Chunk,
             Heap!Allocate(c) \/ Heap!Hold(c) \/ Heap!LetGo(c)
      PROVE  Heap!ClaimedAlive'
  BY <1>2 DEF Heap!Allocate, Heap!Hold, Heap!LetGo
<1>3. ASSUME NEW c \in Chunk, Heap!Free(c) \/ Heap!Reclaim(c)
      PROVE  Heap!ClaimedAlive'
  BY <1>3 DEF Heap!Free, Heap!Reclaim, Heap!Abandoned, Heap!PointedTo
<1>4. ASSUME NEW x \in Place, Heap!Erase(x) \/ \E c \in Chunk : Heap!Record(x, c)
      PROVE  Heap!ClaimedAlive'
  BY <1>4 DEF Heap!Erase, Heap!Record
<1> QED BY <1>1, <1>2, <1>3, <1>4 DEF Heap!Next

(* So what C owns, what Python holds a proxy to and what a recorded        *)
(* pointer points to is memory that exists, at every step of proxy.c and   *)
(* of what it sets off.                                                    *)
THEOREM ClaimedAlwaysAlive == Spec => []Heap!ClaimedAlive
<1>1. Heap!Init => Heap!ClaimedAlive BY DEF Heap!Init, Heap!ClaimedAlive
<1>2. Heap!ClaimedAlive /\ [Heap!Next]_(Heap!heap) => Heap!ClaimedAlive'
  BY ClaimedAliveKept
<1> QED BY <1>1, <1>2, HeapImplemented, PTL DEF ImplementsHeap, Heap!Spec

-----------------------------------------------------------------------------
(* 3. What this means for the pointers in memory.                          *)
(* The parts of the invariant.                                             *)

(* Which operations can be under way together. *)
Phases ==
  /\ notify_dest # NULL => freeing = NULL
  /\ init_obj # NULL => gc_set = {} /\ gc_hold = NULL
  /\ init_obj = NULL => init_todo = {} /\ ~init_fresh

Initialising ==
  init_obj # NULL => Holds(init_obj) /\ init_todo \subseteq Slots(p_ptr[init_obj])

(* The program can read the pointer that is at x. *)
Stored(x) == Readable(x) /\ x # notify_dest

(* Nobody but its constructor knows the object or its memory. *)
Alone(p) ==
  /\ IsBase(p) /\ pyrefs[p] = 1 /\ leaked[p] = 0
  /\ "manual" \notin policies[p_ptr[p]]
  /\ \A q \in Proxy : q # p => p_ptr[q] # p_ptr[p]
  /\ \A l \in Loc : pointing_dict[l] # p
  /\ \A x \in Place : Stored(x) => field[x] # p_ptr[p]
  /\ notify_dest # NULL => notify_val # p_ptr[p]
Fresh == init_fresh => Alone(init_obj)

(* The entry at x is for the chunk its pointer points to. *)
Recorded(x) ==
  pointing_dict[x] # NULL /\ pointing_dict[x] = proxy_dict[field[x]]
Tracked ==
  \A x \in Place : Stored(x) /\ field[x] # NULL =>
    "manual" \in policies[field[x]] \/ Recorded(x)

(* Where the pointer that is being stored was taken from. *)
Held(c) == \E q \in Proxy : Holds(q) /\ p_ptr[q] = c
TakenFrom(x) == x # notify_dest /\ field[x] = notify_val
ValueSafe ==
  notify_dest # NULL /\ notify_val # NULL =>
    \/ "manual" \in policies[notify_val] \/ Held(notify_val)
    \/ \E v \in Var : TakenFrom(v)
    \/ \E s \in Slot : TakenFrom(s) /\ Readable(s) /\ Held(Owner[s])
    \/ frame = NULL /\ Live(notify_val)

PInv == IInv /\ Phases /\ Initialising /\ Fresh /\ Tracked /\ ValueSafe

-----------------------------------------------------------------------------
(* What is known of places.                                                *)

(* A pointer that can be read points to memory that is alive. *)
LEMMA TrackedAlive ==
  ASSUME IInv, Tracked, NEW x \in Place, Stored(x), field[x] # NULL
  PROVE  Live(field[x])
<1>1. x \in Loc /\ field[x] \in Chunk BY DEF IInv, TypeOK, Loc
<1>2. CASE "manual" \in policies[field[x]] BY <1>2 DEF Live
<1>3. CASE Recorded(x)
  <2>1. pointing_dict[x] # NULL /\ proxy_dict[field[x]] = pointing_dict[x]
    BY <1>3 DEF Recorded
  <2>2. p_ptr[pointing_dict[x]] = field[x]
    BY <1>1, <2>1 DEF IInv, Shape, Registry
  <2>3. GcManaged(field[x]) BY <1>1, <2>1, <2>2, EntriesRegistered DEF EntriesSound
  <2> QED BY <2>3 DEF GcManaged, Live
<1> QED BY <1>2, <1>3 DEF Tracked

LEMMA VarStored ==
  ASSUME NEW v \in Var PROVE Readable(v) /\ v \in Place
BY DEF Readable, Place

(* The pointer that is being stored points to memory that is alive. *)
LEMMA ValueAlive ==
  ASSUME PInv, notify_dest # NULL, notify_val # NULL PROVE Live(notify_val)
<1>0. IInv /\ Tracked BY DEF PInv
<1>1. CASE "manual" \in policies[notify_val] BY <1>1 DEF Live
<1>2. CASE Held(notify_val)
  BY <1>0, <1>2, HeldRegistered DEF Held, GcManaged, Live
<1>3. CASE \E v \in Var : TakenFrom(v)
  <2>1. PICK v \in Var : TakenFrom(v) BY <1>3
  <2>2. v \in Place /\ Stored(v) /\ field[v] = notify_val
    BY <2>1, VarStored DEF TakenFrom, Stored
  <2> QED BY <1>0, <2>2, TrackedAlive
<1>4. CASE \E s \in Slot : TakenFrom(s) /\ Readable(s) /\ Held(Owner[s])
  <2>1. PICK s \in Slot : TakenFrom(s) /\ Readable(s) BY <1>4
  <2>2. s \in Place /\ Stored(s) /\ field[s] = notify_val
    BY <2>1 DEF TakenFrom, Stored, Place
  <2> QED BY <1>0, <2>2, TrackedAlive
<1> QED BY <1>1, <1>2, <1>3, <1>4 DEF PInv, ValueSafe

-----------------------------------------------------------------------------
(* Phases.                                                                 *)

(* The object being initialised is held, so it is not freed. *)
LEMMA PhasesKept ==
  ASSUME IInv, Phases, Initialising, [Next]_vars
  PROVE  Phases' /\ Initialising'
<1> USE DistinctAssumption
<1>0. TypeOK BY DEF IInv
<1>1. ASSUME UNCHANGED initVars, notify_dest' = notify_dest, freeing' \in {freeing, NULL},
             gc_set' \subseteq gc_set, gc_hold' \in {gc_hold, NULL},
             Holds(init_obj) => Holds(init_obj)',
             init_obj # NULL => p_ptr'[init_obj] = p_ptr[init_obj]
      PROVE  Phases' /\ Initialising'
  BY <1>1 DEF Phases, Initialising, Slots, initVars
<1>2. CASE Dealloc
  <2>1. init_obj # NULL => init_obj \in Proxy /\ pc[init_obj] = "idle"
    BY <1>0, Referenced DEF Initialising, Holds, TypeOK
  <2>2. /\ UNCHANGED initVars /\ UNCHANGED <<notify_dest, freeing, gc_hold, pyrefs, leaked>>
        /\ gc_set' \subseteq gc_set
        /\ \A p \in Proxy : pc[p] = "idle" => p_ptr'[p] = p_ptr[p]
    BY <1>0, <1>2 DEF TypeOK, Dealloc, Unregister, Sweep, EndSweep, Unmap, DropOwnRef,
       FreeObject, SweepSlot, DelRef, DecRef, storeVars, gcVars, proxyVars
  <2> QED BY <1>1, <2>1, <2>2 DEF Holds, initVars
<1>3. CASE FinishStore
  <2>1. UNCHANGED initVars /\ UNCHANGED <<freeing, p_ptr, pyrefs, leaked, gc_set, gc_hold>>
        /\ notify_dest' = NULL
    BY <1>3 DEF FinishStore, gcVars
  <2> QED BY <2>1 DEF Phases, Initialising, Slots, initVars, Holds
<1>4. CASE CFreeSweep \/ CFreeEnd
  <2>1. UNCHANGED initVars /\ UNCHANGED <<notify_dest, p_ptr, pyrefs, leaked, gc_set, gc_hold>>
        /\ freeing' \in {freeing, NULL}
    BY <1>4 DEF CFreeSweep, CFreeEnd, SweepSlot, storeVars, gcVars, proxyVars
  <2> QED BY <1>1, <2>1 DEF Holds, initVars
<1>5. CASE (\E p \in Proxy : ClearStart(p)) \/ (\E s \in Slot : ClearSlot(s)) \/ ClearEnd
  <2>1. init_obj = NULL BY <1>5 DEF ClearStart, ClearSlot, ClearEnd, Phases
  <2>2. UNCHANGED initVars /\ UNCHANGED <<notify_dest, freeing>>
    BY <1>5 DEF ClearStart, ClearSlot, ClearEnd, storeVars
  <2> QED BY <2>1, <2>2 DEF Phases, Initialising, initVars
<1>6. CASE \E s \in Slot : InitZero(s) \/ \E val \in Chunk \cup {NULL} : InitStore(s, val)
  <2>1. /\ init_obj # NULL /\ init_obj' = init_obj /\ freeing = NULL /\ freeing' = freeing
        /\ init_fresh' = init_fresh
        /\ init_todo' \subseteq init_todo /\ UNCHANGED <<p_ptr, pyrefs, leaked, gc_set, gc_hold>>
    BY <1>6 DEF InitZero, InitStore, Quiet, storeVars, gcVars, proxyVars
  <2> QED BY <2>1 DEF Phases, Initialising, Slots, Holds
<1>7. CASE EndInit \/ InitFail
  <2>1. init_obj' = NULL /\ init_todo' = {} /\ ~init_fresh'
        /\ notify_dest' = NULL
    BY <1>7 DEF EndInit, InitFail, Quiet, storeVars
  <2> QED BY <2>1 DEF Phases, Initialising
<1>8. CASE PythonStep \/ CStep \/ \E g \in 0..OldestGen : Collect(g)
  <2>1. Idle
    BY <1>8 DEF PythonStep, CStep, Construct, Reinit, SetField, ReturnBase,
       ReturnDerived, PyIncref, PyDecref, CallbackLeaks, CMalloc, CWrite, CFree, Collect
  <2>2. CASE \E p \in Proxy, c \in Chunk : Construct(p, c)
    <3>1. PICK p \in Proxy, c \in Chunk : Construct(p, c) BY <2>2
    <3>2. init_obj' = p /\ init_todo' = Slots(c) /\ p_ptr'[p] = c /\ pyrefs'[p] = 1
          /\ UNCHANGED storeVars /\ UNCHANGED gcVars
      BY <1>0, <3>1 DEF Construct, TypeOK
    <3> QED BY <2>1, <3>2 DEF Phases, Initialising, Idle, Quiet, Holds, Slots,
            storeVars, gcVars
  <2>3. CASE \E p \in Proxy : Reinit(p)
    <3>1. PICK p \in Proxy : Reinit(p) BY <2>3
    <3>2. /\ init_obj' = p /\ init_todo' = Slots(p_ptr[p]) /\ UNCHANGED <<p_ptr, pyrefs, leaked>>
          /\ Holds(p) /\ UNCHANGED storeVars /\ UNCHANGED gcVars
      BY <3>1 DEF Reinit, proxyVars
    <3> QED BY <2>1, <3>2 DEF Phases, Initialising, Idle, Quiet, Holds, Slots,
            storeVars, gcVars
  <2>4. CASE ~\E p \in Proxy : Reinit(p) \/ \E c \in Chunk : Construct(p, c)
    <3>1. UNCHANGED initVars /\ (notify_dest' # NULL => freeing' = NULL)
      BY <1>8, <2>1, <2>4 DEF PythonStep, CStep, SetField, BeginStore, ReturnBase,
         ReturnDerived, PyIncref, PyDecref, CallbackLeaks, CMalloc, CWrite, CFree,
         Collect, Idle, Quiet, storeVars
    <3> QED BY <2>1, <3>1 DEF Phases, Initialising, Idle, initVars
  <2> QED BY <2>2, <2>3, <2>4
<1>9. CASE UNCHANGED vars
  BY <1>9 DEF vars, initVars, storeVars, gcVars, proxyVars, Phases, Initialising, Slots, Holds
<1>10. CASE AttributesFail \/ \E p \in Proxy : ReadAttribute(p)
  <2>1. /\ init_obj # NULL /\ UNCHANGED <<init_obj, init_fresh, notify_dest, freeing>>
        /\ init_todo' \in {init_todo, Slots(p_ptr[init_obj])}
        /\ UNCHANGED <<p_ptr, pyrefs, gc_set, gc_hold>>
    BY <1>10 DEF AttributesFail, ReadAttribute, initVars, storeVars, gcVars, proxyVars
  <2> QED BY <2>1 DEF Phases, Initialising, Slots, Holds
<1> QED BY <1>2, <1>3, <1>4, <1>5, <1>6, <1>7, <1>8, <1>9, <1>10 DEF Next, Runtime

-----------------------------------------------------------------------------
(* Steps that only take things away.                                       *)

Settles ==
  /\ \A x \in Place : Stored(x)' /\ field'[x] # NULL =>
       Stored(x) /\ field'[x] = field[x] /\ pointing_dict'[x] = pointing_dict[x]
  /\ \A l \in Loc : pointing_dict'[l] \in {pointing_dict[l], NULL}
  /\ \A q \in Proxy : p_ptr'[q] \in {p_ptr[q], NULL} /\ (Holds(q)' => Holds(q))
  /\ \A c \in Chunk : "manual" \in policies[c] => "manual" \in policies'[c]
  /\ \A c \in Chunk : proxy_dict'[c] = proxy_dict[c]
                      \/ \A l \in Loc : pointing_dict[l] # proxy_dict[c]

LEMMA SettlesTracked ==
  ASSUME IInv, Tracked, Settles PROVE Tracked'
<1> SUFFICES ASSUME NEW x \in Place, Stored(x)', field'[x] # NULL
             PROVE  "manual" \in policies'[field'[x]] \/ Recorded(x)'
  BY DEF Tracked
<1>1. Stored(x) /\ field'[x] = field[x] /\ pointing_dict'[x] = pointing_dict[x]
  BY DEF Settles
<1>2. field[x] \in Chunk /\ x \in Loc BY <1>1 DEF IInv, TypeOK, Loc
<1>3. "manual" \in policies[field[x]] \/ Recorded(x) BY <1>1 DEF Tracked
<1> QED BY <1>1, <1>2, <1>3 DEF Settles, Recorded

(* A place does not become readable by itself. *)
LEMMA ReadableStays ==
  ASSUME \A c \in Chunk : InUse(c)' => InUse(c) /\ (c \in condemned => c \in condemned'),
         \A s \in Slot : InUse(Owner[s])' /\ s \in forgotten => s \in forgotten',
         UNCHANGED <<init_fresh, init_todo>>
  PROVE  \A x \in Place : Readable(x)' => Readable(x)
BY OwnerAssumption DEF Readable, Place

(* What Py_DECREF and proxy_delref do to entries and deallocations. *)
LEMMA DecRefEffect ==
  ASSUME TypeOK, NEW q \in Proxy, pc[q] = "idle", DecRef(q)
  PROVE  /\ \A p \in Proxy : pc'[p] = "idle" => pc[p] = "idle"
         /\ \A p \in Proxy : pc'[p] = "sweep" <=> pc[p] = "sweep"
         /\ frame' = NULL => frame = NULL
BY DistinctAssumption DEF TypeOK, DecRef, EnterDealloc, NoDealloc, stackVars

LEMMA DelRefEffect ==
  ASSUME IInv, NEW from \in Loc, DelRef(from)
  PROVE  /\ pointing_dict' = [pointing_dict EXCEPT ![from] = NULL]
         /\ \A l \in Loc : pointing_dict'[l] \in {pointing_dict[l], NULL}
         /\ \A p \in Proxy : pc'[p] = "idle" => pc[p] = "idle"
         /\ \A p \in Proxy : pc'[p] = "sweep" <=> pc[p] = "sweep"
         /\ frame' = NULL => frame = NULL
<1>0. TypeOK BY DEF IInv
<1>1. CASE pointing_dict[from] = NULL
  <2>1. UNCHANGED pointing_dict /\ UNCHANGED <<frame, pc>>
    BY <1>1 DEF DelRef, stackVars
  <2> QED BY <1>0, <1>1, <2>1 DEF TypeOK
<1>2. CASE pointing_dict[from] # NULL
  <2>1. pointing_dict[from] \in Proxy /\ pc[pointing_dict[from]] = "idle"
    BY <1>0, <1>2, EntriesRegistered DEF TypeOK, EntriesSound
  <2>2. DecRef(pointing_dict[from]) /\ pointing_dict' = [pointing_dict EXCEPT ![from] = NULL]
    BY <1>2 DEF DelRef
  <2> QED BY <1>0, <2>1, <2>2, DecRefEffect DEF TypeOK
<1> QED BY <1>1, <1>2

(* Deallocations that start take memory out of use. *)
LEMMA InUseStays ==
  ASSUME IInv, UNCHANGED <<policies, proxy_dict>>,
         \A p \in Proxy : pc'[p] = "idle" => pc[p] = "idle"
  PROVE  \A c \in Chunk : InUse(c)' => InUse(c)
<1>1. \A c \in Chunk : GcManaged(c) => proxy_dict[c] \in Proxy
  BY DEF IInv, TypeOK, Shape, PolicyHasProxy
<1> QED BY <1>1 DEF InUse, GcManaged

(* One step of a deallocation. *)
LEMMA DeallocSettles ==
  ASSUME IInv, Dealloc
  PROVE  /\ Settles
         /\ \A x \in Place : Readable(x)' => Readable(x)
         /\ \A c \in Chunk : InUse(c)' => InUse(c)
<1> USE DistinctAssumption
<1>0. TypeOK /\ Shape BY DEF IInv
<1>1. PICK p \in Proxy : \/ Unregister(p) \/ Sweep(p) \/ EndSweep(p) \/ Unmap(p)
                        \/ DropOwnRef(p) \/ FreeObject(p)
  BY DEF Dealloc
<1>2. pc[p] # "idle" /\ p_ptr[p] \in Chunk
  <2>1. pc[p] # "idle"
    BY <1>1 DEF Unregister, Sweep, EndSweep, Unmap, DropOwnRef, FreeObject
  <2> QED BY <1>0, <2>1 DEF Shape, Objects, TypeOK
<1>3. \A l \in Loc : pointing_dict[l] # p
  BY <1>2, EntriesRegistered DEF EntriesSound
<1>4. \A c \in Chunk : InUse(c)' => InUse(c)
  <2> SUFFICES ASSUME NEW c \in Chunk, InUse(c)' PROVE InUse(c)
    OBVIOUS
  <2>1. policies'[c] \subseteq policies[c]
    BY <1>0, <1>1 DEF TypeOK, Unregister, Sweep, EndSweep, Unmap, DropOwnRef, FreeObject,
       SweepSlot, heapVars
  <2>2. CASE "manual" \in policies'[c] BY <2>1, <2>2 DEF InUse
  <2>3. CASE GcManaged(c)' /\ pc'[proxy_dict'[c]] = "idle"
    <3>1. GcManaged(c) BY <2>1, <2>3 DEF GcManaged
    <3>2. proxy_dict[c] \in Proxy /\ p_ptr[proxy_dict[c]] = c
          /\ pc[proxy_dict[c]] \in {"idle", "unregister"}
      BY <1>0, <3>1 DEF TypeOK, Shape, PolicyHasProxy
    <3>3. proxy_dict'[c] = proxy_dict[c]
      <4>1. CASE Unmap(p)
        <5>1. proxy_dict[p_ptr[p]] = p /\ pc[p] = "unmap"
          BY <1>0, <4>1 DEF Shape, Sweeping, Unmap
        <5> QED BY <1>0, <3>2, <4>1, <5>1 DEF TypeOK, Unmap
      <4>2. CASE ~Unmap(p)
        BY <1>1, <4>2 DEF Unregister, Sweep, EndSweep, DropOwnRef, FreeObject, SweepSlot
      <4> QED BY <4>1, <4>2
    <3>4. \A q \in Proxy : pc'[q] = "idle" => pc[q] = "idle" \/ pc[q] = "own"
      <4>1. CASE Sweep(p) \/ DropOwnRef(p)
        <5>1. UNCHANGED <<frame, caller, pc>> \/ \E l \in Loc : DelRef(l)
          BY <4>1 DEF Sweep, SweepSlot, DropOwnRef, Slots, Loc, Place, stackVars
        <5> QED BY <5>1, DelRefEffect
      <4>2. CASE Unregister(p) \/ EndSweep(p) \/ Unmap(p) \/ FreeObject(p)
        BY <1>0, <4>2 DEF TypeOK, Unregister, EndSweep, Unmap, FreeObject
      <4> QED BY <1>1, <4>1, <4>2
    <3> QED BY <2>3, <3>1, <3>2, <3>3, <3>4 DEF InUse
  <2> QED BY <2>2, <2>3 DEF InUse
<1>5. \A x \in Place : Readable(x)' => Readable(x)
  <2>1. /\ UNCHANGED <<init_fresh, init_todo>>
        /\ \/ UNCHANGED histVars
           \/ Forget(p_ptr[p]) /\ policies'[p_ptr[p]] = {}
    BY <1>0, <1>1, <1>2 DEF TypeOK, Unregister, Sweep, EndSweep, Unmap, DropOwnRef,
       FreeObject, SweepSlot, initVars
  <2>2. \A c \in Chunk : policies'[c] = {} => ~InUse(c)' BY DEF InUse, GcManaged
  <2>3. CASE UNCHANGED histVars BY <1>4, <2>1, <2>3, ReadableStays DEF histVars
  <2>4. CASE Forget(p_ptr[p]) /\ policies'[p_ptr[p]] = {}
    <3>1. \A c \in Chunk : InUse(c)' => c # p_ptr[p] BY <1>2, <2>2, <2>4
    <3>2. /\ \A c \in Chunk : InUse(c)' => InUse(c) /\ (c \in condemned => c \in condemned')
          /\ \A s \in Slot : InUse(Owner[s])' /\ s \in forgotten => s \in forgotten'
      BY <1>4, <2>4, <3>1, OwnerAssumption DEF Forget, Slots
    <3> QED BY <2>1, <3>2, ReadableStays
  <2> QED BY <2>1, <2>3, <2>4
<1>6. \A x \in Place : \/ field'[x] = field[x] /\ pointing_dict'[x] = pointing_dict[x]
                       \/ field'[x] = NULL
  <2>1. CASE Sweep(p)
    <3>1. PICK s \in Slots(p_ptr[p]) : SweepSlot(s) BY <2>1 DEF Sweep
    <3>2. s \in Place /\ s \in Loc BY <3>1 DEF Slots, Place, Loc
    <3>3. field' = [field EXCEPT ![s] = NULL] BY <3>1 DEF SweepSlot
    <3>4. \A x \in Loc : x # s => pointing_dict'[x] = pointing_dict[x]
      BY <1>0, <3>1, <3>2, DelRefEffect DEF SweepSlot, TypeOK
    <3> QED BY <1>0, <3>2, <3>3, <3>4 DEF TypeOK, Loc
  <2>2. CASE DropOwnRef(p)
    <3>1. p \in Loc /\ DelRef(p) /\ UNCHANGED field
      BY <2>2 DEF DropOwnRef, Loc, heapVars
    <3>2. pointing_dict' = [pointing_dict EXCEPT ![p] = NULL] BY <3>1, DelRefEffect
    <3> QED BY <1>0, <3>1, <3>2 DEF TypeOK, Place, Loc
  <2>3. CASE Unregister(p) \/ EndSweep(p) \/ Unmap(p) \/ FreeObject(p)
    BY <2>3 DEF Unregister, EndSweep, Unmap, FreeObject, heapVars
  <2> QED BY <1>1, <2>1, <2>2, <2>3
<1>7. /\ \A l \in Loc : pointing_dict'[l] \in {pointing_dict[l], NULL}
      /\ UNCHANGED <<pyrefs, leaked, notify_dest>>
      /\ \A q \in Proxy : p_ptr'[q] \in {p_ptr[q], NULL}
  <2>1. UNCHANGED pointing_dict \/ \E l \in Loc : DelRef(l)
    BY <1>1 DEF Unregister, Sweep, EndSweep, Unmap, DropOwnRef, FreeObject, SweepSlot,
       Loc, Place, Slots
  <2>2. UNCHANGED <<pyrefs, leaked, notify_dest>> /\ \A q \in Proxy : p_ptr'[q] \in {p_ptr[q], NULL}
    BY <1>0, <1>1 DEF TypeOK, Unregister, Sweep, EndSweep, Unmap, DropOwnRef, FreeObject,
       SweepSlot, proxyVars, storeVars
  <2> QED BY <2>1, <2>2, DelRefEffect
<1>8. /\ \A c \in Chunk : "manual" \in policies[c] => "manual" \in policies'[c]
      /\ \A c \in Chunk : proxy_dict'[c] = proxy_dict[c]
                          \/ \A l \in Loc : pointing_dict[l] # proxy_dict[c]
  <2>1. CASE Unregister(p)
    BY <1>0, <2>1 DEF TypeOK, Unregister
  <2>2. CASE Unmap(p)
    <3>1. proxy_dict[p_ptr[p]] = p BY <1>0, <2>2 DEF Shape, Sweeping, Unmap
    <3> QED BY <1>0, <1>2, <1>3, <2>2, <3>1 DEF TypeOK, Unmap, heapVars
  <2>3. CASE Sweep(p) \/ EndSweep(p) \/ DropOwnRef(p) \/ FreeObject(p)
    BY <2>3 DEF Sweep, EndSweep, DropOwnRef, FreeObject, SweepSlot, heapVars
  <2> QED BY <1>1, <2>1, <2>2, <2>3
<1>9. \A x \in Place : Stored(x)' => Stored(x) BY <1>5, <1>7 DEF Stored
<1> QED BY <1>4, <1>5, <1>6, <1>7, <1>8, <1>9 DEF Settles, Holds

(* Most steps start or end deallocations at most, and leave memory and the *)
(* registry alone.                                                         *)
LEMMA SettlesByRefs ==
  ASSUME IInv, UNCHANGED <<policies, proxy_dict, p_ptr>>,
         \A p \in Proxy : pc'[p] = "idle" => pc[p] = "idle",
         \A q \in Proxy : Holds(q)' => Holds(q),
         \A l \in Loc : pointing_dict'[l] \in {pointing_dict[l], NULL},
         \A c \in Chunk : c \in condemned => c \in condemned',
         \A s \in Slot : s \in forgotten => s \in forgotten',
         \A x \in Place : Stored(x)' /\ field'[x] # NULL =>
            /\ x # notify_dest /\ field'[x] = field[x]
            /\ pointing_dict'[x] = pointing_dict[x]
            /\ init_fresh /\ x \in init_todo => init_fresh' /\ x \in init_todo'
  PROVE  Settles
<1>1. \A c \in Chunk : InUse(c)' => InUse(c) BY InUseStays
<1>2. \A x \in Place : Stored(x)' /\ field'[x] # NULL => Stored(x)
  <2> SUFFICES ASSUME NEW x \in Place, Stored(x)', field'[x] # NULL PROVE Stored(x)
    OBVIOUS
  <2>1. x # notify_dest /\ Readable(x)' BY DEF Stored
  <2>2. CASE x \in Var BY <2>1, <2>2 DEF Stored, Readable
  <2>3. CASE x \in Slot
    <3>1. x \notin Var BY <2>3, DistinctAssumption
    <3>2. /\ InUse(Owner[x])' /\ Owner[x] \notin condemned' /\ x \notin forgotten'
          /\ ~(init_fresh' /\ x \in init_todo')
      BY <2>1, <3>1 DEF Readable
    <3>3. Owner[x] \in Chunk BY <2>3, OwnerAssumption
    <3>4. InUse(Owner[x]) BY <1>1, <3>2, <3>3
    <3> QED BY <2>1, <2>3, <3>2, <3>3, <3>4 DEF Stored, Readable
  <2> QED BY <2>2, <2>3 DEF Place
<1> QED BY <1>1, <1>2 DEF Settles

(* A store is announced: the place that is written does not count. *)
LEMMA BeginStoreSettles ==
  ASSUME IInv, Quiet, NEW dest \in Place, NEW val, BeginStore(dest, val),
         UNCHANGED <<heapVars, histVars, p_ptr, pyrefs, leaked, proxy_dict, init_fresh>>,
         init_todo' \in {init_todo, init_todo \ {dest}}
  PROVE  Settles
<1>0. TypeOK /\ dest \in Loc BY DEF IInv, Loc
<1>1. /\ notify_dest' = dest /\ notify_dest = NULL
      /\ UNCHANGED <<pointing_dict, frame, pc>> \/ DelRef(dest)
  BY DEF BeginStore, Quiet, stackVars
<1>2. /\ \A p \in Proxy : pc'[p] = "idle" => pc[p] = "idle"
      /\ \A l \in Loc : pointing_dict'[l] \in {pointing_dict[l], NULL}
      /\ \A l \in Loc : l # dest => pointing_dict'[l] = pointing_dict[l]
  <2>1. CASE UNCHANGED <<pointing_dict, frame, pc>> BY <2>1
  <2>2. CASE DelRef(dest) BY <1>0, <2>2, DelRefEffect DEF TypeOK
  <2> QED BY <1>1, <2>1, <2>2
<1>3. \A x \in Place : Stored(x)' =>
        /\ x # notify_dest /\ field'[x] = field[x] /\ x # dest
        /\ pointing_dict'[x] = pointing_dict[x]
        /\ init_fresh /\ x \in init_todo => init_fresh' /\ x \in init_todo'
  BY <1>1, <1>2, DistinctAssumption DEF Stored, Place, Loc, heapVars
<1> QED BY <1>2, <1>3, SettlesByRefs DEF Holds, heapVars, histVars

LEMMA StoresSettle ==
  ASSUME IInv,
         \/ \E p \in Proxy, s \in Slot, val \in Chunk \cup {NULL} : SetField(p, s, val)
         \/ \E dest \in Place, val \in Chunk \cup {NULL} : CWrite(dest, val)
         \/ \E s \in Slot, val \in Chunk \cup {NULL} : InitStore(s, val)
  PROVE  Settles
<1>1. CASE \E s \in Slot, val \in Chunk \cup {NULL} :
             InitStore(s, val) \/ \E p \in Proxy : SetField(p, s, val)
  <2>1. PICK s \in Slot, val \in Chunk \cup {NULL} :
             InitStore(s, val) \/ \E p \in Proxy : SetField(p, s, val)
    BY <1>1
  <2>2. /\ Quiet /\ BeginStore(s, val) /\ init_todo' \in {init_todo, init_todo \ {s}}
        /\ UNCHANGED <<heapVars, histVars, p_ptr, pyrefs, leaked, proxy_dict, init_fresh>>
    BY <2>1 DEF InitStore, SetField, Idle, initVars
  <2>3. s \in Place BY DEF Place
  <2> QED BY <2>2, <2>3, BeginStoreSettles
<1>2. CASE \E dest \in Place, val \in Chunk \cup {NULL} : CWrite(dest, val)
  <2>1. PICK dest \in Place, val \in Chunk \cup {NULL} : CWrite(dest, val) BY <1>2
  <2>2. /\ Quiet /\ BeginStore(dest, val) /\ init_todo' \in {init_todo, init_todo \ {dest}}
        /\ UNCHANGED <<heapVars, histVars, p_ptr, pyrefs, leaked, proxy_dict, init_fresh>>
    BY <2>1 DEF CWrite, Idle, initVars
  <2> QED BY <2>2, BeginStoreSettles
<1> QED BY <1>1, <1>2

(* A constructor that fails frees the object nobody else knows. *)
LEMMA InitFailSettles ==
  ASSUME IInv, Phases, Initialising, Fresh, InitFail PROVE Settles
<1> USE DistinctAssumption
<1>0. TypeOK /\ Quiet /\ init_obj # NULL /\ init_obj \in Proxy /\ Holds(init_obj)
  BY DEF IInv, TypeOK, InitFail, Initialising
<1>1. /\ UNCHANGED <<heapVars, histVars, p_ptr, proxy_dict, pointing_dict, storeVars>>
      /\ ~init_fresh'
  BY DEF InitFail
<1>2. CASE ~init_fresh
  <2>1. UNCHANGED stackVars /\ UNCHANGED pyrefs BY <1>2 DEF InitFail
  <2>2. \A x \in Place : Stored(x)' =>
          x # notify_dest /\ field'[x] = field[x] /\ pointing_dict'[x] = pointing_dict[x]
    BY <1>1 DEF Stored, heapVars, storeVars
  <2>3. \A l \in Loc : pointing_dict'[l] \in {pointing_dict[l], NULL} BY <1>1
  <2> QED BY <1>1, <1>2, <2>1, <2>2, <2>3, SettlesByRefs
          DEF Holds, heapVars, histVars, stackVars
<1>3. CASE init_fresh
  <2> DEFINE p == init_obj
             c == p_ptr[p]
  <2>1. /\ IsBase(p) /\ pyrefs[p] = 1 /\ leaked[p] = 0
        /\ "manual" \notin policies[c]
        /\ \A l \in Loc : pointing_dict[l] # p
        /\ gc_hold = NULL
    BY <1>0, <1>3 DEF Fresh, Alone, Phases
  <2>2. DecRef(p) /\ pyrefs' = [pyrefs EXCEPT ![p] = @ - 1] BY <1>3 DEF InitFail
  <2>3. ob_refcnt[p] = 1
    <3>1. EntriesOf(p) = {} BY <2>1 DEF EntriesOf
    <3>2. Cardinality(EntriesOf(p)) = 0 BY <3>1, FS_EmptySet
    <3> QED BY <1>0, <2>1, <3>2 DEF IInv, CountsExact
  <2>4. pc'[p] = "unregister" /\ \A q \in Proxy : pc'[q] = "idle" => pc[q] = "idle"
    BY <1>0, <2>2, <2>3 DEF DecRef, EnterDealloc, TypeOK
  <2>5. \A q \in Proxy : Holds(q)' => Holds(q)
    BY <1>0, <2>1, <2>2, BoundAssumption DEF Holds, TypeOK
  <2>6. c \in Chunk /\ proxy_dict[c] = p BY <1>0, <2>1 DEF IsBase, NoObject, TypeOK
  <2>7. \A d \in Chunk : InUse(d)' => InUse(d)
    BY <1>1, <2>4, InUseStays DEF heapVars
  <2>8. \A d \in Chunk : InUse(d)' => d # c
    BY <1>1, <2>1, <2>4, <2>6 DEF InUse, heapVars
  <2>9. \A x \in Place : Stored(x)' => Stored(x)
    <3> SUFFICES ASSUME NEW x \in Slot, Stored(x)', x \notin Var PROVE Stored(x)
      BY <1>1 DEF Place, Stored, Readable, storeVars
    <3>1. x # notify_dest /\ Readable(x)' BY <1>1 DEF Stored, storeVars
    <3>2. InUse(Owner[x])' /\ Owner[x] \notin condemned /\ x \notin forgotten
      BY <1>1, <3>1 DEF Readable, histVars
    <3>3. Owner[x] \in Chunk /\ Owner[x] # c
      BY <2>8, <3>2, OwnerAssumption
    <3>4. x \notin init_todo BY <1>0, <3>3 DEF Initialising, Slots
    <3> QED BY <2>7, <3>1, <3>2, <3>3, <3>4 DEF Stored, Readable
  <2> QED BY <1>1, <2>5, <2>9 DEF Settles, heapVars
<1> QED BY <1>2, <1>3

(* Steps of the collector, of initialisers, of C's free and of Python code *)
(* that change no pointer the program goes on reading.                     *)
LEMMA QuietSettles ==
  ASSUME IInv, Phases, Initialising,
         \/ CFreeSweep \/ CFreeEnd \/ ClearEnd \/ EndInit \/ UNCHANGED vars
         \/ AttributesFail
         \/ \E p \in Proxy : ClearStart(p) \/ PyIncref(p) \/ PyDecref(p) \/ Reinit(p)
                           \/ ReadAttribute(p) \/ CallbackLeaks(p)
         \/ \E s \in Slot : ClearSlot(s) \/ InitZero(s)
         \/ \E g \in 0..OldestGen : Collect(g)
  PROVE  Settles
<1> USE DistinctAssumption
<1>0. TypeOK BY DEF IInv
<1>1. /\ UNCHANGED <<policies, proxy_dict, p_ptr, notify_dest>>
      /\ condemned \subseteq condemned' /\ forgotten \subseteq forgotten'
      /\ init_fresh => init_fresh' \/ init_todo = {}
    BY DEF CFreeSweep, CFreeEnd, ClearEnd, EndInit, ClearStart, PyIncref, PyDecref,
       Reinit, AttributesFail, ReadAttribute, CallbackLeaks, ClearSlot, InitZero, Collect,
       SweepSlot, heapVars, histVars, proxyVars, storeVars, initVars, vars, Phases, Idle
<1>2. \A q \in Proxy : Holds(q)' => Holds(q)
  <2>1. \/ UNCHANGED pyrefs
        \/ \E p \in Proxy : /\ Holds(p)
                           /\ \/ pyrefs' = [pyrefs EXCEPT ![p] = @ - 1]
                              \/ pyrefs' = [pyrefs EXCEPT ![p] = @ + 1]
    BY DEF CFreeSweep, CFreeEnd, ClearEnd, EndInit, ClearStart, PyIncref, PyDecref,
       Reinit, AttributesFail, ReadAttribute, CallbackLeaks, ClearSlot, InitZero, Collect,
       SweepSlot, proxyVars, vars
  <2>2. \A p, q \in Proxy :
          Holds(p) /\ \/ pyrefs' = [pyrefs EXCEPT ![p] = @ - 1]
                      \/ pyrefs' = [pyrefs EXCEPT ![p] = @ + 1]
            => (Holds(q)' => Holds(q))
    BY <1>0, BoundAssumption DEF Holds, TypeOK
  <2> QED BY <2>1, <2>2 DEF Holds
<1>3. ASSUME NEW s \in Slot, UNCHANGED <<pointing_dict, frame, caller, pc>> \/ DelRef(s),
             \A x \in Place : Stored(x)' /\ field'[x] # NULL =>
               x # s /\ field'[x] = field[x] /\ (x \in init_todo => x \in init_todo'),
             init_fresh => init_fresh'
      PROVE  Settles
  <2>1. s \in Loc /\ s \in Place BY DEF Loc, Place
  <2>2. /\ \A p \in Proxy : pc'[p] = "idle" => pc[p] = "idle"
        /\ \A l \in Loc : pointing_dict'[l] \in {pointing_dict[l], NULL}
        /\ \A l \in Loc : l # s => pointing_dict'[l] = pointing_dict[l]
    <3>1. CASE UNCHANGED <<pointing_dict, frame, caller, pc>> BY <3>1
    <3>2. CASE DelRef(s) BY <1>0, <2>1, <3>2, DelRefEffect DEF TypeOK
    <3> QED BY <1>3, <3>1, <3>2
  <2>3. \A x \in Place : Stored(x)' /\ field'[x] # NULL =>
            /\ x # notify_dest /\ field'[x] = field[x]
            /\ pointing_dict'[x] = pointing_dict[x]
            /\ init_fresh /\ x \in init_todo => init_fresh' /\ x \in init_todo'
    BY <1>1, <1>3, <2>2 DEF Stored, Loc
  <2> QED BY <1>1, <1>2, <2>2, <2>3, SettlesByRefs
<1>4. ASSUME UNCHANGED <<field, pointing_dict>>, init_todo \subseteq init_todo',
             \/ UNCHANGED stackVars \/ \E q \in Proxy : pc[q] = "idle" /\ DecRef(q)
      PROVE  Settles
  <2>1. \A p \in Proxy : pc'[p] = "idle" => pc[p] = "idle"
    BY <1>0, <1>4, DecRefEffect DEF stackVars
  <2>2. \A x \in Place : Stored(x)' /\ field'[x] # NULL =>
            /\ x # notify_dest /\ field'[x] = field[x]
            /\ pointing_dict'[x] = pointing_dict[x]
            /\ init_fresh /\ x \in init_todo => init_fresh' /\ x \in init_todo'
    BY <1>1, <1>4 DEF Stored
  <2>3. \A l \in Loc : pointing_dict'[l] \in {pointing_dict[l], NULL} BY <1>4
  <2> QED BY <1>1, <1>2, <2>1, <2>2, <2>3, SettlesByRefs
<1>5. CASE CFreeSweep
  <2>1. PICK s \in Slots(freeing) : SweepSlot(s) BY <1>5 DEF CFreeSweep
  <2>2. s \in Slot /\ s \in Place BY <2>1 DEF Slots, Place
  <2>3. UNCHANGED initVars /\ (UNCHANGED <<pointing_dict, frame, caller, pc>> \/ DelRef(s))
    BY <2>1 DEF SweepSlot, stackVars
  <2>4. \A x \in Place : field'[x] # NULL => x # s /\ field'[x] = field[x]
    BY <1>0, <2>1, <2>2 DEF SweepSlot, TypeOK
  <2> QED BY <1>3, <2>2, <2>3, <2>4 DEF initVars
<1>6. CASE \E s \in Slot : ClearSlot(s)
  <2>1. PICK s \in Slot : ClearSlot(s) BY <1>6
  <2>2. UNCHANGED initVars /\ DelRef(s) /\ UNCHANGED heapVars BY <2>1 DEF ClearSlot
  <2>3. ~Readable(s)'
    BY <2>1 DEF ClearSlot, Readable
  <2> QED BY <1>3, <2>2, <2>3 DEF initVars, heapVars, Stored
<1>7. CASE \E s \in Slot : InitZero(s)
  <2>1. PICK s \in Slot : InitZero(s) BY <1>7
  <2>2. s \in Place BY DEF Place
  <2>3. \A x \in Place : field'[x] # NULL => x # s /\ field'[x] = field[x]
    BY <1>0, <2>1, <2>2 DEF InitZero, TypeOK
  <2>4. /\ init_todo' = init_todo \ {s} /\ UNCHANGED <<init_fresh, pointing_dict>>
        /\ UNCHANGED <<frame, caller, pc>>
    BY <2>1 DEF InitZero, stackVars
  <2> QED BY <1>3, <2>3, <2>4
<1>8. CASE ClearEnd \/ \E p \in Proxy : PyDecref(p)
  <2>1. \E q \in Proxy : pc[q] = "idle" /\ DecRef(q)
    BY <1>0, <1>8, Referenced DEF ClearEnd, PyDecref, Holds, TypeOK
  <2> QED BY <1>4, <1>8, <2>1 DEF ClearEnd, PyDecref, heapVars, initVars
<1>9. CASE \/ CFreeEnd \/ AttributesFail \/ EndInit \/ UNCHANGED vars
           \/ \E p \in Proxy : ClearStart(p) \/ PyIncref(p) \/ Reinit(p)
                             \/ ReadAttribute(p) \/ CallbackLeaks(p)
           \/ \E g \in 0..OldestGen : Collect(g)
  <2>1. UNCHANGED <<field, pointing_dict, stackVars>> /\ init_todo \subseteq init_todo'
    BY <1>9 DEF CFreeEnd, AttributesFail, ReadAttribute, CallbackLeaks, EndInit,
       ClearStart, PyIncref, Reinit, Collect, vars, heapVars, initVars, Phases,
       Initialising, Idle
  <2> QED BY <1>4, <2>1
<1> QED BY <1>5, <1>6, <1>7, <1>8, <1>9

-----------------------------------------------------------------------------
(* Steps that write memory or register proxies.                            *)

HeldOk ==
  \A q \in Proxy : Holds(q) =>
    p_ptr[q] \in Chunk /\ GcManaged(p_ptr[q]) /\ InUse(p_ptr[q])

LEMMA HeldAlways == IInv => HeldOk
BY HeldRegistered DEF HeldOk

LEMMA HeldLater == IInv' => HeldOk'
BY HeldAlways, PTL

(* The write of an announced store. *)
LEMMA FinishStoreEffect ==
  ASSUME IInv, FinishStore
  PROVE  /\ notify_dest \in Loc /\ notify_dest \in Place
         /\ field' = [field EXCEPT ![notify_dest] = notify_val]
         /\ pointing_dict' = IF GcManaged(notify_val)
                             THEN [pointing_dict EXCEPT ![notify_dest] =
                                                          proxy_dict[notify_val]]
                             ELSE pointing_dict
         /\ \A x \in Place : x # notify_dest /\ Stored(x)' =>
              Stored(x) /\ field'[x] = field[x] /\ pointing_dict'[x] = pointing_dict[x]
<1> USE DistinctAssumption
<1>0. TypeOK BY DEF IInv
<1>1. /\ notify_dest \in Loc /\ notify_dest \in Place
      /\ field' = [field EXCEPT ![notify_dest] = notify_val]
      /\ forgotten' = forgotten \ {notify_dest}
      /\ UNCHANGED <<policies, condemned, proxy_dict, initVars>>
  BY <1>0 DEF FinishStore, TypeOK, Loc
<1>2. pointing_dict' = IF GcManaged(notify_val)
                       THEN [pointing_dict EXCEPT ![notify_dest] = proxy_dict[notify_val]]
                       ELSE pointing_dict
  BY DEF FinishStore, AddRefTo
<1>3. pc' = pc \/ \E q \in Proxy : pc' = [pc EXCEPT ![q] = "unregister"]
  <2>1. CASE GcManaged(notify_val)
    <3>1. AddRefTo(proxy_dict[notify_val], notify_dest) BY <2>1 DEF FinishStore
    <3>2. CASE pointing_dict[notify_dest] = NULL
      BY <3>1, <3>2 DEF AddRefTo, NoDealloc, stackVars
    <3>3. CASE pointing_dict[notify_dest] # NULL
      <4>1. pointing_dict[notify_dest] \in Proxy BY <1>0, <1>1, <3>3 DEF TypeOK
      <4> QED BY <3>1, <3>3, <4>1 DEF AddRefTo, NoDealloc, EnterDealloc, stackVars
    <3> QED BY <3>2, <3>3
  <2>2. CASE ~GcManaged(notify_val) BY <2>2 DEF FinishStore, stackVars
  <2> QED BY <2>1, <2>2
<1>4. \A c \in Chunk : InUse(c)' => InUse(c)
  <2>1. \A q \in Proxy : pc'[q] = "idle" => pc[q] = "idle" BY <1>0, <1>3 DEF TypeOK
  <2> QED BY <1>1, <2>1, InUseStays
<1>5. ASSUME NEW x \in Place, x # notify_dest, Stored(x)'
      PROVE  Stored(x) /\ field'[x] = field[x] /\ pointing_dict'[x] = pointing_dict[x]
  <2>1. Readable(x)' /\ x \in Loc BY <1>5 DEF Stored, Loc
  <2>2. Readable(x)
    BY <1>1, <1>4, <1>5, <2>1, OwnerAssumption DEF Readable, initVars
  <2> QED BY <1>0, <1>1, <1>2, <1>5, <2>1, <2>2 DEF Stored, TypeOK
<1> QED BY <1>1, <1>2, <1>5

LEMMA FinishStoreTracked ==
  ASSUME PInv, FinishStore PROVE Tracked'
<1> USE DistinctAssumption
<1>0. IInv /\ TypeOK /\ Tracked BY DEF PInv, IInv
<1>1. SUFFICES ASSUME NEW x \in Place, Stored(x)', field'[x] # NULL
               PROVE  "manual" \in policies'[field'[x]] \/ Recorded(x)'
  BY DEF Tracked
<1>2. UNCHANGED <<policies, proxy_dict>> /\ notify_dest # NULL BY DEF FinishStore
<1>3. CASE x = notify_dest
  <2>1. field'[x] = notify_val /\ notify_val # NULL /\ notify_val \in Chunk
    BY <1>0, <1>1, <1>3, FinishStoreEffect DEF TypeOK
  <2>2. Live(notify_val) BY <1>2, <2>1, ValueAlive
  <2>3. "manual" \in policies[notify_val] \/ GcManaged(notify_val)
    BY <1>0, <2>1, <2>2 DEF Live, GcManaged, TypeOK
  <2>4. GcManaged(notify_val) =>
          pointing_dict'[x] = proxy_dict[notify_val] /\ proxy_dict[notify_val] # NULL
    BY <1>0, <1>3, <2>1, FinishStoreEffect DEF IInv, Shape, PolicyHasProxy, TypeOK
  <2> QED BY <1>2, <2>1, <2>3, <2>4 DEF Recorded
<1>4. CASE x # notify_dest
  <2>1. Stored(x) /\ field'[x] = field[x] /\ pointing_dict'[x] = pointing_dict[x]
    BY <1>0, <1>1, <1>4, FinishStoreEffect
  <2> QED BY <1>0, <1>1, <1>2, <2>1 DEF Tracked, Recorded
<1> QED BY <1>3, <1>4

(* Memory is allocated: no place becomes readable outside it. *)
LEMMA NewChunkReads ==
  ASSUME IInv, Phases, NEW c \in Chunk,
         (\E p \in Proxy : Construct(p, c)) \/ \E v \in Var : CMalloc(c, v)
  PROVE  /\ \A d \in Chunk : d # c => policies'[d] = policies[d]
                                      /\ proxy_dict'[d] = proxy_dict[d]
         /\ \A x \in Place : Stored(x)' /\ field'[x] # NULL =>
              \/ field'[x] = c /\ "manual" \in policies'[c]
              \/ Stored(x) /\ x \notin Slots(c) /\ field'[x] = field[x]
<1> USE DistinctAssumption
<1>0. TypeOK /\ Idle /\ ~init_fresh BY DEF IInv, Construct, CMalloc, Idle, Phases
<1>1. /\ \A d \in Chunk : d # c => policies'[d] = policies[d]
                                   /\ proxy_dict'[d] = proxy_dict[d]
      /\ UNCHANGED <<histVars, pc, notify_dest>>
  BY <1>0 DEF Construct, Register, CMalloc, TypeOK, stackVars, storeVars
<1>2. \A x \in Place : Stored(x)' /\ field'[x] # NULL =>
        \/ field'[x] = c /\ "manual" \in policies'[c]
        \/ x \notin Slots(c) /\ field'[x] = field[x]
  <2>1. CASE \E p \in Proxy : Construct(p, c)
    <3>1. init_todo' = Slots(c) /\ init_fresh' BY <2>1 DEF Construct
    <3>2. \A x \in Slots(c) : ~Readable(x)' BY <3>1 DEF Readable, Slots
    <3>3. \A x \in Place : x \notin Slots(c) => field'[x] = field[x]
      BY <2>1 DEF Construct
    <3> QED BY <3>2, <3>3 DEF Stored
  <2>2. CASE \E v \in Var : CMalloc(c, v)
    BY <1>0, <2>2 DEF CMalloc, TypeOK
  <2> QED BY <2>1, <2>2
<1>3. ASSUME NEW x \in Place, Stored(x)', x \notin Slots(c) PROVE Stored(x)
  <2>1. \A d \in Chunk : d # c /\ InUse(d)' => InUse(d)
    BY <1>1 DEF InUse, GcManaged
  <2>2. Readable(x)' BY <1>3 DEF Stored
  <2>3. Readable(x)
    BY <1>0, <1>1, <1>3, <2>1, <2>2, OwnerAssumption DEF Readable, Slots, histVars
  <2> QED BY <1>1, <1>3, <2>3 DEF Stored
<1> QED BY <1>1, <1>2, <1>3

LEMMA AllocateTracked ==
  ASSUME PInv, NEW c \in Chunk,
         (\E p \in Proxy : Construct(p, c)) \/ \E v \in Var : CMalloc(c, v)
  PROVE  Tracked'
<1>0. IInv /\ TypeOK /\ Tracked /\ Phases BY DEF PInv, IInv
<1>1. SUFFICES ASSUME NEW x \in Place, Stored(x)', field'[x] # NULL
               PROVE  "manual" \in policies'[field'[x]] \/ Recorded(x)'
  BY DEF Tracked
<1>2. CASE Stored(x) /\ field'[x] = field[x]
  <2>1. ~Live(c) /\ UNCHANGED pointing_dict BY DEF Construct, CMalloc
  <2>2. field[x] \in Chunk /\ field[x] # c
    BY <1>0, <1>1, <1>2, <2>1, TrackedAlive DEF TypeOK
  <2>3. policies'[field[x]] = policies[field[x]] /\ proxy_dict'[field[x]] = proxy_dict[field[x]]
    BY <1>0, <2>2, NewChunkReads
  <2> QED BY <1>0, <1>1, <1>2, <2>1, <2>3 DEF Tracked, Recorded
<1> QED BY <1>0, <1>1, <1>2, NewChunkReads

(* C frees a chunk. *)
LEMMA CFreeReads ==
  ASSUME IInv, NEW c \in Chunk, CFree(c)
  PROVE  \A x \in Place : Stored(x)' => Stored(x)
<1>0. TypeOK BY DEF IInv
<1>1. /\ policies' = [policies EXCEPT ![c] = @ \ {"manual"}]
      /\ policies[c] # {"manual"} => UNCHANGED histVars
      /\ policies[c] = {"manual"} => Forget(c)
      /\ UNCHANGED <<proxy_dict, notify_dest, pc, init_fresh, init_todo>>
  BY DEF CFree, stackVars, initVars
<1>2. \A d \in Chunk : InUse(d)' => InUse(d)
  BY <1>0, <1>1 DEF InUse, GcManaged, TypeOK
<1>3. CASE policies[c] = {"manual"}
  <2>1. \A d \in Chunk : InUse(d)' => d # c
    BY <1>0, <1>1, <1>3 DEF InUse, GcManaged, TypeOK
  <2>2. /\ \A d \in Chunk : InUse(d)' => InUse(d) /\ (d \in condemned => d \in condemned')
        /\ \A s \in Slot : InUse(Owner[s])' /\ s \in forgotten => s \in forgotten'
    BY <1>1, <1>2, <1>3, <2>1, OwnerAssumption DEF Forget, Slots
  <2> QED BY <1>1, <2>2, ReadableStays DEF Stored
<1>4. CASE policies[c] # {"manual"}
  BY <1>1, <1>2, <1>4, ReadableStays DEF histVars, Stored
<1> QED BY <1>3, <1>4

(* What C frees, it has no untracked pointer to any more. *)
LEMMA CFreeTracked ==
  ASSUME PInv, NEW c \in Chunk, CFree(c) PROVE Tracked'
<1> USE DistinctAssumption
<1>0. IInv /\ TypeOK /\ Tracked BY DEF PInv, IInv
<1>1. /\ policies' = [policies EXCEPT ![c] = @ \ {"manual"}]
      /\ UNCHANGED <<field, proxy_dict, pointing_dict>>
  BY DEF CFree
<1>2. SUFFICES ASSUME NEW x \in Place, Stored(x)', field'[x] # NULL
               PROVE  "manual" \in policies'[field'[x]] \/ Recorded(x)'
  BY DEF Tracked
<1>3. Stored(x) /\ field[x] \in Chunk BY <1>0, <1>1, <1>2, CFreeReads DEF TypeOK
<1>4. "manual" \in policies[field[x]] \/ Recorded(x)
  BY <1>0, <1>1, <1>2, <1>3 DEF Tracked
<1>5. CASE field[x] = c
  <2>1. Recorded(x) BY <1>2, <1>3, <1>5 DEF CFree, Recorded, Stored
  <2> QED BY <1>1, <2>1 DEF Recorded
<1>6. CASE field[x] # c
  BY <1>0, <1>1, <1>3, <1>4, <1>6 DEF Recorded, TypeOK
<1> QED BY <1>5, <1>6

(* Python asks for a proxy: its base is there already, or is created for   *)
(* memory C owns.                                                          *)
LEMMA ReturnReads ==
  ASSUME IInv, NEW c \in Chunk, NEW b \in Proxy,
         ReturnBase(c, b) \/ \E d \in Proxy : ReturnDerived(c, b, d)
  PROVE  /\ \/ UNCHANGED <<policies, proxy_dict>> /\ proxy_dict[c] = b
            \/ /\ proxy_dict[c] = NULL /\ "manual" \in policies[c] /\ NoObject(b)
               /\ policies' = [policies EXCEPT ![c] = @ \cup {"gc"}]
               /\ proxy_dict' = [proxy_dict EXCEPT ![c] = b]
         /\ \A x \in Place : /\ Stored(x)' => Stored(x)
                             /\ field'[x] = field[x] /\ pointing_dict'[x] = pointing_dict[x]
<1> USE DistinctAssumption
<1>0. TypeOK /\ Idle BY DEF IInv, ReturnBase, ReturnDerived
<1>1. /\ GetOrCreateBase(c, b) /\ Live(c)
      /\ UNCHANGED <<field, histVars, notify_dest, pc, init_fresh, init_todo>>
      /\ \A x \in Place : pointing_dict'[x] = pointing_dict[x]
  <2>1. CASE ReturnBase(c, b)
    BY <2>1 DEF ReturnBase, Decodable, storeVars, stackVars, initVars
  <2>2. CASE \E d \in Proxy : ReturnDerived(c, b, d)
    <3>1. PICK d \in Proxy : ReturnDerived(c, b, d) BY <2>2
    <3>2. \A x \in Place : x \in Loc /\ x # d BY DEF Place, Loc
    <3> QED BY <1>0, <3>1, <3>2 DEF ReturnDerived, Decodable, storeVars, stackVars,
            initVars, TypeOK
  <2> QED BY <2>1, <2>2
<1>2. \/ UNCHANGED <<policies, proxy_dict>> /\ proxy_dict[c] = b
      \/ /\ proxy_dict[c] = NULL /\ "manual" \in policies[c] /\ NoObject(b)
         /\ policies' = [policies EXCEPT ![c] = @ \cup {"gc"}]
         /\ proxy_dict' = [proxy_dict EXCEPT ![c] = b]
  <2>1. CASE proxy_dict[c] = NULL
    <3>1. ~GcManaged(c) BY <2>1 DEF IInv, Shape, PolicyHasProxy
    <3>2. "manual" \in policies[c] BY <1>0, <1>1, <3>1 DEF Live, GcManaged, TypeOK
    <3> QED BY <1>1, <2>1, <3>2 DEF GetOrCreateBase, Register
  <2>2. CASE proxy_dict[c] # NULL BY <1>1, <2>2 DEF GetOrCreateBase
  <2> QED BY <2>1, <2>2
<1>3. \A d \in Chunk : InUse(d)' => InUse(d)
  BY <1>0, <1>1, <1>2 DEF InUse, GcManaged, TypeOK
<1>4. \A x \in Place : Stored(x)' => Stored(x)
  BY <1>1, <1>3, ReadableStays DEF histVars, Stored
<1> QED BY <1>1, <1>2, <1>4

LEMMA ReturnTracked ==
  ASSUME PInv, NEW c \in Chunk, NEW b \in Proxy,
         ReturnBase(c, b) \/ \E d \in Proxy : ReturnDerived(c, b, d)
  PROVE  Tracked'
<1> USE DistinctAssumption
<1>0. IInv /\ TypeOK /\ Tracked BY DEF PInv, IInv
<1>1. SUFFICES ASSUME NEW x \in Place, Stored(x)', field'[x] # NULL
               PROVE  "manual" \in policies'[field'[x]] \/ Recorded(x)'
  BY DEF Tracked
<1>2. /\ Stored(x) /\ field'[x] = field[x] /\ pointing_dict'[x] = pointing_dict[x]
      /\ field[x] \in Chunk
  BY <1>0, <1>1, ReturnReads DEF TypeOK
<1>3. "manual" \in policies[field[x]] \/ Recorded(x)
  BY <1>0, <1>1, <1>2 DEF Tracked
<1>4. \/ UNCHANGED <<policies, proxy_dict>>
      \/ /\ proxy_dict[c] = NULL
         /\ policies' = [policies EXCEPT ![c] = @ \cup {"gc"}]
         /\ proxy_dict' = [proxy_dict EXCEPT ![c] = b]
  BY <1>0, ReturnReads
<1> QED BY <1>0, <1>2, <1>3, <1>4 DEF Recorded, TypeOK

LEMMA TrackedKept ==
  ASSUME PInv, [Next]_vars PROVE Tracked'
<1>0. IInv /\ Tracked /\ Phases /\ Initialising /\ Fresh BY DEF PInv
<1>1. CASE Dealloc BY <1>0, <1>1, DeallocSettles, SettlesTracked
<1>2. CASE FinishStore BY <1>2, FinishStoreTracked
<1>3. CASE \/ \E p \in Proxy, s \in Slot, val \in Chunk \cup {NULL} : SetField(p, s, val)
           \/ \E dest \in Place, val \in Chunk \cup {NULL} : CWrite(dest, val)
           \/ \E s \in Slot, val \in Chunk \cup {NULL} : InitStore(s, val)
  BY <1>0, <1>3, StoresSettle, SettlesTracked
<1>4. CASE InitFail BY <1>0, <1>4, InitFailSettles, SettlesTracked
<1>5. CASE \/ CFreeSweep \/ CFreeEnd \/ ClearEnd \/ EndInit \/ UNCHANGED vars
           \/ AttributesFail
           \/ \E p \in Proxy : ClearStart(p) \/ PyIncref(p) \/ PyDecref(p) \/ Reinit(p)
                             \/ ReadAttribute(p) \/ CallbackLeaks(p)
           \/ \E s \in Slot : ClearSlot(s) \/ InitZero(s)
           \/ \E g \in 0..OldestGen : Collect(g)
  BY <1>0, <1>5, QuietSettles, SettlesTracked
<1>6. CASE \E c \in Chunk : \/ \E p \in Proxy : Construct(p, c)
                            \/ \E v \in Var : CMalloc(c, v)
  BY <1>6, AllocateTracked
<1>7. CASE \E c \in Chunk : CFree(c) BY <1>7, CFreeTracked
<1>8. CASE \E c \in Chunk, b \in Proxy :
             ReturnBase(c, b) \/ \E d \in Proxy : ReturnDerived(c, b, d)
  BY <1>8, ReturnTracked
<1> QED BY <1>1, <1>2, <1>3, <1>4, <1>5, <1>6, <1>7, <1>8
        DEF Next, Runtime, PythonStep, CStep

-----------------------------------------------------------------------------
(* What is being stored stays safe.                                        *)

(* A deallocation frees nothing Python holds, and C's variables are not    *)
(* in the chunks it sweeps.                                                *)
LEMMA DeallocKeeps ==
  ASSUME IInv, IInv', Dealloc
  PROVE  /\ UNCHANGED <<pyrefs, leaked, notify_dest, notify_val, initVars>>
         /\ frame # NULL /\ condemned' \subseteq condemned /\ forgotten' \subseteq forgotten
         /\ \A q \in Proxy : Holds(q) => Holds(q)' /\ p_ptr'[q] = p_ptr[q]
         /\ \A c \in Chunk : Held(c) => Held(c)' /\ InUse(c)'
         /\ \A x \in Place : field'[x] = field[x]
                             \/ (x \in Slot /\ policies[Owner[x]] = {})
<1> USE DistinctAssumption
<1>0. IInv /\ TypeOK /\ Shape /\ HeldOk /\ HeldOk'
  BY HeldAlways, HeldLater DEF IInv
<1>1. Settles BY <1>0, DeallocSettles
<1>2. PICK p \in Proxy : \/ Unregister(p) \/ Sweep(p) \/ EndSweep(p) \/ Unmap(p)
                        \/ DropOwnRef(p) \/ FreeObject(p)
  BY DEF Dealloc
<1>3. /\ UNCHANGED <<pyrefs, leaked, notify_dest, notify_val, initVars>>
      /\ frame = p /\ condemned' \subseteq condemned /\ forgotten' \subseteq forgotten
  BY <1>2 DEF Unregister, Sweep, EndSweep, Unmap, DropOwnRef, FreeObject, SweepSlot,
     Forget, proxyVars, storeVars, histVars
<1>4. \A q \in Proxy : Holds(q) => Holds(q)' /\ p_ptr'[q] = p_ptr[q]
  BY <1>0, <1>1, <1>3 DEF Holds, HeldOk, Settles
<1>5. \A c \in Chunk : Held(c) => Held(c)' /\ InUse(c)' BY <1>0, <1>4 DEF Held, HeldOk
<1>6. \A x \in Place : field'[x] = field[x]
                       \/ (x \in Slot /\ policies[Owner[x]] = {})
  <2>1. CASE Sweep(p)
    <3>1. PICK s \in Slots(p_ptr[p]) : field' = [field EXCEPT ![s] = NULL]
      BY <2>1 DEF Sweep, SweepSlot
    <3>2. s \in Slot /\ policies[Owner[s]] = {}
      BY <1>0, <2>1, <3>1 DEF Sweep, Slots, Shape, Sweeping
    <3> QED BY <1>0, <3>1, <3>2 DEF TypeOK
  <2>2. CASE Unregister(p) \/ EndSweep(p) \/ Unmap(p) \/ DropOwnRef(p) \/ FreeObject(p)
    BY <2>2 DEF Unregister, EndSweep, Unmap, DropOwnRef, FreeObject, heapVars
  <2> QED BY <1>2, <2>1, <2>2
<1> QED BY <1>3, <1>4, <1>5, <1>6

LEMMA ValueSafeDealloc ==
  ASSUME PInv, IInv', Dealloc PROVE ValueSafe'
<1> USE DistinctAssumption
<1>0. IInv /\ TypeOK /\ HeldOk BY HeldAlways DEF PInv, IInv
<1>1. Settles BY <1>0, DeallocSettles
<1>2. /\ UNCHANGED <<pyrefs, leaked, notify_dest, notify_val, init_fresh, init_todo>>
      /\ frame # NULL /\ condemned' \subseteq condemned /\ forgotten' \subseteq forgotten
  BY <1>0, DeallocKeeps DEF initVars
<1>3. \A q \in Proxy : Holds(q) => Holds(q)' /\ p_ptr'[q] = p_ptr[q]
  BY <1>0, DeallocKeeps
<1>4. \A c \in Chunk : Held(c) => Held(c)' /\ InUse(c)' BY <1>0, DeallocKeeps
<1>5. \A x \in Place : field'[x] = field[x]
                       \/ (x \in Slot /\ policies[Owner[x]] = {})
  BY <1>0, DeallocKeeps
<1>6. SUFFICES ASSUME notify_dest' # NULL, notify_val' # NULL
               PROVE  \/ "manual" \in policies'[notify_val'] \/ Held(notify_val)'
                      \/ \E v \in Var : TakenFrom(v)'
                      \/ \E s \in Slot : TakenFrom(s)' /\ Readable(s)' /\ Held(Owner[s])'
  BY DEF ValueSafe
<1>7. notify_val \in Chunk /\ notify_dest # NULL /\ notify_val # NULL
  BY <1>0, <1>2, <1>6 DEF TypeOK
<1>8. CASE "manual" \in policies[notify_val] BY <1>1, <1>2, <1>7, <1>8 DEF Settles
<1>9. CASE Held(notify_val)
  <2>1. PICK q \in Proxy : Holds(q) /\ p_ptr[q] = notify_val BY <1>9 DEF Held
  <2> QED BY <1>2, <1>3, <2>1 DEF Held
<1>10. CASE \E v \in Var : TakenFrom(v)
  <2>1. PICK v \in Var : TakenFrom(v) BY <1>10
  <2>2. v \in Place /\ v \notin Slot BY DEF Place
  <2>3. TakenFrom(v)' BY <1>2, <1>5, <2>1, <2>2 DEF TakenFrom
  <2> QED BY <2>3
<1>11. CASE \E s \in Slot : TakenFrom(s) /\ Readable(s) /\ Held(Owner[s])
  <2>1. PICK s \in Slot : TakenFrom(s) /\ Readable(s) /\ Held(Owner[s]) BY <1>11
  <2>2. s \in Place /\ s \notin Var /\ Owner[s] \in Chunk
    BY OwnerAssumption DEF Place
  <2>3. PICK q \in Proxy : Holds(q) /\ p_ptr[q] = Owner[s] BY <2>1 DEF Held
  <2>4. GcManaged(Owner[s]) BY <1>0, <2>3 DEF HeldOk
  <2>5. field'[s] = field[s] BY <1>5, <2>2, <2>4 DEF GcManaged
  <2>6. Holds(q)' /\ p_ptr'[q] = Owner[s] BY <1>3, <2>3
  <2>7. InUse(Owner[s])' BY <1>4, <2>1, <2>2
  <2>8. Readable(s)' BY <1>2, <2>1, <2>2, <2>7 DEF Readable
  <2>9. TakenFrom(s)' BY <1>2, <2>1, <2>5 DEF TakenFrom
  <2> QED BY <2>6, <2>8, <2>9 DEF Held
<1> QED BY <1>2, <1>7, <1>8, <1>9, <1>10, <1>11 DEF PInv, ValueSafe

(* A store begins with a value somebody else keeps. *)
LEMMA ValueSafeBegin ==
  ASSUME PInv, IInv',
         \/ \E p \in Proxy, s \in Slot, val \in Chunk \cup {NULL} : SetField(p, s, val)
         \/ \E dest \in Place, val \in Chunk \cup {NULL} : CWrite(dest, val)
         \/ \E s \in Slot, val \in Chunk \cup {NULL} : InitStore(s, val)
  PROVE  ValueSafe'
<1> USE DistinctAssumption
<1>0. IInv /\ TypeOK /\ Initialising /\ Tracked /\ HeldOk'
  BY HeldLater DEF PInv, IInv
<1>1. PICK dest \in Place, val \in Chunk \cup {NULL} :
        \/ \E p \in Proxy : dest \in Slot /\ SetField(p, dest, val)
        \/ CWrite(dest, val)
        \/ dest \in Slot /\ InitStore(dest, val)
  BY DEF Place
<1>2. /\ Quiet /\ BeginStore(dest, val) /\ init_todo' \subseteq init_todo
      /\ UNCHANGED <<heapVars, histVars, p_ptr, pyrefs, leaked, proxy_dict, init_fresh>>
      /\ notify_dest' = dest /\ notify_val' = val
  BY <1>1 DEF SetField, CWrite, InitStore, BeginStore, Idle, initVars
<1>3. SUFFICES ASSUME val # NULL, val \in Chunk PROVE ValueSafe'
  BY <1>2 DEF ValueSafe
<1>4. CASE val \in PyValues
  <2>1. PICK q \in Proxy : Holds(q) /\ p_ptr[q] = val BY <1>3, <1>4 DEF PyValues
  <2>2. Holds(q)' /\ p_ptr'[q] = notify_val' BY <1>2, <2>1 DEF Holds
  <2> QED BY <2>2 DEF ValueSafe, Held
<1>5. CASE \E v \in Var : v # dest /\ val = field[v]
  <2>1. PICK v \in Var : v # dest /\ val = field[v] BY <1>5
  <2>2. TakenFrom(v)' BY <1>2, <2>1 DEF TakenFrom, heapVars
  <2> QED BY <2>2 DEF ValueSafe
<1>6. CASE \E s \in Slot : /\ s # dest /\ Readable(s) /\ val = field[s]
                           /\ \E q \in Proxy : Holds(q) /\ p_ptr[q] = Owner[s]
  <2>1. PICK s \in Slot : /\ s # dest /\ Readable(s) /\ val = field[s]
                          /\ \E q \in Proxy : Holds(q) /\ p_ptr[q] = Owner[s]
    BY <1>6
  <2>2. PICK q \in Proxy : Holds(q) /\ p_ptr[q] = Owner[s] BY <2>1
  <2>3. Holds(q)' /\ p_ptr'[q] = Owner[s] BY <1>2, <2>2 DEF Holds
  <2>4. InUse(Owner[s])' BY <1>0, <2>3 DEF HeldOk
  <2>5. Readable(s)' BY <1>2, <2>1, <2>4 DEF Readable, histVars
  <2>6. TakenFrom(s)' BY <1>2, <2>1 DEF TakenFrom, heapVars
  <2> QED BY <2>3, <2>5, <2>6 DEF ValueSafe, Held
<1>7. CASE \E s \in Slot : /\ Readable(s) /\ val = field[s]
                           /\ dest \in Var /\ field[dest] = NULL
  <2>1. PICK s \in Slot : /\ Readable(s) /\ val = field[s]
                          /\ dest \in Var /\ field[dest] = NULL
    BY <1>7
  <2>2. Stored(s) /\ s \in Place /\ field[s] # NULL
    BY <1>2, <1>3, <2>1 DEF Stored, Quiet, Place
  <2>3. Live(val) BY <1>0, <2>1, <2>2, TrackedAlive
  <2>4. frame' = NULL
    BY <1>2, <2>1 DEF BeginStore, GcManaged, Quiet, stackVars
  <2>5. Live(notify_val)' BY <1>2, <2>3 DEF Live, heapVars
  <2> QED BY <2>4, <2>5 DEF ValueSafe
<1>8. CASE dest \in Slot /\ InitStore(dest, val)
  <2>1. /\ val \in InitValues /\ dest \in init_todo /\ init_obj # NULL
    BY <1>8 DEF InitStore
  <2>2. Owner[dest] = p_ptr[init_obj] BY <1>0, <2>1 DEF Initialising, Slots
  <2>3. \A v \in Var : v # dest BY <1>8
  <2> QED BY <1>4, <1>5, <1>6, <2>1, <2>2, <2>3 DEF InitValues
<1> QED BY <1>1, <1>4, <1>5, <1>7, <1>8 DEF SetField, CWrite

LEMMA ValueSafeKept ==
  ASSUME PInv, IInv', [Next]_vars PROVE ValueSafe'
<1>1. CASE Dealloc BY <1>1, ValueSafeDealloc
<1>2. CASE \/ \E p \in Proxy, s \in Slot, val \in Chunk \cup {NULL} : SetField(p, s, val)
           \/ \E dest \in Place, val \in Chunk \cup {NULL} : CWrite(dest, val)
           \/ \E s \in Slot, val \in Chunk \cup {NULL} : InitStore(s, val)
  BY <1>2, ValueSafeBegin
<1>3. CASE UNCHANGED vars
  BY <1>3 DEF PInv, ValueSafe, TakenFrom, Held, Holds, Readable, InUse, GcManaged, Live,
     vars, heapVars, histVars, proxyVars, stackVars, storeVars, initVars
<1>4. ASSUME notify_dest' = NULL PROVE ValueSafe' BY <1>4 DEF ValueSafe
<1>5. CASE FinishStore BY <1>4, <1>5 DEF FinishStore
<1>6. CASE CFreeSweep \/ CFreeEnd
  BY <1>4, <1>6 DEF CFreeSweep, CFreeEnd, SweepSlot, storeVars, PInv, Phases
<1>7. CASE \/ ClearEnd \/ AttributesFail \/ EndInit \/ InitFail
           \/ \E p \in Proxy : ClearStart(p) \/ ReadAttribute(p)
           \/ \E s \in Slot : ClearSlot(s) \/ InitZero(s)
  BY <1>4, <1>7 DEF ClearEnd, AttributesFail, ReadAttribute, EndInit, InitFail,
     ClearStart, ClearSlot, InitZero, Quiet, storeVars
<1>8. CASE \/ \E p \in Proxy : PyIncref(p) \/ PyDecref(p) \/ CallbackLeaks(p)
                                \/ Reinit(p)
           \/ \E p \in Proxy, c \in Chunk : Construct(p, c)
           \/ \E c \in Chunk, b \in Proxy :
                ReturnBase(c, b) \/ \E d \in Proxy : ReturnDerived(c, b, d)
           \/ \E c \in Chunk : CFree(c) \/ \E v \in Var : CMalloc(c, v)
           \/ \E g \in 0..OldestGen : Collect(g)
  BY <1>4, <1>8 DEF PyIncref, PyDecref, CallbackLeaks, Reinit, Construct, ReturnBase,
     ReturnDerived, CFree, CMalloc, Collect, Idle, Quiet, storeVars
<1> QED BY <1>1, <1>2, <1>3, <1>5, <1>6, <1>7, <1>8 DEF Next, Runtime, PythonStep, CStep

-----------------------------------------------------------------------------
(* The object under construction stays unknown to everyone else.           *)

LEMMA FreshSettles ==
  ASSUME IInv, IInv', Initialising, Phases, Fresh, Settles,
         init_fresh' =>
           /\ init_fresh /\ init_obj' = init_obj /\ pyrefs'[init_obj] = pyrefs[init_obj]
           /\ leaked'[init_obj] = leaked[init_obj]
           /\ policies'[p_ptr[init_obj]] \subseteq policies[p_ptr[init_obj]]
           /\ notify_dest' # NULL => notify_val' # p_ptr[init_obj]
  PROVE  Fresh'
<1> USE DistinctAssumption
<1> SUFFICES ASSUME init_fresh' PROVE Alone(init_obj)' BY DEF Fresh
<1> DEFINE p == init_obj
           c == p_ptr[p]
<1>0. IInv /\ TypeOK /\ HeldOk /\ HeldOk' BY HeldAlways, HeldLater DEF IInv
<1>1. init_fresh /\ init_obj # NULL /\ p \in Proxy /\ Alone(p)
  BY <1>0 DEF Fresh, Phases, TypeOK
<1>2. init_obj' = p /\ pyrefs'[p] = 1 /\ leaked'[p] = 0 BY <1>1 DEF Alone
<1>3. Holds(p) /\ pyrefs'[p] > 0 BY <1>1, <1>2 DEF Alone, Holds
<1>4. p_ptr'[p] = c /\ c \in Chunk
  BY <1>0, <1>1, <1>3 DEF Settles, HeldOk, Holds
<1>5. \A q \in Proxy : q # p => p_ptr'[q] # c
  BY <1>1, <1>4 DEF Alone, Settles
<1>6. ~(p_ptr'[p] = NULL) /\ proxy_dict'[c] = p
  <2>1. GcManaged(c)'
    <3>1. \A q \in Proxy : pyrefs'[q] > 0 => GcManaged(p_ptr[q])'
      BY <1>0 DEF HeldOk, Holds
    <3> QED BY <1>1, <1>3, <1>4, <3>1 DEF GcManaged
  <2>2. TypeOK' /\ PolicyHasProxy' BY DEF IInv, Shape
  <2>3. proxy_dict'[c] # NULL /\ p_ptr'[proxy_dict'[c]] = c
    BY <1>4, <2>1, <2>2 DEF PolicyHasProxy, GcManaged
  <2>4. proxy_dict'[c] \in Proxy BY <1>4, <2>2, <2>3 DEF TypeOK
  <2> QED BY <1>4, <1>5, <2>3, <2>4
<1>7. "manual" \notin policies'[c] BY <1>1 DEF Alone
<1>8. \A l \in Loc : pointing_dict'[l] # p BY <1>1 DEF Alone, Settles
<1>9. \A x \in Place : Stored(x)' => field'[x] # c
  BY <1>1, <1>4 DEF Alone, Settles
<1> QED BY <1>2, <1>4, <1>5, <1>6, <1>7, <1>8, <1>9 DEF Alone, IsBase, NoObject

(* Nothing knows memory that malloc returns, nor a new object. *)
LEMMA FreshConstruct ==
  ASSUME PInv, Tracked', NEW p \in Proxy, NEW c \in Chunk, Construct(p, c) PROVE Fresh'
<1> USE DistinctAssumption
<1>0. IInv /\ TypeOK /\ Shape /\ Tracked /\ Phases BY DEF PInv, IInv
<1>1. /\ Idle /\ NoObject(p) /\ ~Live(c) /\ proxy_dict[c] = NULL
      /\ init_obj' = p /\ init_todo' = Slots(c) /\ init_fresh' = TRUE
      /\ p_ptr' = [p_ptr EXCEPT ![p] = c] /\ pyrefs' = [pyrefs EXCEPT ![p] = 1]
      /\ proxy_dict' = [proxy_dict EXCEPT ![c] = p]
      /\ policies' = [policies EXCEPT ![c] = @ \cup {"gc"}]
      /\ UNCHANGED <<leaked, histVars, pointing_dict, stackVars, storeVars>>
  BY DEF Construct, Register
<1>2. IsBase(p)' /\ pyrefs'[p] = 1 /\ "manual" \notin policies'[c] /\ p_ptr'[p] = c
  BY <1>0, <1>1 DEF TypeOK, IsBase, NoObject, Live
<1>3. \A q \in Proxy : q # p => p_ptr'[q] # c
  <2> SUFFICES ASSUME NEW q \in Proxy, q # p, p_ptr[q] = c PROVE FALSE
    BY <1>0, <1>1 DEF TypeOK
  <2>1. pc[q] = "idle" /\ ~NoObject(q)
    BY <1>0, <1>1, QuietIdle DEF Idle, Quiet, NoObject
  <2>2. ~IsBase(q) BY <1>1 DEF IsBase
  <2>3. pointing_dict[q] # NULL /\ p_ptr[pointing_dict[q]] = c /\ q \in Loc
    BY <1>0, <2>1, <2>2 DEF Shape, Anchored, Loc
  <2>4. IsBase(pointing_dict[q]) /\ pointing_dict[q] \in Proxy
    BY <1>0, <2>3 DEF Shape, EntriesBase, TypeOK
  <2> QED BY <1>1, <2>3, <2>4 DEF IsBase
<1>4. leaked'[p] = 0 /\ \A l \in Loc : pointing_dict'[l] # p BY <1>0, <1>1, Unborn
<1>5. \A x \in Place : Stored(x)' => field'[x] # c
  <2> SUFFICES ASSUME NEW x \in Place, Stored(x)', field'[x] = c PROVE FALSE
    OBVIOUS
  <2>1. c # NULL /\ "manual" \notin policies'[c] BY <1>2 DEF IsBase, NoObject
  <2>2. Stored(x) /\ field[x] = c BY <1>0, <2>1, NewChunkReads
  <2> QED BY <1>0, <1>1, <2>1, <2>2, TrackedAlive
<1>6. notify_dest' = NULL BY <1>1 DEF Idle, Quiet, storeVars
<1> QED BY <1>1, <1>2, <1>3, <1>4, <1>5, <1>6 DEF Fresh, Alone

LEMMA FreshFinishStore ==
  ASSUME PInv, FinishStore PROVE Fresh'
<1> USE DistinctAssumption
<1>0. IInv /\ TypeOK /\ Shape /\ Fresh /\ Phases BY DEF PInv, IInv
<1>1. /\ notify_dest # NULL /\ notify_dest' = NULL
      /\ UNCHANGED <<policies, p_ptr, pyrefs, leaked, proxy_dict, initVars>>
  BY DEF FinishStore
<1>2. SUFFICES ASSUME init_fresh PROVE Alone(init_obj)'
  BY <1>1 DEF Fresh, initVars
<1> DEFINE p == init_obj
           c == p_ptr[p]
<1>3. init_obj # NULL /\ p \in Proxy /\ Alone(p) BY <1>0, <1>2 DEF Fresh, Phases, TypeOK
<1>4. notify_val # c BY <1>1, <1>3 DEF Alone
<1>5. \A l \in Loc : pointing_dict'[l] # p
  <2>1. CASE GcManaged(notify_val)
    <3>1. notify_val \in Chunk /\ proxy_dict[notify_val] # NULL
          /\ p_ptr[proxy_dict[notify_val]] = notify_val
      BY <1>0, <2>1 DEF GcManaged, TypeOK, Shape, PolicyHasProxy
    <3>2. proxy_dict[notify_val] # p BY <1>4, <3>1
    <3> QED BY <1>0, <1>3, <2>1, <3>2, FinishStoreEffect DEF Alone, TypeOK
  <2>2. CASE ~GcManaged(notify_val)
    BY <1>0, <1>3, <2>2, FinishStoreEffect DEF Alone
  <2> QED BY <2>1, <2>2
<1>6. \A x \in Place : Stored(x)' => field'[x] # c
  <2> SUFFICES ASSUME NEW x \in Place, Stored(x)' PROVE field'[x] # c
    OBVIOUS
  <2>1. CASE x = notify_dest BY <1>0, <1>4, <2>1, FinishStoreEffect DEF TypeOK
  <2>2. CASE x # notify_dest
    BY <1>0, <1>3, <2>2, FinishStoreEffect DEF Alone
  <2> QED BY <2>1, <2>2
<1> QED BY <1>1, <1>3, <1>5, <1>6 DEF Alone, IsBase, NoObject, initVars

(* What a field is initialised from is not the new object. *)
LEMMA FreshInitStore ==
  ASSUME PInv, IInv', NEW s \in Slot, NEW val \in Chunk \cup {NULL}, InitStore(s, val)
  PROVE  Fresh'
<1> USE DistinctAssumption
<1>0. IInv /\ TypeOK /\ Initialising /\ Phases /\ Fresh BY DEF PInv, IInv
<1>1. /\ Quiet /\ val \in InitValues /\ notify_val' = val /\ init_obj # NULL
      /\ UNCHANGED <<heapVars, pyrefs, leaked, init_obj, init_fresh>>
  BY DEF InitStore, BeginStore
<1>2. Settles BY <1>0, StoresSettle
<1>3. init_fresh => val # p_ptr[init_obj]
  <2> SUFFICES ASSUME init_fresh PROVE val # p_ptr[init_obj]
    OBVIOUS
  <2>1. Alone(init_obj) /\ init_obj \in Proxy /\ p_ptr[init_obj] # NULL
    BY <1>0, <1>1 DEF Fresh, TypeOK, Alone, IsBase, NoObject
  <2>2. CASE val \in PyValues BY <2>1, <2>2 DEF PyValues, Alone
  <2>3. CASE \E x \in Place : Readable(x) /\ val = field[x]
    BY <1>1, <2>1, <2>3 DEF Alone, Stored, Quiet, Place
  <2> QED BY <1>1, <2>2, <2>3, VarStored DEF InitValues, Place
<1> QED BY <1>0, <1>1, <1>2, <1>3, FreshSettles DEF heapVars

LEMMA FreshKept ==
  ASSUME PInv, IInv', Tracked', [Next]_vars PROVE Fresh'
<1>0. IInv /\ TypeOK /\ Initialising /\ Phases /\ Fresh BY DEF PInv, IInv
<1>1. CASE \E p \in Proxy, c \in Chunk : Construct(p, c) BY <1>1, FreshConstruct
<1>2. CASE FinishStore BY <1>2, FreshFinishStore
<1>3. CASE \E s \in Slot, val \in Chunk \cup {NULL} : InitStore(s, val)
  BY <1>3, FreshInitStore
<1>4. ASSUME ~init_fresh' PROVE Fresh' BY <1>4 DEF Fresh
<1>5. CASE EndInit \/ InitFail BY <1>4, <1>5 DEF EndInit, InitFail
<1>6. CASE \/ ClearEnd
           \/ \E p \in Proxy : ClearStart(p) \/ PyIncref(p) \/ PyDecref(p) \/ Reinit(p)
                             \/ CallbackLeaks(p)
           \/ \E s \in Slot : ClearSlot(s)
           \/ \E g \in 0..OldestGen : Collect(g)
           \/ \E p \in Proxy, s \in Slot, val \in Chunk \cup {NULL} : SetField(p, s, val)
           \/ \E dest \in Place, val \in Chunk \cup {NULL} : CWrite(dest, val)
           \/ \E c \in Chunk, b \in Proxy :
                ReturnBase(c, b) \/ \E d \in Proxy : ReturnDerived(c, b, d)
           \/ \E c \in Chunk : CFree(c) \/ \E v \in Var : CMalloc(c, v)
  <2>1. ~init_fresh
    BY <1>0, <1>6 DEF ClearEnd, ClearStart, PyIncref, PyDecref, Reinit, CallbackLeaks,
       ClearSlot, Collect, SetField, CWrite, ReturnBase, ReturnDerived, CFree, CMalloc, Idle, Phases
  <2> QED
    BY <1>4, <1>6, <2>1 DEF ClearEnd, ClearStart, PyIncref, PyDecref, Reinit,
       CallbackLeaks, ClearSlot, Collect, SetField, CWrite, ReturnBase, ReturnDerived, CFree, CMalloc, initVars
<1>7. CASE \/ CFreeSweep \/ CFreeEnd \/ Dealloc \/ UNCHANGED vars
           \/ AttributesFail \/ \E s \in Slot : InitZero(s)
  <2>1. Settles BY <1>0, <1>7, DeallocSettles, QuietSettles
  <2>2. /\ UNCHANGED <<pyrefs, leaked, init_obj, init_fresh, notify_dest, notify_val>>
        /\ \A c \in Chunk : policies'[c] \subseteq policies[c]
    BY <1>0, <1>7 DEF CFreeSweep, CFreeEnd, Dealloc, AttributesFail, InitZero, SweepSlot,
       Unregister, Sweep, EndSweep, Unmap, DropOwnRef, FreeObject, vars, heapVars,
       proxyVars, initVars, storeVars, TypeOK
  <2>3. init_fresh => p_ptr[init_obj] \in Chunk /\ Alone(init_obj)
    BY <1>0 DEF Fresh, Phases, Alone, IsBase, NoObject, TypeOK
  <2> QED BY <1>0, <2>1, <2>2, <2>3, FreshSettles DEF Alone
<1>8. CASE \E p \in Proxy : ReadAttribute(p)
  <2>1. Settles BY <1>0, <1>8, QuietSettles
  <2>2. PICK p \in Proxy : ReadAttribute(p) BY <1>8
  <2>3. /\ UNCHANGED <<policies, pyrefs, init_obj, init_fresh, notify_dest, notify_val>>
        /\ leaked' = [leaked EXCEPT ![p] = @ + 1] /\ (init_fresh => p # init_obj)
    BY <2>2 DEF ReadAttribute, heapVars, initVars, storeVars
  <2>4. init_fresh => leaked'[init_obj] = leaked[init_obj]
    BY <1>0, <2>3 DEF TypeOK, Phases
  <2>5. init_fresh /\ notify_dest # NULL => notify_val # p_ptr[init_obj]
    BY <1>0 DEF Fresh, Alone
  <2> QED BY <1>0, <2>1, <2>3, <2>4, <2>5, FreshSettles
<1> QED BY <1>1, <1>2, <1>3, <1>5, <1>6, <1>7, <1>8
        DEF Next, Runtime, PythonStep, CStep

-----------------------------------------------------------------------------
(* Nothing dangles.                                                        *)

LEMMA PInvInit == Init => PInv
BY InvInit DEF Init, PInv, Phases, Initialising, Fresh, Tracked, ValueSafe

LEMMA PInvNext == PInv /\ [Next]_vars => PInv'
<1> SUFFICES ASSUME PInv, [Next]_vars PROVE PInv'
  OBVIOUS
<1>1. IInv' BY InvNext DEF PInv
<1>2. Phases' /\ Initialising' BY PhasesKept DEF PInv
<1>3. Tracked' BY TrackedKept
<1> QED BY <1>1, <1>2, <1>3, ValueSafeKept, FreshKept DEF PInv

LEMMA PointerInvariant == Spec => []PInv
BY PInvInit, PInvNext, PTL DEF Spec

(* No pointer that C or Python can still read points to freed memory: the  *)
(* notifications of pointer stores, proxy_addref and proxy_delref, the     *)
(* deallocation of proxies, C's free and the collector's tp_clear leave    *)
(* nothing dangling, in whatever order they interrupt each other.          *)
THEOREM NeverDangling == Spec => []NoDangling
<1>1. PInv => NoDangling
  BY TrackedAlive DEF PInv, NoDangling, Stored
<1> QED BY <1>1, PointerInvariant, PTL

-----------------------------------------------------------------------------
(* The collector: what is taken through tp_traverse and tp_clear, and what *)
(* stays recorded in proxy_pointing_addr_dict.  The argument: all          *)
(* references to a chunk the collector condemns are fields of condemned    *)
(* chunks, and no operation can reach it again; once the pass is over, the *)
(* fields of condemned chunks have no entries left, so its counter would   *)
(* have been dropped to zero.                                              *)

(* Nothing but fields of condemned chunks leads to c, and once the         *)
(* collector is done with c its fields record nothing.                     *)
Unreachable(c) ==
  /\ policies[c] = {"gc"}
  /\ \A q \in Proxy : p_ptr[q] = c => q = proxy_dict[c] /\ ~Keeps(q)
  /\ \A l \in Loc : pointing_dict[l] = proxy_dict[c] => l \in Slot
  /\ \A x \in Place : Stored(x) => field[x] # c
  /\ notify_dest # NULL => notify_val # c
  /\ notify_dest \in Slot => Owner[notify_dest] # c
  /\ proxy_dict[c] \notin gc_set => \A s \in Slots(c) : pointing_dict[s] = NULL
Condemned == \A c \in condemned : Unreachable(c)

(* A slot whose entry the collector removed has none. *)
ForgottenBare == \A s \in forgotten : pointing_dict[s] = NULL

CInv == PInv /\ Condemned /\ ForgottenBare

-----------------------------------------------------------------------------
(* Garbage.                                                                *)

(* A closed set of proxies has no references but those it is closed under. *)
LEMMA GarbageClosed ==
  ASSUME IInv, NEW U \in SUBSET Proxy, NEW p \in U,
         ob_refcnt[p] = Cardinality({s \in Slot : /\ pointing_dict[s] = p
                                                  /\ proxy_dict[Owner[s]] \in U})
  PROVE  /\ ~Keeps(p)
         /\ \A l \in Loc : pointing_dict[l] = p => l \in Slot /\ proxy_dict[Owner[l]] \in U
<1> DEFINE A == {s \in Slot : pointing_dict[s] = p /\ proxy_dict[Owner[s]] \in U}
           E == {l \in Loc : pointing_dict[l] = p}
<1>1. IsFiniteSet(E) /\ Cardinality(E) \in Nat BY EntriesFinite
<1>2. A \subseteq E BY DEF Loc, Place
<1>3. /\ IsFiniteSet(A) /\ Cardinality(A) \in Nat /\ Cardinality(A) <= Cardinality(E)
      /\ Cardinality(A) = Cardinality(E) => A = E
  BY <1>1, <1>2, FS_Subset, FS_CardinalityType
<1>4. Cardinality(A) = pyrefs[p] + leaked[p] + Cardinality(E)
                       + (IF gc_hold = p THEN 1 ELSE 0)
  BY DEF IInv, CountsExact, EntriesOf
<1>5. pyrefs[p] \in Nat /\ leaked[p] \in Nat BY DEF IInv, TypeOK
<1>6. pyrefs[p] = 0 /\ leaked[p] = 0 /\ Cardinality(A) = Cardinality(E)
  BY <1>1, <1>3, <1>4, <1>5
<1>7. A = E BY <1>3, <1>6
<1> QED BY <1>6, <1>7 DEF Keeps, Holds

LEMMA GarbageOf ==
  ASSUME IInv, NEW g, NEW p \in Garbage(g)
  PROVE  /\ p \in Proxy /\ IsBase(p) /\ ~Keeps(p)
         /\ \A l \in Loc : pointing_dict[l] = p =>
              l \in Slot /\ proxy_dict[Owner[l]] \in Garbage(g)
<1> DEFINE young == {q \in Proxy : IsBase(q) /\ gen[q] <= g}
<1>1. p \in ClosedGarbage(young) /\ Garbage(g) = ClosedGarbage(young) BY DEF Garbage
<1>2. PICK U \in SUBSET young :
        /\ p \in U
        /\ \A q \in U : ob_refcnt[q] = Cardinality({s \in Slot : /\ pointing_dict[s] = q
                                                      /\ proxy_dict[Owner[s]] \in U})
  BY <1>1 DEF ClosedGarbage
<1>3. U \subseteq ClosedGarbage(young) BY <1>2 DEF ClosedGarbage
<1>4. /\ ~Keeps(p)
      /\ \A l \in Loc : pointing_dict[l] = p => l \in Slot /\ proxy_dict[Owner[l]] \in U
  BY <1>2, GarbageClosed
<1> QED BY <1>1, <1>2, <1>3, <1>4

-----------------------------------------------------------------------------
(* What was condemned stays out of reach.                                  *)

(* What a step must leave alone for that. *)
LeavesAlone(c) ==
  /\ policies'[c] = policies[c]
  /\ \A q \in Proxy : p_ptr'[q] = c => p_ptr[q] = c /\ (Keeps(q)' => Keeps(q))
  /\ \A l \in Loc : pointing_dict'[l] = proxy_dict[c] => pointing_dict[l] = proxy_dict[c]
  /\ \A x \in Place : Stored(x)' /\ field'[x] = c => Stored(x) /\ field[x] = c
  /\ notify_dest' # NULL => notify_val' # c
  /\ notify_dest' \in Slot => Owner[notify_dest'] # c
  /\ proxy_dict[c] \in gc_set /\ proxy_dict[c] \notin gc_set'
       => \A s \in Slots(c) : pointing_dict[s] = NULL
  /\ \A s \in Slots(c) : pointing_dict[s] = NULL => pointing_dict'[s] = NULL

LEMMA UnreachableStays ==
  ASSUME IInv, IInv', NEW c \in Chunk, Unreachable(c), LeavesAlone(c)
  PROVE  Unreachable(c)'
<1> USE DistinctAssumption
<1>1. policies'[c] = {"gc"} BY DEF Unreachable, LeavesAlone
<1>2. proxy_dict'[c] = proxy_dict[c]
  <2>1. TypeOK' /\ PolicyHasProxy' BY DEF IInv, Shape
  <2>2. proxy_dict'[c] # NULL /\ p_ptr'[proxy_dict'[c]] = c
    BY <1>1, <2>1 DEF PolicyHasProxy, GcManaged
  <2>3. proxy_dict'[c] \in Proxy BY <2>1, <2>2 DEF TypeOK
  <2> QED BY <2>2, <2>3 DEF Unreachable, LeavesAlone
<1>3. \A q \in Proxy : p_ptr'[q] = c => q = proxy_dict[c] /\ ~Keeps(q)'
  BY DEF Unreachable, LeavesAlone
<1>4. \A l \in Loc : pointing_dict'[l] = proxy_dict[c] => l \in Slot
  BY DEF Unreachable, LeavesAlone
<1>5. \A x \in Place : Stored(x)' => field'[x] # c BY DEF Unreachable, LeavesAlone
<1>6. proxy_dict[c] \notin gc_set' => \A s \in Slots(c) : pointing_dict'[s] = NULL
  BY DEF Unreachable, LeavesAlone
<1> QED BY <1>1, <1>2, <1>3, <1>4, <1>5, <1>6 DEF Unreachable, LeavesAlone, Slots

(* Steps that take things away leave what is condemned alone. *)
LEMMA SettlesAlone ==
  ASSUME CInv, IInv', NEW c \in condemned, Settles, policies'[c] = policies[c],
         \A q \in Proxy : Keeps(q)' => Keeps(q),
         notify_dest' # NULL =>
           \/ UNCHANGED <<notify_dest, notify_val>>
           \/ notify_val' # c /\ (notify_dest' \in Slot => Owner[notify_dest'] # c),
         proxy_dict[c] \in gc_set /\ proxy_dict[c] \notin gc_set'
           => \A s \in Slots(c) : pointing_dict[s] = NULL
  PROVE  Unreachable(c)'
<1> USE DistinctAssumption
<1>0. IInv /\ TypeOK /\ c \in Chunk /\ Unreachable(c)
  BY DEF CInv, PInv, IInv, TypeOK, Condemned
<1>1. proxy_dict[c] # NULL /\ c # NULL
  BY <1>0 DEF Unreachable, IInv, Shape, PolicyHasProxy, GcManaged
<1>2. /\ \A q \in Proxy : p_ptr'[q] = c => p_ptr[q] = c /\ (Keeps(q)' => Keeps(q))
      /\ \A l \in Loc : pointing_dict'[l] = proxy_dict[c]
           => pointing_dict[l] = proxy_dict[c]
      /\ \A x \in Place : Stored(x)' /\ field'[x] = c => Stored(x) /\ field[x] = c
      /\ \A s \in Slots(c) : pointing_dict[s] = NULL => pointing_dict'[s] = NULL
  BY <1>1 DEF Settles, Slots, Loc, Place
<1>3. notify_dest' # NULL =>
        notify_val' # c /\ (notify_dest' \in Slot => Owner[notify_dest'] # c)
  BY <1>0 DEF Unreachable
<1> QED BY <1>0, <1>2, <1>3, UnreachableStays DEF LeavesAlone

(* A chunk that is freed is not condemned any more. *)
LEMMA DeallocCondemned ==
  ASSUME CInv, IInv', Dealloc PROVE Condemned' /\ ForgottenBare'
<1> USE DistinctAssumption
<1>0. IInv /\ TypeOK /\ Shape /\ Settles BY DeallocSettles DEF CInv, PInv, IInv
<1>1. PICK p \in Proxy : \/ Unregister(p) \/ Sweep(p) \/ EndSweep(p) \/ Unmap(p)
                        \/ DropOwnRef(p) \/ FreeObject(p)
  BY DEF Dealloc
<1>2. /\ UNCHANGED storeVars /\ condemned' \subseteq condemned
      /\ forgotten' \subseteq forgotten
      /\ \A q \in Proxy : Keeps(q)' => Keeps(q)
  BY <1>1 DEF Unregister, Sweep, EndSweep, Unmap, DropOwnRef, FreeObject, SweepSlot,
     Forget, histVars, proxyVars, Keeps, Holds
<1>3. p_ptr[p] \in Chunk
  <2>1. pc[p] # "idle"
    BY <1>1 DEF Unregister, Sweep, EndSweep, Unmap, DropOwnRef, FreeObject
  <2> QED BY <1>0, <2>1 DEF Shape, Objects, TypeOK
<1>4. ASSUME NEW c \in condemned' PROVE Unreachable(c)'
  <2>1. c \in condemned /\ c \in Chunk /\ Unreachable(c)
    BY <1>0, <1>2, <1>4 DEF CInv, Condemned, TypeOK
  <2>2. policies'[c] = policies[c] /\ (proxy_dict[c] \in gc_set => proxy_dict[c] \in gc_set')
    <3>1. CASE Unregister(p) /\ proxy_dict[p_ptr[p]] = p
      <4>1. /\ policies' = [policies EXCEPT ![p_ptr[p]] = @ \ {"gc"}]
            /\ policies[p_ptr[p]] \ {"gc"} = {} => Forget(p_ptr[p])
            /\ gc_set' = gc_set \ {p}
        BY <3>1 DEF Unregister
      <4>2. c # p_ptr[p]
        BY <1>4, <2>1, <4>1 DEF Unreachable, Forget
      <4>3. proxy_dict[c] # p
        <5>1. GcManaged(c) BY <1>0, <2>1 DEF Unreachable, GcManaged
        <5>2. p_ptr[proxy_dict[c]] = c BY <1>0, <2>1, <5>1 DEF Shape, PolicyHasProxy
        <5> QED BY <4>2, <5>2
      <4> QED BY <1>0, <2>1, <4>1, <4>2, <4>3 DEF TypeOK
    <3>2. CASE ~(Unregister(p) /\ proxy_dict[p_ptr[p]] = p)
      BY <1>1, <3>2 DEF Unregister, Sweep, EndSweep, Unmap, DropOwnRef, FreeObject,
         SweepSlot, heapVars, gcVars
    <3> QED BY <3>1, <3>2
  <2> QED BY <1>0, <1>2, <2>1, <2>2, SettlesAlone DEF storeVars
<1>5. ForgottenBare'
  BY <1>0, <1>2 DEF CInv, ForgottenBare, Settles, Loc, Place, TypeOK
<1> QED BY <1>4, <1>5 DEF Condemned

(* The collector's own steps. *)
LEMMA CollectCondemned ==
  ASSUME CInv, IInv', NEW g \in 0..OldestGen, Collect(g)
  PROVE  Condemned' /\ ForgottenBare'
<1> USE DistinctAssumption
<1>0. /\ IInv /\ TypeOK /\ Shape /\ Tracked /\ Phases /\ Settles /\ Idle
      /\ \A q \in Proxy : pc[q] = "idle"
  BY QuietSettles, QuietIdle DEF CInv, PInv, IInv, Collect, Idle, Quiet
<1>1. /\ gc_set' = Garbage(g) /\ forgotten' = forgotten
      /\ UNCHANGED <<heapVars, proxyVars, proxy_dict, pointing_dict, stackVars, storeVars,
                     initVars>>
      /\ \A q \in Proxy : Keeps(q)' => Keeps(q)
  BY DEF Collect, proxyVars, Keeps, Holds
<1>2. ASSUME NEW c \in condemned, c \in condemned' PROVE Unreachable(c)'
  <2>1. gc_set = {} BY <1>0 DEF Idle
  <2> QED BY <1>0, <1>1, <2>1, SettlesAlone DEF heapVars, storeVars
<1>3. ASSUME NEW c \in condemned', c \notin condemned PROVE Unreachable(c)'
  <2>1. /\ condemned' = condemned \cup {p_ptr[q] : q \in Garbage(g)}
        /\ \A q \in Garbage(g) : "manual" \notin policies[p_ptr[q]]
    BY <1>3 DEF Collect
  <2>2. PICK p \in Garbage(g) : p_ptr[p] = c BY <1>3, <2>1
  <2>3. /\ p \in Proxy /\ IsBase(p) /\ ~Keeps(p)
        /\ \A l \in Loc : pointing_dict[l] = p =>
             l \in Slot /\ proxy_dict[Owner[l]] \in Garbage(g)
    BY <1>0, GarbageOf
  <2>4. c \in Chunk /\ proxy_dict[c] = p
    BY <1>0, <2>2, <2>3 DEF IsBase, NoObject, TypeOK
  <2>5. policies[c] = {"gc"}
    <3>1. GcManaged(c) BY <1>0, <2>2, <2>3, <2>4 DEF Shape, PolicyHasProxy
    <3> QED BY <1>0, <2>1, <2>2, <2>4, <3>1 DEF GcManaged, TypeOK
  <2>6. \A q \in Proxy : p_ptr[q] = c => q = p
    <3> SUFFICES ASSUME NEW q \in Proxy, p_ptr[q] = c, q # p PROVE FALSE
      OBVIOUS
    <3>1. ~NoObject(q) /\ ~IsBase(q) BY <2>4 DEF NoObject, IsBase
    <3>2. pointing_dict[q] # NULL /\ p_ptr[pointing_dict[q]] = c /\ q \in Loc
      BY <1>0, <3>1 DEF Shape, Anchored, Loc
    <3>3. IsBase(pointing_dict[q]) BY <1>0, <3>2 DEF Shape, EntriesBase
    <3>4. pointing_dict[q] = p BY <2>4, <3>2, <3>3 DEF IsBase
    <3> QED BY <2>3, <3>2, <3>4
  <2>7. \A x \in Place : Stored(x)' => field'[x] # c
    <3> SUFFICES ASSUME NEW x \in Place, Stored(x)', field[x] = c PROVE FALSE
      BY <1>1 DEF heapVars
    <3>1. Stored(x) /\ x \in Loc
      BY <1>0, <1>1, <2>4 DEF Settles, heapVars, Loc
    <3>2. pointing_dict[x] = p
      BY <1>0, <2>4, <2>5, <3>1 DEF Tracked, Recorded
    <3>3. x \in Slot /\ x \notin Var /\ proxy_dict[Owner[x]] \in Garbage(g)
      BY <2>3, <3>1, <3>2
    <3>4. Owner[x] \in Chunk /\ IsBase(proxy_dict[Owner[x]])
          /\ proxy_dict[Owner[x]] \in Proxy
      BY <1>0, <3>3, GarbageOf, OwnerAssumption
    <3>5. p_ptr[proxy_dict[Owner[x]]] = Owner[x]
      BY <1>0, <3>4 DEF Shape, Registry
    <3>6. Owner[x] \in condemned' BY <2>1, <3>3, <3>5
    <3> QED BY <3>3, <3>6 DEF Stored, Readable
  <2>8. notify_dest' = NULL /\ notify_dest' \notin Slot
    BY <1>0, <1>1 DEF Idle, Quiet, storeVars
  <2>9. proxy_dict'[c] = p /\ p \in gc_set' /\ pointing_dict' = pointing_dict
        /\ policies'[c] = {"gc"}
    BY <1>1, <2>2, <2>4, <2>5 DEF heapVars
  <2>10. \A q \in Proxy : p_ptr'[q] = c => q = p /\ ~Keeps(q)'
    BY <1>1, <2>3, <2>6 DEF proxyVars
  <2> QED BY <2>3, <2>7, <2>8, <2>9, <2>10 DEF Unreachable
<1>4. ForgottenBare' BY <1>1 DEF CInv, ForgottenBare
<1> QED BY <1>2, <1>3, <1>4 DEF Condemned

(* Steps that change no pointer the program goes on reading. *)
LEMMA QuietCondemned ==
  ASSUME CInv, IInv',
         \/ CFreeSweep \/ CFreeEnd \/ ClearEnd \/ EndInit \/ InitFail \/ UNCHANGED vars
         \/ AttributesFail
         \/ \E p \in Proxy : ClearStart(p) \/ PyIncref(p) \/ PyDecref(p) \/ Reinit(p)
                           \/ ReadAttribute(p) \/ CallbackLeaks(p)
         \/ \E s \in Slot : ClearSlot(s) \/ InitZero(s)
  PROVE  Condemned' /\ ForgottenBare'
<1> USE DistinctAssumption
<1>0. /\ IInv /\ TypeOK /\ Shape /\ Phases /\ Initialising /\ Fresh
      /\ Condemned /\ ForgottenBare
  BY DEF CInv, PInv, IInv
<1>1. Settles BY <1>0, QuietSettles, InitFailSettles
<1>2. /\ UNCHANGED <<policies, condemned>>
      /\ UNCHANGED <<notify_dest, notify_val>>
  BY DEF CFreeSweep, CFreeEnd, ClearEnd, EndInit, InitFail, AttributesFail, ReadAttribute,
     CallbackLeaks, ClearStart, PyIncref, PyDecref, Reinit, ClearSlot, InitZero, SweepSlot,
     heapVars, histVars, storeVars, vars
<1>3. gc_set' = gc_set \/ ClearEnd
  BY DEF CFreeSweep, CFreeEnd, EndInit, InitFail, AttributesFail, ReadAttribute,
     CallbackLeaks, ClearStart, PyIncref, PyDecref, Reinit, ClearSlot, InitZero, SweepSlot,
     gcVars, vars
<1>6. ASSUME NEW q \in Proxy, Keeps(q)' PROVE Keeps(q)
  <2>1. \/ leaked' = leaked
        \/ \E p \in Proxy : Holds(p) /\ leaked' = [leaked EXCEPT ![p] = @ + 1]
    BY DEF CFreeSweep, CFreeEnd, ClearEnd, EndInit, InitFail, AttributesFail, ReadAttribute,
       CallbackLeaks, ClearStart, PyIncref, PyDecref, Reinit, ClearSlot, InitZero,
       SweepSlot, proxyVars, vars
  <2>2. leaked'[q] = leaked[q] \/ Holds(q) BY <1>0, <2>1 DEF TypeOK
  <2> QED BY <1>1, <1>6, <2>2 DEF Settles, Keeps
<1>4. ASSUME NEW c \in condemned PROVE Unreachable(c)'
  <2>1. c \in Chunk /\ Unreachable(c) BY <1>0, <1>4 DEF Condemned, TypeOK
  <2>2. ASSUME ClearEnd, proxy_dict[c] \in gc_set, proxy_dict[c] \notin gc_set'
        PROVE  \A s \in Slots(c) : pointing_dict[s] = NULL
    <3>1. proxy_dict[c] = gc_hold BY <2>2 DEF ClearEnd
    <3>2. p_ptr[gc_hold] = c
      BY <1>0, <2>1, <2>2, <3>1 DEF ClearEnd, Shape, Registry
    <3> QED BY <2>2, <3>2 DEF ClearEnd
  <2>3. policies'[c] = policies[c] /\ c \in condemned BY <1>2, <1>4
  <2> QED BY <1>1, <1>2, <1>3, <1>6, <2>2, <2>3, SettlesAlone
<1>5. ForgottenBare'
  <2>1. forgotten' \subseteq forgotten \/ \E s \in Slot : ClearSlot(s)
    BY DEF CFreeSweep, CFreeEnd, ClearEnd, EndInit, InitFail, AttributesFail,
       ReadAttribute, CallbackLeaks, ClearStart, PyIncref, PyDecref, Reinit, InitZero,
       SweepSlot, histVars, vars
  <2>2. \A s \in forgotten : s \in Loc /\ pointing_dict'[s] = NULL
    BY <1>0, <1>1 DEF ForgottenBare, Settles, Loc, Place, TypeOK
  <2>3. CASE \E s \in Slot : ClearSlot(s)
    <3>1. PICK s \in Slot : ClearSlot(s) BY <2>3
    <3>2. s \in Loc /\ DelRef(s) BY <3>1 DEF ClearSlot, Loc, Place
    <3>3. pointing_dict'[s] = NULL BY <1>0, <3>2, DelRefEffect DEF TypeOK
    <3>4. forgotten' \subseteq forgotten \cup {s} BY <3>1 DEF ClearSlot
    <3> QED BY <2>2, <3>3, <3>4 DEF ForgottenBare
  <2> QED BY <2>1, <2>2, <2>3 DEF ForgottenBare
<1> QED BY <1>2, <1>4, <1>5 DEF Condemned

(* Nothing Python or C can pass, or write to, is condemned. *)
LEMMA ReachableKept ==
  ASSUME CInv, notify_dest = NULL, NEW c \in condemned
  PROVE  /\ c \notin PyValues
         /\ \A q \in Proxy : Holds(q) => p_ptr[q] # c
         /\ \A x \in Place : Readable(x) => field[x] # c
         /\ \A v \in Var : field[v] # c
         /\ ~CReaches(c)
<1>1. Unreachable(c) /\ c # NULL
  BY DistinctAssumption DEF CInv, Condemned, PInv, IInv, TypeOK
<1>2. \A q \in Proxy : Holds(q) => p_ptr[q] # c BY <1>1 DEF Unreachable, Keeps
<1>3. \A x \in Place : Readable(x) => field[x] # c
  BY <1>1, DistinctAssumption DEF Unreachable, Stored, Place
<1>4. \A v \in Var : field[v] # c BY <1>3, VarStored
<1> QED BY <1>1, <1>2, <1>3, <1>4 DEF PyValues, CReaches, Unreachable

LEMMA StoresCondemned ==
  ASSUME CInv, IInv',
         \/ \E p \in Proxy, s \in Slot, val \in Chunk \cup {NULL} : SetField(p, s, val)
         \/ \E dest \in Place, val \in Chunk \cup {NULL} : CWrite(dest, val)
         \/ \E s \in Slot, val \in Chunk \cup {NULL} : InitStore(s, val)
  PROVE  Condemned' /\ ForgottenBare'
<1> USE DistinctAssumption
<1>0. IInv /\ TypeOK /\ Initialising /\ Condemned /\ ForgottenBare /\ Settles
  BY StoresSettle DEF CInv, PInv, IInv
<1>1. PICK dest \in Place, val \in Chunk \cup {NULL} :
        \/ \E p \in Proxy : dest \in Slot /\ SetField(p, dest, val)
        \/ CWrite(dest, val)
        \/ dest \in Slot /\ InitStore(dest, val)
  BY DEF Place
<1>2. /\ Quiet /\ notify_dest' = dest /\ notify_val' = val
      /\ UNCHANGED heapVars /\ UNCHANGED histVars /\ gc_set' = gc_set
      /\ \A q \in Proxy : Keeps(q)' => Keeps(q)
  BY <1>1 DEF SetField, CWrite, InitStore, BeginStore, Idle, gcVars, Keeps, Holds
<1>3. ASSUME NEW c \in condemned PROVE Unreachable(c)'
  <2>1. /\ c \notin PyValues
        /\ \A q \in Proxy : Holds(q) => p_ptr[q] # c
        /\ \A x \in Place : Readable(x) => field[x] # c
        /\ \A v \in Var : field[v] # c
        /\ ~CReaches(c)
    BY <1>2, <1>3, ReachableKept DEF Quiet
  <2>2. val # c /\ (dest \in Slot => Owner[dest] # c)
    <3>1. CASE \E p \in Proxy : dest \in Slot /\ SetField(p, dest, val)
      BY <2>1, <3>1 DEF SetField, Slots
    <3>2. CASE CWrite(dest, val) BY <2>1, <3>2 DEF CWrite, Place
    <3>3. CASE dest \in Slot /\ InitStore(dest, val)
      <4>1. init_obj \in Proxy /\ Holds(init_obj) /\ dest \in Slots(p_ptr[init_obj])
        BY <1>0, <3>3 DEF InitStore, Initialising, TypeOK
      <4>2. val # c BY <2>1, <3>3 DEF InitStore, InitValues, Place
      <4> QED BY <2>1, <4>1, <4>2 DEF Slots
    <3> QED BY <1>1, <3>1, <3>2, <3>3
  <2> QED BY <1>0, <1>2, <1>3, <2>2, SettlesAlone DEF heapVars
<1>4. ForgottenBare'
  BY <1>0, <1>2 DEF ForgottenBare, Settles, Loc, Place, TypeOK, histVars
<1> QED BY <1>2, <1>3, <1>4 DEF Condemned, histVars

LEMMA FinishStoreCondemned ==
  ASSUME CInv, IInv', FinishStore PROVE Condemned' /\ ForgottenBare'
<1> USE DistinctAssumption
<1>0. IInv /\ TypeOK /\ Shape /\ Condemned /\ ForgottenBare BY DEF CInv, PInv, IInv
<1>1. /\ notify_dest # NULL /\ notify_dest' = NULL
      /\ UNCHANGED <<policies, condemned, p_ptr, pyrefs, leaked, gc_set>>
      /\ forgotten' = forgotten \ {notify_dest}
  BY DEF FinishStore, gcVars
<1>2. ASSUME NEW c \in condemned PROVE Unreachable(c)'
  <2>1. c \in Chunk /\ Unreachable(c) /\ proxy_dict[c] # NULL /\ p_ptr[proxy_dict[c]] = c
    BY <1>0, <1>2 DEF Condemned, Unreachable, TypeOK, Shape, PolicyHasProxy, GcManaged
  <2>2. notify_val # c BY <1>1, <2>1 DEF Unreachable
  <2>3. \A l \in Loc : pointing_dict'[l] = proxy_dict[c]
          => pointing_dict[l] = proxy_dict[c]
    <3>1. GcManaged(notify_val) => p_ptr[proxy_dict[notify_val]] = notify_val
      BY <1>0 DEF GcManaged, TypeOK, Shape, PolicyHasProxy
    <3> QED BY <1>0, <2>1, <2>2, <3>1, FinishStoreEffect DEF TypeOK
  <2>4. \A x \in Place : Stored(x)' /\ field'[x] = c => Stored(x) /\ field[x] = c
    <3> SUFFICES ASSUME NEW x \in Place, Stored(x)', field'[x] = c
                 PROVE  Stored(x) /\ field[x] = c
      OBVIOUS
    <3>1. x # notify_dest BY <1>0, <2>2, FinishStoreEffect DEF TypeOK
    <3> QED BY <1>0, <3>1, FinishStoreEffect
  <2>5. \A s \in Slots(c) : pointing_dict[s] = NULL => pointing_dict'[s] = NULL
    <3>1. \A s \in Slots(c) : s # notify_dest BY <2>1 DEF Unreachable, Slots
    <3> QED BY <1>0, <3>1, FinishStoreEffect DEF TypeOK, Slots, Loc, Place
  <2>6. LeavesAlone(c) BY <1>1, <2>3, <2>4, <2>5 DEF LeavesAlone, Keeps, Holds
  <2> QED BY <1>0, <2>1, <2>6, UnreachableStays
<1>3. ForgottenBare'
  BY <1>0, <1>1, FinishStoreEffect DEF ForgottenBare, TypeOK, Loc, Place
<1> QED BY <1>1, <1>2, <1>3 DEF Condemned

LEMMA HeapCondemned ==
  ASSUME CInv, IInv', NEW d \in Chunk,
         \/ \E p \in Proxy : Construct(p, d)
         \/ \E v \in Var : CMalloc(d, v)
         \/ CFree(d)
  PROVE  Condemned' /\ ForgottenBare'
<1> USE DistinctAssumption
<1>0. IInv /\ TypeOK /\ Shape /\ Phases /\ Condemned /\ ForgottenBare
  BY DEF CInv, PInv, IInv
<1>1. /\ Idle /\ pointing_dict' = pointing_dict /\ gc_set' = gc_set
      /\ condemned' \subseteq condemned /\ forgotten' \subseteq forgotten
      /\ notify_dest' = NULL
  BY DEF Construct, CMalloc, CFree, Forget, Idle, Quiet, histVars, storeVars, gcVars
<1>2. \A c \in Chunk : c # d => policies'[c] = policies[c]
  BY <1>0, NewChunkReads DEF CFree, TypeOK
<1>3. ASSUME NEW c \in condemned PROVE Unreachable(c)'
  <2>1. c \in Chunk /\ Unreachable(c) BY <1>0, <1>3 DEF Condemned, TypeOK
  <2>2. c # d BY <2>1 DEF Unreachable, Construct, CMalloc, CFree, Live
  <2>3. \A q \in Proxy : p_ptr'[q] = c => p_ptr[q] = c /\ (Keeps(q)' => Keeps(q))
    BY <1>0, <2>2 DEF Construct, CMalloc, CFree, TypeOK, Keeps, Holds, proxyVars
  <2>4. \A x \in Place : Stored(x)' /\ field'[x] = c => Stored(x) /\ field[x] = c
    <3>1. CASE CFree(d) BY <1>0, <3>1, CFreeReads DEF CFree
    <3>2. CASE ~CFree(d)
      <4>1. c # NULL BY <2>1
      <4> QED BY <1>0, <2>2, <3>2, <4>1, NewChunkReads
    <3> QED BY <3>1, <3>2
  <2>5. notify_dest' \notin Slot BY <1>1
  <2>6. LeavesAlone(c) BY <1>1, <1>2, <2>1, <2>2, <2>3, <2>4, <2>5 DEF LeavesAlone
  <2> QED BY <1>0, <2>1, <2>6, UnreachableStays
<1>4. ForgottenBare' BY <1>0, <1>1 DEF ForgottenBare
<1> QED BY <1>1, <1>3, <1>4 DEF Condemned

LEMMA ReturnCondemned ==
  ASSUME CInv, IInv', NEW d \in Chunk, NEW b \in Proxy,
         ReturnBase(d, b) \/ \E e \in Proxy : ReturnDerived(d, b, e)
  PROVE  Condemned' /\ ForgottenBare'
<1> USE DistinctAssumption
<1>0. IInv /\ TypeOK /\ Shape /\ Condemned /\ ForgottenBare BY DEF CInv, PInv, IInv
<1>1. /\ Idle /\ d \in Decodable /\ gc_set' = gc_set
      /\ UNCHANGED histVars /\ UNCHANGED storeVars
  BY DEF ReturnBase, ReturnDerived, gcVars
<1>2. PICK e \in Proxy \cup {NULL} :
        /\ e \in Proxy => NoObject(e)
        /\ \A l \in Loc : pointing_dict'[l] = pointing_dict[l] \/ (l = e /\ pointing_dict'[l] = b)
        /\ \A q \in Proxy : p_ptr'[q] = p_ptr[q] \/ p_ptr'[q] = d
        /\ \A q \in Proxy : q # b /\ q # e => pyrefs'[q] = pyrefs[q]
        /\ p_ptr'[b] = d /\ (e \in Proxy => p_ptr'[e] = d)
        /\ leaked' = leaked
  <2>1. CASE ReturnBase(d, b)
    <3>1. /\ pointing_dict' = pointing_dict
          /\ \A q \in Proxy : p_ptr'[q] = p_ptr[q] \/ p_ptr'[q] = d
          /\ \A q \in Proxy : q # b => pyrefs'[q] = pyrefs[q]
          /\ p_ptr'[b] = d /\ leaked' = leaked
      BY <1>0, <2>1 DEF ReturnBase, TypeOK
    <3> QED BY <3>1
  <2>2. CASE \E e \in Proxy : ReturnDerived(d, b, e)
    <3>1. PICK e \in Proxy : ReturnDerived(d, b, e) BY <2>2
    <3>2. /\ NoObject(e)
          /\ \A l \in Loc : pointing_dict'[l] = pointing_dict[l]
                            \/ (l = e /\ pointing_dict'[l] = b)
          /\ \A q \in Proxy : p_ptr'[q] = p_ptr[q] \/ p_ptr'[q] = d
          /\ \A q \in Proxy : q # b /\ q # e => pyrefs'[q] = pyrefs[q]
          /\ p_ptr'[b] = d /\ p_ptr'[e] = d /\ leaked' = leaked
      BY <1>0, <3>1 DEF ReturnDerived, TypeOK
    <3> QED BY <3>2
  <2> QED BY <2>1, <2>2
<1>3. ASSUME NEW c \in condemned PROVE Unreachable(c)'
  <2>1. c \in Chunk /\ Unreachable(c) /\ proxy_dict[c] # NULL /\ p_ptr[proxy_dict[c]] = c
    BY <1>0, <1>3 DEF Condemned, Unreachable, TypeOK, Shape, PolicyHasProxy, GcManaged
  <2>2. /\ \A q \in Proxy : Holds(q) => p_ptr[q] # c
        /\ \A x \in Place : Readable(x) => field[x] # c
        /\ \A v \in Var : field[v] # c
    BY <1>1, <1>3, ReachableKept DEF Idle, Quiet
  <2>3. d # c BY <1>1, <2>2 DEF Decodable, Place
  <2>4. policies'[c] = policies[c] BY <1>0, <2>1, <2>3, ReturnReads DEF TypeOK
  <2>5. \A q \in Proxy : p_ptr'[q] = c => p_ptr[q] = c /\ (Keeps(q)' => Keeps(q))
    BY <1>2, <2>3 DEF Keeps, Holds
  <2>6. b # proxy_dict[c]
    <3>1. (proxy_dict[d] = b /\ b # NULL) \/ NoObject(b) BY <1>0, ReturnReads
    <3> QED BY <1>0, <2>1, <2>3, <3>1 DEF Shape, Registry, NoObject
  <2>7. \A l \in Loc : pointing_dict'[l] = proxy_dict[c]
          => pointing_dict[l] = proxy_dict[c]
    BY <1>2, <2>6
  <2>8. \A x \in Place : Stored(x)' /\ field'[x] = c => Stored(x) /\ field[x] = c
    BY <1>0, ReturnReads
  <2>9. \A s \in Slots(c) : pointing_dict[s] = NULL => pointing_dict'[s] = NULL
    BY <1>0, ReturnReads DEF Slots, Place
  <2>10. notify_dest' = NULL /\ notify_dest' \notin Slot
    BY <1>1 DEF Idle, Quiet, storeVars
  <2>11. LeavesAlone(c)
    BY <1>1, <2>4, <2>5, <2>7, <2>8, <2>9, <2>10 DEF LeavesAlone
  <2> QED BY <1>0, <2>1, <2>11, UnreachableStays
<1>4. ForgottenBare'
  BY <1>0, <1>1, ReturnReads DEF ForgottenBare, histVars, TypeOK, Place
<1> QED BY <1>1, <1>3, <1>4 DEF Condemned, histVars

LEMMA CInvNext == CInv /\ [Next]_vars => CInv'
<1> SUFFICES ASSUME CInv, [Next]_vars PROVE CInv'
  OBVIOUS
<1>1. PInv' /\ IInv' BY PInvNext DEF CInv, PInv
<1>2. Condemned' /\ ForgottenBare'
  <2>1. CASE Dealloc BY <1>1, <2>1, DeallocCondemned
  <2>2. CASE FinishStore BY <1>1, <2>2, FinishStoreCondemned
  <2>3. CASE \/ \E p \in Proxy, s \in Slot, val \in Chunk \cup {NULL} : SetField(p, s, val)
             \/ \E dest \in Place, val \in Chunk \cup {NULL} : CWrite(dest, val)
             \/ \E s \in Slot, val \in Chunk \cup {NULL} : InitStore(s, val)
    BY <1>1, <2>3, StoresCondemned
  <2>4. CASE \/ CFreeSweep \/ CFreeEnd \/ ClearEnd \/ EndInit \/ InitFail \/ UNCHANGED vars
             \/ AttributesFail
             \/ \E p \in Proxy : ClearStart(p) \/ PyIncref(p) \/ PyDecref(p) \/ Reinit(p)
                               \/ ReadAttribute(p) \/ CallbackLeaks(p)
             \/ \E s \in Slot : ClearSlot(s) \/ InitZero(s)
    BY <1>1, <2>4, QuietCondemned
  <2>5. CASE \E g \in 0..OldestGen : Collect(g) BY <1>1, <2>5, CollectCondemned
  <2>6. CASE \E c \in Chunk : \/ \E p \in Proxy : Construct(p, c)
                              \/ \E v \in Var : CMalloc(c, v)
                              \/ CFree(c)
    BY <1>1, <2>6, HeapCondemned
  <2>7. CASE \E c \in Chunk, b \in Proxy :
               ReturnBase(c, b) \/ \E d \in Proxy : ReturnDerived(c, b, d)
    BY <1>1, <2>7, ReturnCondemned
  <2> QED BY <2>1, <2>2, <2>3, <2>4, <2>5, <2>6, <2>7
          DEF Next, Runtime, PythonStep, CStep
<1> QED BY <1>1, <1>2 DEF CInv

LEMMA CollectorInvariant == Spec => []CInv
<1>1. Init => CInv
  BY PInvInit DEF Init, CInv, Condemned, ForgottenBare
<1> QED BY <1>1, CInvNext, PTL DEF Spec

(* Between operations, a chunk the collector condemned would still have a  *)
(* reference, and all references it can have are stale entries.            *)
LEMMA CondemnedFreed == CInv => ClearedIsFreed
<1> USE DistinctAssumption
<1> SUFFICES ASSUME CInv, Idle, StaleEntries = {}, NEW c \in condemned PROVE FALSE
  BY DEF ClearedIsFreed
<1> DEFINE b == proxy_dict[c]
<1>0. /\ IInv /\ TypeOK /\ Shape /\ Condemned /\ ForgottenBare /\ Phases
      /\ \A q \in Proxy : pc[q] = "idle"
  BY QuietIdle DEF CInv, PInv, IInv, Idle, Quiet
<1>1. c \in Chunk /\ Unreachable(c) BY <1>0 DEF Condemned, TypeOK
<1>2. b \in Proxy /\ p_ptr[b] = c /\ ~Keeps(b)
  BY <1>0, <1>1 DEF Unreachable, Shape, PolicyHasProxy, GcManaged, TypeOK
<1>3. PICK l \in Loc : pointing_dict[l] = b
  <2>1. ob_refcnt[b] > 0 BY <1>0, <1>1, <1>2 DEF Shape, Objects
  <2>2. pyrefs[b] = 0 /\ leaked[b] = 0 BY <1>0, <1>2 DEF Keeps, Holds, TypeOK
  <2>3. gc_hold # b BY <1>2 DEF Idle
  <2>4. ob_refcnt[b] = pyrefs[b] + leaked[b] + Cardinality(EntriesOf(b))
                       + (IF gc_hold = b THEN 1 ELSE 0)
    BY <1>0, <1>2 DEF IInv, CountsExact
  <2>5. Cardinality(EntriesOf(b)) \in Nat BY EntriesFinite DEF EntriesOf
  <2>6. Cardinality(EntriesOf(b)) # 0 BY <2>1, <2>2, <2>3, <2>4, <2>5
  <2>7. EntriesOf(b) # {} BY <2>6, FS_EmptySet
  <2> QED BY <2>7 DEF EntriesOf
<1>4. l \in Slot /\ l \in Place /\ Owner[l] \in Chunk
  BY <1>1, <1>3, OwnerAssumption DEF Unreachable, Place
<1>5. Live(Owner[l]) /\ field[l] = c BY <1>2, <1>3, <1>4 DEF StaleEntries
<1>6. ~Readable(l) BY <1>1, <1>4, <1>5 DEF Unreachable, Stored, Idle, Quiet
<1>7. l \notin forgotten BY <1>0, <1>2, <1>3 DEF ForgottenBare
<1>8. ~init_fresh BY <1>0 DEF Idle, Phases
<1>9. Owner[l] \notin condemned
  <2> SUFFICES ASSUME Owner[l] \in condemned PROVE FALSE
    OBVIOUS
  <2>1. Unreachable(Owner[l]) /\ gc_set = {} BY <1>0 DEF Condemned, Idle
  <2>2. pointing_dict[l] = NULL BY <1>4, <2>1 DEF Unreachable, Slots
  <2> QED BY <1>2, <1>3, <2>2
<1>10. InUse(Owner[l])
  <2>1. "manual" \in policies[Owner[l]] \/ GcManaged(Owner[l])
    BY <1>0, <1>4, <1>5 DEF Live, GcManaged, TypeOK
  <2>2. GcManaged(Owner[l]) => proxy_dict[Owner[l]] \in Proxy
    BY <1>0, <1>4 DEF Shape, PolicyHasProxy, TypeOK
  <2> QED BY <1>0, <2>1, <2>2 DEF InUse
<1> QED BY <1>4, <1>6, <1>7, <1>8, <1>9, <1>10 DEF Readable

(* A pass of the collector over chunks C does not own frees every one of   *)
(* them (tp_traverse and tp_clear visit the same references), as long as   *)
(* no entry is stale: no object is cleared and goes on being used.         *)
THEOREM CondemnedAlwaysFreed == Spec => []ClearedIsFreed
BY CondemnedFreed, CollectorInvariant, PTL

-----------------------------------------------------------------------------
(* Programs in which no object is initialised twice: an entry is for the   *)
(* pointer that is there.                                                  *)

(* The fields of c are being let go of. *)
Swept(c) == freeing = c \/ \E p \in Proxy : pc[p] = "sweep" /\ p_ptr[p] = c

EntriesFit ==
  \A x \in Place : pointing_dict[x] # NULL =>
    /\ field[x] = p_ptr[pointing_dict[x]]
    /\ x \in Slot => Live(Owner[x]) \/ Swept(Owner[x])

(* A store finds no entry left at its destination ... *)
DestEmpty == notify_dest # NULL => pointing_dict[notify_dest] = NULL

(* ... whose memory is not freed before the store is done. *)
DestSafe ==
  notify_dest \in Slot =>
    LET c == Owner[notify_dest] IN
    "manual" \in policies[c] \/ Held(c) \/ \E v \in Var : field[v] = c

(* Nothing was stored yet where an initialiser has still to write. *)
InitClean == \A s \in init_todo : s # notify_dest /\ pointing_dict[s] = NULL

Fit == EntriesFit /\ DestEmpty /\ DestSafe /\ InitClean
FitInv == PInv /\ (~Reinits => Fit)

(* Entries that remain stay as they fit, when their chunk stays or is      *)
(* swept.                                                                  *)
LEMMA FitStays ==
  ASSUME IInv, EntriesFit,
         \A x \in Place : pointing_dict'[x] # NULL =>
           pointing_dict'[x] = pointing_dict[x] /\ field'[x] = field[x],
         \A q \in Proxy : pc[q] = "idle" /\ p_ptr[q] # NULL => p_ptr'[q] = p_ptr[q],
         \A x \in Slot : pointing_dict'[x] # NULL =>
           \/ Live(Owner[x]) /\ policies'[Owner[x]] # {}
           \/ Live(Owner[x]) /\ Swept(Owner[x])'
           \/ Swept(Owner[x]) /\ Swept(Owner[x])'
           \/ Swept(Owner[x]) /\ policies'[Owner[x]] # {}
  PROVE  EntriesFit'
<1> SUFFICES ASSUME NEW x \in Place, pointing_dict'[x] # NULL
             PROVE  /\ field'[x] = p_ptr'[pointing_dict'[x]]
                    /\ x \in Slot => Live(Owner[x])' \/ Swept(Owner[x])'
  BY DEF EntriesFit
<1>1. /\ pointing_dict'[x] = pointing_dict[x] /\ field'[x] = field[x]
      /\ field[x] = p_ptr[pointing_dict[x]]
  BY DEF EntriesFit
<1>2. pointing_dict[x] \in Proxy /\ x \in Loc
  BY <1>1 DEF IInv, TypeOK, Loc
<1>3. pc[pointing_dict[x]] = "idle" /\ p_ptr[pointing_dict[x]] # NULL
  BY <1>2, Referenced
<1>4. p_ptr'[pointing_dict'[x]] = p_ptr[pointing_dict[x]] BY <1>1, <1>2, <1>3
<1> QED BY <1>1, <1>4 DEF Live

(* Letting go of a pointer removes its entry. *)
LEMMA Unrecorded ==
  ASSUME IInv, EntriesFit, NEW x \in Place,
         IF GcManaged(field[x]) THEN DelRef(x)
         ELSE UNCHANGED <<pointing_dict, ob_refcnt, stackVars>>
  PROVE  /\ pointing_dict'[x] = NULL
         /\ \A l \in Loc : l # x => pointing_dict'[l] = pointing_dict[l]
         /\ \A p \in Proxy : pc'[p] = "sweep" <=> pc[p] = "sweep"
<1> USE DistinctAssumption
<1>0. TypeOK /\ x \in Loc BY DEF IInv, Loc
<1>1. CASE GcManaged(field[x])
  BY <1>0, <1>1, DelRefEffect DEF TypeOK
<1>2. CASE ~GcManaged(field[x])
  <2>1. pointing_dict[x] = NULL
    <3> SUFFICES ASSUME pointing_dict[x] # NULL PROVE FALSE
      OBVIOUS
    <3>1. GcManaged(p_ptr[pointing_dict[x]])
      BY <1>0, EntriesRegistered DEF EntriesSound
    <3> QED BY <1>2, <3>1 DEF EntriesFit
  <2> QED BY <1>2, <2>1 DEF stackVars
<1> QED BY <1>1, <1>2

(* A chunk being swept stays so until its fields are empty. *)
LEMMA SweptStays ==
  ASSUME freeing' = freeing, NEW c,
         \A p \in Proxy : pc[p] = "sweep" => pc'[p] = "sweep" /\ p_ptr'[p] = p_ptr[p],
         Swept(c)
  PROVE  Swept(c)'
BY DEF Swept

LEMMA SweepSlotFit ==
  ASSUME IInv, EntriesFit, NEW s \in Slot, SweepSlot(s) PROVE EntriesFit'
<1> USE DistinctAssumption
<1>0. TypeOK /\ s \in Place BY DEF IInv, Place
<1>1. /\ pointing_dict'[s] = NULL
      /\ \A l \in Loc : l # s => pointing_dict'[l] = pointing_dict[l]
      /\ \A p \in Proxy : pc'[p] = "sweep" <=> pc[p] = "sweep"
  BY <1>0, Unrecorded DEF SweepSlot
<1>2. /\ field' = [field EXCEPT ![s] = NULL] /\ UNCHANGED <<p_ptr, policies, freeing>>
  BY DEF SweepSlot, storeVars
<1>3. \A x \in Place : pointing_dict'[x] # NULL =>
        pointing_dict'[x] = pointing_dict[x] /\ field'[x] = field[x]
  BY <1>0, <1>1, <1>2 DEF Loc, TypeOK
<1>4. \A c : Swept(c) => Swept(c)' BY <1>1, <1>2, SweptStays
<1>5. \A x \in Slot : pointing_dict'[x] # NULL => Live(Owner[x]) \/ Swept(Owner[x])
  BY <1>3 DEF EntriesFit, Place
<1> QED BY <1>2, <1>3, <1>4, <1>5, FitStays DEF Live

LEMMA DeallocFit ==
  ASSUME IInv, IInv', Fit, Dealloc PROVE Fit'
<1> USE DistinctAssumption
<1>0. TypeOK /\ Shape /\ Settles BY DeallocSettles DEF IInv
<1>1. PICK p \in Proxy : \/ Unregister(p) \/ Sweep(p) \/ EndSweep(p) \/ Unmap(p)
                        \/ DropOwnRef(p) \/ FreeObject(p)
  BY DEF Dealloc
<1>2. EntriesFit'
  <2>1. EntriesFit BY DEF Fit
  <2>2. \A q \in Proxy : pc[q] = "idle" /\ p_ptr[q] # NULL => p_ptr'[q] = p_ptr[q]
    BY <1>0, <1>1 DEF Unregister, Sweep, EndSweep, Unmap, DropOwnRef, FreeObject,
       SweepSlot, proxyVars, TypeOK
  <2>3. CASE Sweep(p)
    BY <1>0, <2>1, <2>3, SweepSlotFit DEF Sweep, Slots, IInv
  <2>4. CASE EndSweep(p)
    <3>1. /\ UNCHANGED <<policies, field, pointing_dict, freeing, p_ptr>>
          /\ pc' = [pc EXCEPT ![p] = "unmap"]
      BY <2>4 DEF EndSweep, heapVars, storeVars, proxyVars
    <3>2. ASSUME NEW x \in Slot, pointing_dict[x] # NULL
          PROVE  /\ Live(Owner[x]) \/ Swept(Owner[x])
                 /\ Swept(Owner[x]) => Swept(Owner[x])'
      <4>1. /\ field[x] = p_ptr[pointing_dict[x]] /\ x \in Loc
            /\ Live(Owner[x]) \/ Swept(Owner[x])
        BY <2>1, <3>2 DEF EntriesFit, Place, Loc
      <4>2. pointing_dict[x] \in Proxy BY <1>0, <3>2, <4>1 DEF TypeOK
      <4>3. field[x] # NULL BY <4>1, <4>2, Referenced
      <4>4. Owner[x] # p_ptr[p] BY <2>4, <4>3 DEF EndSweep, Slots
      <4>5. ASSUME NEW q \in Proxy, pc[q] = "sweep", p_ptr[q] = Owner[x]
            PROVE  pc'[q] = "sweep" /\ p_ptr'[q] = Owner[x]
        BY <1>0, <3>1, <4>4, <4>5 DEF TypeOK
      <4> QED BY <3>1, <4>1, <4>5 DEF Swept
    <3> QED BY <2>1, <2>2, <3>1, <3>2, FitStays DEF Live
  <2>5. CASE Unregister(p) \/ Unmap(p) \/ DropOwnRef(p) \/ FreeObject(p)
    <3>1. /\ \A x \in Place : pointing_dict'[x] # NULL =>
               pointing_dict'[x] = pointing_dict[x] /\ field'[x] = field[x]
          /\ freeing' = freeing
      <4>1. UNCHANGED <<field, freeing>>
        BY <2>5 DEF Unregister, Unmap, DropOwnRef, FreeObject, heapVars, storeVars
      <4> QED BY <1>0, <4>1 DEF Settles, Loc
    <3>2. \A q \in Proxy : pc[q] = "sweep" => pc'[q] = "sweep" /\ p_ptr'[q] = p_ptr[q]
      <4>1. CASE DropOwnRef(p)
        <5>1. DelRef(p) /\ p \in Loc /\ p_ptr' = p_ptr BY <4>1 DEF DropOwnRef, Loc
        <5> QED BY <5>1, DelRefEffect
      <4>2. CASE Unregister(p) \/ Unmap(p) \/ FreeObject(p)
        BY <1>0, <4>2 DEF Unregister, Unmap, FreeObject, proxyVars, TypeOK
      <4> QED BY <2>5, <4>1, <4>2
    <3>3. \A c : Swept(c) => Swept(c)' BY <3>1, <3>2, SweptStays
    <3>4. \A x \in Slot : pointing_dict'[x] # NULL => Live(Owner[x]) \/ Swept(Owner[x])
      BY <2>1, <3>1 DEF EntriesFit, Place
    <3>5. \A c \in Chunk : Live(c) => policies'[c] # {} \/ Swept(c)'
      <4>1. CASE Unregister(p) /\ proxy_dict[p_ptr[p]] = p
        <5>1. p_ptr'[p] = p_ptr[p] /\ policies' = [policies EXCEPT ![p_ptr[p]] = @ \ {"gc"}]
              /\ (policies[p_ptr[p]] \ {"gc"} = {} => pc' = [pc EXCEPT ![p] = "sweep"])
          BY <4>1 DEF Unregister, proxyVars
        <5>2. policies[p_ptr[p]] \ {"gc"} = {} => pc'[p] = "sweep" BY <1>0, <5>1 DEF TypeOK
        <5>3. \A c \in Chunk : p_ptr[p] = c /\ policies[c] \ {"gc"} = {} => Swept(c)'
          BY <5>1, <5>2 DEF Swept
        <5> QED BY <1>0, <5>1, <5>3 DEF TypeOK, Live
      <4>2. CASE ~(Unregister(p) /\ proxy_dict[p_ptr[p]] = p)
        BY <2>5, <4>2 DEF Unregister, Unmap, DropOwnRef, FreeObject, heapVars, Live
      <4> QED BY <4>1, <4>2
    <3>6. \A x \in Slot : Owner[x] \in Chunk BY OwnerAssumption
    <3> QED BY <2>1, <2>2, <3>1, <3>3, <3>4, <3>5, <3>6, FitStays
  <2> QED BY <1>1, <2>3, <2>4, <2>5
<1>3. /\ UNCHANGED <<notify_dest, init_todo>>
      /\ \A l \in Loc : pointing_dict'[l] \in {pointing_dict[l], NULL}
  BY <1>0, DeallocKeeps DEF Settles, initVars
<1>4. DestEmpty' /\ InitClean'
  BY <1>0, <1>3 DEF Fit, DestEmpty, InitClean, TypeOK, Loc, Place
<1>5. DestSafe'
  <2> SUFFICES ASSUME notify_dest \in Slot
               PROVE  \/ "manual" \in policies'[Owner[notify_dest]]
                      \/ Held(Owner[notify_dest])'
                      \/ \E v \in Var : field'[v] = Owner[notify_dest]
    BY <1>3 DEF DestSafe
  <2>1. PICK c \in Chunk : c = Owner[notify_dest] BY OwnerAssumption
  <2>2. CASE "manual" \in policies[c] BY <1>0, <2>1, <2>2 DEF Settles
  <2>3. CASE Held(c)
    <3>1. PICK q \in Proxy : Holds(q) /\ p_ptr[q] = c BY <2>3 DEF Held
    <3>2. Holds(q)' /\ p_ptr'[q] = c BY <3>1, DeallocKeeps
    <3> QED BY <1>3, <2>1, <3>2 DEF Held
  <2>4. CASE \E v \in Var : field[v] = c
    <3>1. PICK v \in Var : field[v] = c BY <2>4
    <3>2. v \in Place /\ v \notin Slot BY DEF Place
    <3> QED BY <2>1, <3>1, <3>2, DeallocKeeps
  <2> QED BY <2>1, <2>2, <2>3, <2>4 DEF Fit, DestSafe
<1> QED BY <1>2, <1>4, <1>5 DEF Fit

LEMMA QuietFit ==
  ASSUME IInv, Phases, Fit,
         \/ CFreeSweep \/ CFreeEnd \/ ClearEnd \/ EndInit \/ InitFail
         \/ ~Reinits /\ AttributesFail
         \/ \E p \in Proxy : ClearStart(p) \/ PyIncref(p) \/ PyDecref(p)
                           \/ ReadAttribute(p) \/ CallbackLeaks(p)
         \/ \E s \in Slot : ClearSlot(s) \/ InitZero(s)
         \/ \E g \in 0..OldestGen : Collect(g)
  PROVE  Fit'
<1> USE DistinctAssumption
<1>0. TypeOK /\ EntriesFit BY DEF IInv, Fit
<1>1. notify_dest = NULL /\ notify_dest' = NULL /\ init_todo' \subseteq init_todo
  BY DEF CFreeSweep, CFreeEnd, ClearEnd, EndInit, InitFail, AttributesFail, ReadAttribute,
     CallbackLeaks, ClearStart, PyIncref, PyDecref, ClearSlot, InitZero, Collect, SweepSlot,
     Idle, Quiet, Phases, storeVars, initVars
<1>2. \A l \in Loc : pointing_dict'[l] \in {pointing_dict[l], NULL}
  <2>1. UNCHANGED pointing_dict \/ \E l \in Loc : DelRef(l)
    BY DEF CFreeSweep, CFreeEnd, ClearEnd, EndInit, InitFail, AttributesFail,
       ReadAttribute, CallbackLeaks, ClearStart, PyIncref, PyDecref, ClearSlot, InitZero,
       Collect, SweepSlot, Slots, Loc, Place
  <2> QED BY <2>1, DelRefEffect
<1>3. ASSUME \A p \in Proxy : pc[p] = "sweep" => pc'[p] = "sweep",
             \A x \in Place : pointing_dict'[x] # NULL => field'[x] = field[x],
             UNCHANGED <<policies, p_ptr, freeing>>
      PROVE  EntriesFit'
  <2>1. \A c : Swept(c) => Swept(c)' BY <1>3, SweptStays
  <2>2. \A x \in Place : pointing_dict'[x] # NULL =>
          pointing_dict'[x] = pointing_dict[x] /\ field'[x] = field[x]
    BY <1>2, <1>3 DEF Loc
  <2>3. \A x \in Slot : pointing_dict'[x] # NULL => Live(Owner[x]) \/ Swept(Owner[x])
    BY <1>0, <2>2 DEF EntriesFit, Place
  <2> QED BY <1>0, <1>3, <2>1, <2>2, <2>3, FitStays DEF Live
<1>4. EntriesFit'
  <2>1. CASE CFreeSweep BY <1>0, <2>1, SweepSlotFit DEF CFreeSweep, Slots
  <2>2. CASE CFreeEnd
    <3>1. UNCHANGED <<policies, field, pointing_dict, pc, p_ptr>>
      BY <2>2 DEF CFreeEnd, heapVars, stackVars, proxyVars
    <3>2. ASSUME NEW x \in Slot, pointing_dict[x] # NULL
          PROVE  /\ Live(Owner[x]) \/ Swept(Owner[x])
                 /\ Swept(Owner[x]) => Swept(Owner[x])'
      <4>1. /\ field[x] = p_ptr[pointing_dict[x]] /\ x \in Loc
            /\ Live(Owner[x]) \/ Swept(Owner[x])
        BY <1>0, <3>2 DEF EntriesFit, Place, Loc
      <4>2. pointing_dict[x] \in Proxy BY <1>0, <3>2, <4>1 DEF TypeOK
      <4>3. field[x] # NULL BY <4>1, <4>2, Referenced
      <4>4. Owner[x] # freeing BY <2>2, <4>3 DEF CFreeEnd, Slots
      <4> QED BY <3>1, <4>1, <4>4 DEF Swept
    <3> QED BY <1>0, <3>1, <3>2, FitStays DEF Live
  <2>3. CASE \E s \in Slot : ClearSlot(s)
    <3>1. PICK s \in Slot : ClearSlot(s) BY <2>3
    <3>2. s \in Loc /\ DelRef(s) /\ UNCHANGED <<field, policies, p_ptr, freeing>>
      BY <3>1 DEF ClearSlot, Loc, Place, heapVars, storeVars
    <3>3. \A p \in Proxy : pc[p] = "sweep" => pc'[p] = "sweep" BY <3>2, DelRefEffect
    <3> QED BY <1>3, <3>2, <3>3
  <2>4. CASE \E s \in Slot : InitZero(s)
    <3>1. PICK s \in Slot : InitZero(s) BY <2>4
    <3>2. s \in Place /\ pointing_dict[s] = NULL /\ field' = [field EXCEPT ![s] = NULL]
          /\ UNCHANGED <<pointing_dict, pc, policies, p_ptr, freeing>>
      BY <3>1 DEF InitZero, Fit, InitClean, Place, proxyVars, stackVars, storeVars
    <3>3. \A x \in Place : pointing_dict'[x] # NULL => field'[x] = field[x]
      BY <1>0, <3>2 DEF TypeOK
    <3> QED BY <1>3, <3>2, <3>3
  <2>5. CASE ClearEnd \/ InitFail \/ \E p \in Proxy : PyDecref(p)
    <3>1. UNCHANGED <<field, pointing_dict, policies, p_ptr, freeing>>
      BY <2>5 DEF ClearEnd, InitFail, PyDecref, heapVars, storeVars
    <3>2. \A p \in Proxy : pc[p] = "idle"
      BY <2>5, QuietIdle DEF ClearEnd, InitFail, PyDecref, Idle, Quiet
    <3> QED BY <1>3, <3>1, <3>2
  <2>6. CASE \/ EndInit \/ AttributesFail
             \/ \E p \in Proxy : ClearStart(p) \/ PyIncref(p) \/ ReadAttribute(p)
                               \/ CallbackLeaks(p)
             \/ \E g \in 0..OldestGen : Collect(g)
    <3>1. UNCHANGED <<field, pointing_dict, policies, p_ptr, freeing, pc>>
      BY <2>6 DEF EndInit, AttributesFail, ReadAttribute, CallbackLeaks, ClearStart,
         PyIncref, Collect, heapVars, storeVars, stackVars, proxyVars
    <3> QED BY <1>0, <3>1 DEF EntriesFit, Live, Swept
  <2> QED BY <2>1, <2>2, <2>3, <2>4, <2>5, <2>6
<1>5. DestEmpty' /\ DestSafe' BY <1>1 DEF DestEmpty, DestSafe
<1>6. InitClean'
  BY <1>0, <1>1, <1>2 DEF Fit, InitClean, TypeOK, Loc, Place
<1> QED BY <1>4, <1>5, <1>6 DEF Fit

(* A store begins: its destination is emptied, and somebody keeps it. *)
LEMMA StoresFit ==
  ASSUME IInv, Phases, Initialising, Fit,
         \/ \E p \in Proxy, s \in Slot, val \in Chunk \cup {NULL} : SetField(p, s, val)
         \/ \E dest \in Place, val \in Chunk \cup {NULL} : CWrite(dest, val)
         \/ \E s \in Slot, val \in Chunk \cup {NULL} : InitStore(s, val)
  PROVE  Fit'
<1> USE DistinctAssumption
<1>0. TypeOK /\ EntriesFit BY DEF IInv, Fit
<1>1. PICK dest \in Place, val \in Chunk \cup {NULL} :
        \/ \E p \in Proxy : dest \in Slot /\ SetField(p, dest, val)
        \/ CWrite(dest, val)
        \/ dest \in Slot /\ InitStore(dest, val)
  BY DEF Place
<1>2. /\ BeginStore(dest, val) /\ notify_dest = NULL /\ notify_dest' = dest
      /\ UNCHANGED <<heapVars, p_ptr, pyrefs, leaked, freeing>>
  BY <1>1 DEF SetField, CWrite, InitStore, BeginStore, Idle, Quiet
<1>3. /\ pointing_dict'[dest] = NULL
      /\ \A l \in Loc : l # dest => pointing_dict'[l] = pointing_dict[l]
      /\ \A p \in Proxy : pc[p] = "sweep" => pc'[p] = "sweep"
  BY <1>0, <1>2, Unrecorded DEF BeginStore
<1>4. EntriesFit'
  <2>1. \A c : Swept(c) => Swept(c)' BY <1>2, <1>3, SweptStays
  <2>2. \A x \in Place : pointing_dict'[x] # NULL =>
          pointing_dict'[x] = pointing_dict[x] /\ field'[x] = field[x]
    BY <1>2, <1>3 DEF heapVars, Loc
  <2>3. \A x \in Slot : pointing_dict'[x] # NULL => Live(Owner[x]) \/ Swept(Owner[x])
    BY <1>0, <2>2 DEF EntriesFit, Place
  <2> QED BY <1>0, <1>2, <2>1, <2>2, <2>3, FitStays DEF Live, heapVars
<1>5. DestEmpty' BY <1>2, <1>3 DEF DestEmpty
<1>6. DestSafe'
  <2> SUFFICES ASSUME dest \in Slot
               PROVE  \/ "manual" \in policies[Owner[dest]]
                      \/ Held(Owner[dest])
                      \/ \E v \in Var : field[v] = Owner[dest]
    BY <1>2 DEF DestSafe, Held, Holds, heapVars
  <2>1. CASE CWrite(dest, val) BY <2>1 DEF CWrite, CReaches
  <2>2. CASE \E p \in Proxy : SetField(p, dest, val)
    BY <2>2 DEF SetField, Slots, Held
  <2>3. CASE InitStore(dest, val)
    BY <1>0, <2>3 DEF InitStore, Initialising, Slots, Held, TypeOK
  <2> QED BY <1>1, <2>1, <2>2, <2>3
<1>7. InitClean'
  <2>1. init_todo' \subseteq init_todo \ {dest}
    <3>1. CASE InitStore(dest, val) BY <3>1 DEF InitStore
    <3>2. CASE ~InitStore(dest, val)
      <4>1. Idle /\ init_todo' = init_todo
        BY <1>1, <3>2 DEF SetField, CWrite, initVars
      <4>2. init_todo = {} BY <4>1 DEF Idle, Phases
      <4> QED BY <4>1, <4>2
    <3> QED BY <3>1, <3>2
  <2> QED BY <1>0, <1>2, <1>3, <2>1 DEF Fit, InitClean, TypeOK, Loc, Place
<1> QED BY <1>4, <1>5, <1>6, <1>7 DEF Fit

(* The store is done: the new entry is for the new pointer. *)
LEMMA FinishStoreFit ==
  ASSUME PInv, Fit, FinishStore PROVE Fit'
<1> USE DistinctAssumption
<1>0. IInv /\ TypeOK /\ Shape /\ EntriesFit /\ Tracked BY DEF PInv, IInv, Fit
<1>1. /\ notify_dest # NULL /\ notify_dest' = NULL /\ pointing_dict[notify_dest] = NULL
      /\ UNCHANGED <<policies, p_ptr, freeing, init_todo>>
  BY DEF FinishStore, initVars, Fit, DestEmpty
<1>2. UNCHANGED stackVars BY <1>1 DEF FinishStore, AddRefTo, NoDealloc
<1>3. \A x \in Place : x # notify_dest =>
        field'[x] = field[x] /\ pointing_dict'[x] = pointing_dict[x]
  BY <1>0, FinishStoreEffect DEF TypeOK, Loc
<1>4. EntriesFit'
  <2> SUFFICES ASSUME NEW x \in Place, pointing_dict'[x] # NULL
               PROVE  /\ field'[x] = p_ptr[pointing_dict'[x]]
                      /\ x \in Slot => Live(Owner[x]) \/ Swept(Owner[x])
    BY <1>1, <1>2 DEF EntriesFit, Live, Swept, stackVars
  <2>1. CASE x # notify_dest BY <1>0, <1>3, <2>1 DEF EntriesFit
  <2>2. CASE x = notify_dest
    <3>1. GcManaged(notify_val) /\ pointing_dict'[x] = proxy_dict[notify_val]
          /\ field'[x] = notify_val
      BY <1>0, <1>1, <2>2, FinishStoreEffect DEF TypeOK
    <3>2. p_ptr[proxy_dict[notify_val]] = notify_val
      BY <1>0, <3>1 DEF GcManaged, TypeOK, Shape, PolicyHasProxy
    <3>3. ASSUME x \in Slot PROVE Live(Owner[x])
      <4>1. PICK c \in Chunk : c = Owner[x] BY <3>3, OwnerAssumption
      <4>2. CASE Held(c)
        <5>1. PICK q \in Proxy : Holds(q) /\ p_ptr[q] = c BY <4>2 DEF Held
        <5>2. GcManaged(c) BY <1>0, <5>1, HeldRegistered
        <5> QED BY <4>1, <5>2 DEF GcManaged, Live
      <4>3. CASE \E v \in Var : field[v] = c
        <5>1. PICK v \in Var : field[v] = c BY <4>3
        <5>2. v \in Place /\ Stored(v) BY <2>2, <3>3, VarStored DEF Stored
        <5>3. Live(field[v]) BY <1>0, <5>1, <5>2, TrackedAlive
        <5> QED BY <4>1, <5>1, <5>3
      <4> QED BY <2>2, <3>3, <4>1, <4>2, <4>3 DEF Fit, DestSafe, Live
    <3> QED BY <3>1, <3>2, <3>3
  <2> QED BY <2>1, <2>2
<1>5. DestEmpty' /\ DestSafe' BY <1>1 DEF DestEmpty, DestSafe
<1>6. InitClean' BY <1>0, <1>1, <1>3 DEF Fit, InitClean, TypeOK, Place
<1> QED BY <1>4, <1>5, <1>6 DEF Fit

(* Memory that is allocated has no entries from an earlier life. *)
LEMMA AllocateFit ==
  ASSUME PInv, Fit, NEW c \in Chunk,
         (\E p \in Proxy : Construct(p, c)) \/ \E v \in Var : CMalloc(c, v)
  PROVE  Fit'
<1> USE DistinctAssumption
<1>0. IInv /\ TypeOK /\ EntriesFit /\ Idle /\ init_todo = {}
  BY DEF PInv, IInv, Fit, Construct, CMalloc, Idle, Phases
<1>1. ~Live(c) /\ UNCHANGED <<pointing_dict, storeVars, stackVars>>
  BY DEF Construct, CMalloc
<1>2. \A p \in Proxy : pc[p] = "idle" BY <1>0, QuietIdle DEF Idle, Quiet
<1>3. \A d : ~Swept(d) \/ d = NULL BY <1>0, <1>2 DEF Swept, Idle, Quiet
<1>4. \A s \in Slots(c) : pointing_dict[s] = NULL
  BY <1>0, <1>1, <1>3 DEF EntriesFit, Slots, Place
<1>5. \A x \in Place : pointing_dict[x] # NULL => field'[x] = field[x] /\ x \notin Slots(c)
  <2> SUFFICES ASSUME NEW x \in Place, pointing_dict[x] # NULL, x \notin Slots(c)
               PROVE  field'[x] = field[x]
    BY <1>4
  <2>1. pointing_dict[x] \in Proxy /\ x \in Loc BY <1>0 DEF TypeOK, Loc
  <2>2. field[x] # NULL BY <1>0, <2>1, Referenced DEF EntriesFit
  <2> QED BY <2>2 DEF Construct, CMalloc
<1>6. \A q \in Proxy : pc[q] = "idle" /\ p_ptr[q] # NULL => p_ptr'[q] = p_ptr[q]
  BY <1>0 DEF Construct, CMalloc, NoObject, TypeOK, proxyVars
<1>7. \A x \in Slot : pointing_dict[x] # NULL =>
        Live(Owner[x]) /\ policies'[Owner[x]] = policies[Owner[x]]
  <2> SUFFICES ASSUME NEW x \in Slot, pointing_dict[x] # NULL
               PROVE  Live(Owner[x]) /\ policies'[Owner[x]] = policies[Owner[x]]
    OBVIOUS
  <2>1. Owner[x] \in Chunk /\ x \in Place BY OwnerAssumption DEF Place
  <2>2. Owner[x] # c BY <1>5, <2>1 DEF Slots
  <2>3. Live(Owner[x]) BY <1>0, <1>3, <2>1 DEF EntriesFit
  <2> QED BY <1>0, <2>1, <2>2, <2>3, NewChunkReads DEF PInv
<1>8. EntriesFit' BY <1>0, <1>1, <1>5, <1>6, <1>7, FitStays DEF Live
<1>9. notify_dest' = NULL BY <1>0, <1>1 DEF Idle, Quiet, storeVars
<1>10. InitClean'
  <2>1. init_todo' \subseteq Slots(c)
    BY <1>0 DEF Construct, CMalloc, initVars
  <2>2. \A s \in Slots(c) : s # NULL BY DEF Slots
  <2> QED BY <1>1, <1>4, <1>9, <2>1, <2>2 DEF InitClean
<1> QED BY <1>8, <1>9, <1>10 DEF Fit, DestEmpty, DestSafe

LEMMA OthersFit ==
  ASSUME PInv, Fit, NEW c \in Chunk,
         CFree(c) \/ \E b \in Proxy :
                       ReturnBase(c, b) \/ \E d \in Proxy : ReturnDerived(c, b, d)
  PROVE  Fit'
<1> USE DistinctAssumption
<1>0. IInv /\ TypeOK /\ Shape /\ EntriesFit /\ Idle /\ init_todo = {}
  BY DEF PInv, IInv, Fit, CFree, ReturnBase, ReturnDerived, Idle, Phases
<1>1. notify_dest' = NULL /\ init_todo' = {}
  BY <1>0 DEF CFree, ReturnBase, ReturnDerived, Idle, Quiet, storeVars, initVars
<1>2. \A d : ~Swept(d) \/ d = NULL
  BY <1>0, QuietIdle DEF Swept, Idle, Quiet
<1>3. \A x \in Slot : pointing_dict[x] # NULL => Live(Owner[x]) /\ Owner[x] \in Chunk
  BY <1>0, <1>2, OwnerAssumption DEF EntriesFit, Place
<1>4. EntriesFit'
  <2>1. CASE CFree(c)
    <3>1. /\ UNCHANGED <<field, pointing_dict, p_ptr>>
          /\ policies' = [policies EXCEPT ![c] = @ \ {"manual"}]
          /\ policies[c] = {"manual"} => freeing' = c
      BY <2>1 DEF CFree, proxyVars
    <3>2. \A d \in Chunk : Live(d) => policies'[d] # {} \/ Swept(d)'
      BY <1>0, <3>1 DEF Live, Swept, TypeOK
    <3> QED BY <1>0, <1>3, <3>1, <3>2, FitStays
  <2>2. CASE \E b \in Proxy : ReturnBase(c, b) \/ \E d \in Proxy : ReturnDerived(c, b, d)
    <3>1. PICK b \in Proxy : ReturnBase(c, b) \/ \E d \in Proxy : ReturnDerived(c, b, d)
      BY <2>2
    <3>2. \A x \in Place : field'[x] = field[x] /\ pointing_dict'[x] = pointing_dict[x]
      BY <1>0, <3>1, ReturnReads
    <3>3. \A d \in Chunk : Live(d) => policies'[d] # {}
      <4>1. UNCHANGED policies \/ policies' = [policies EXCEPT ![c] = @ \cup {"gc"}]
        BY <1>0, <3>1, ReturnReads
      <4> QED BY <1>0, <4>1 DEF Live, TypeOK
    <3>4. \A q \in Proxy : pc[q] = "idle" /\ p_ptr[q] # NULL => p_ptr'[q] = p_ptr[q]
      <4>1. p_ptr[b] = NULL \/ p_ptr[b] = c
        <5>1. (proxy_dict[c] = b /\ b # NULL) \/ NoObject(b) BY <1>0, <3>1, ReturnReads
        <5> QED BY <1>0, <5>1 DEF Shape, Registry, NoObject
      <4>2. CASE ReturnBase(c, b) BY <1>0, <4>1, <4>2 DEF ReturnBase, TypeOK
      <4>3. CASE \E d \in Proxy : ReturnDerived(c, b, d)
        BY <1>0, <4>1, <4>3 DEF ReturnDerived, NoObject, TypeOK
      <4> QED BY <3>1, <4>2, <4>3
    <3> QED BY <1>0, <1>3, <3>2, <3>3, <3>4, FitStays DEF Place
  <2> QED BY <2>1, <2>2
<1> QED BY <1>1, <1>4 DEF Fit, DestEmpty, DestSafe, InitClean

LEMMA FitKept ==
  ASSUME PInv, IInv', Fit, ~Reinits, [Next]_vars PROVE Fit'
<1>0. IInv /\ Phases /\ Initialising BY DEF PInv
<1>1. CASE Dealloc BY <1>0, <1>1, DeallocFit
<1>2. CASE FinishStore BY <1>2, FinishStoreFit
<1>3. CASE \/ \E p \in Proxy, s \in Slot, val \in Chunk \cup {NULL} : SetField(p, s, val)
           \/ \E dest \in Place, val \in Chunk \cup {NULL} : CWrite(dest, val)
           \/ \E s \in Slot, val \in Chunk \cup {NULL} : InitStore(s, val)
  BY <1>0, <1>3, StoresFit
<1>4. CASE \/ CFreeSweep \/ CFreeEnd \/ ClearEnd \/ EndInit \/ InitFail
           \/ ~Reinits /\ AttributesFail
           \/ \E p \in Proxy : ClearStart(p) \/ PyIncref(p) \/ PyDecref(p)
                             \/ ReadAttribute(p) \/ CallbackLeaks(p)
           \/ \E s \in Slot : ClearSlot(s) \/ InitZero(s)
           \/ \E g \in 0..OldestGen : Collect(g)
  BY <1>0, <1>4, QuietFit
<1>5. CASE \E c \in Chunk : \/ \E p \in Proxy : Construct(p, c)
                            \/ \E v \in Var : CMalloc(c, v)
  BY <1>5, AllocateFit
<1>6. CASE \E c \in Chunk : \/ CFree(c)
                            \/ \E b \in Proxy : \/ ReturnBase(c, b)
                                               \/ \E d \in Proxy : ReturnDerived(c, b, d)
  BY <1>6, OthersFit
<1>7. CASE UNCHANGED vars
  BY <1>7 DEF vars, heapVars, proxyVars, stackVars, storeVars, initVars, Fit, EntriesFit,
     DestEmpty, DestSafe, InitClean, Live, Swept, Held, Holds
<1>8. ~\E p \in Proxy : Reinit(p) BY DEF Reinit
<1> QED BY <1>1, <1>2, <1>3, <1>4, <1>5, <1>6, <1>7, <1>8
        DEF Next, Runtime, PythonStep, CStep

LEMMA FitInvariant == Spec => []FitInv
<1>1. Init => FitInv
  <2> SUFFICES ASSUME Init PROVE Fit
    BY PInvInit DEF FitInv
  <2>1. \A x \in Place : pointing_dict[x] = NULL BY DEF Init, Loc
  <2> QED BY <2>1, DistinctAssumption
          DEF Init, Fit, EntriesFit, DestEmpty, DestSafe, InitClean
<1>2. FitInv /\ [Next]_vars => FitInv'
  <2> SUFFICES ASSUME FitInv, [Next]_vars PROVE FitInv'
    OBVIOUS
  <2>1. PInv' /\ IInv' BY PInvNext DEF FitInv, PInv
  <2>2. ASSUME ~Reinits PROVE Fit' BY <2>1, <2>2, FitKept DEF FitInv
  <2> QED BY <2>1, <2>2 DEF FitInv
<1> QED BY <1>1, <1>2, PTL DEF Spec

LEMMA FitNotStale == FitInv => NoStaleEntries
<1> USE DistinctAssumption
<1> SUFFICES ASSUME PInv, Fit, Quiet PROVE StaleEntries = {}
  BY DEF FitInv, NoStaleEntries
<1>1. IInv /\ EntriesFit BY DEF PInv, Fit
<1>2. \A p \in Proxy : pc[p] = "idle" BY <1>1, QuietIdle DEF Quiet
<1>3. \A s \in Slot : Owner[s] \in Chunk /\ s \in Place BY OwnerAssumption DEF Place
<1>4. \A c \in Chunk : ~Swept(c) BY <1>2 DEF Swept, Quiet
<1> QED BY <1>1, <1>3, <1>4 DEF StaleEntries, EntriesFit

(* Where __init__ never runs twice, an entry never outlives its pointer:   *)
(* what stores, frees and deallocations forget they also stop keeping      *)
(* alive, whatever deallocations interrupt them.                           *)
THEOREM EntriesNeverStale == Spec => []NoStaleEntries
BY FitNotStale, FitInvariant, PTL

(* There, the assertion at proxy.c:20 holds: a pointer recorded at an      *)
(* address never finds an entry for that address.                          *)
THEOREM FreshWithoutReinit == Spec => [](~Reinits => FreshFrom)
<1>1. FitInv => (~Reinits => FreshFrom) BY DEF FitInv, Fit, DestEmpty, FreshFrom
<1> QED BY <1>1, FitInvariant, PTL

(* And there, a pass of the collector over memory C does not own frees all *)
(* it took, without condition.                                             *)
THEOREM NothingHalfCleared == Spec => [](~Reinits /\ Idle => condemned = {})
<1>1. ClearedIsFreed /\ NoStaleEntries => (~Reinits /\ Idle => condemned = {})
  BY DEF ClearedIsFreed, NoStaleEntries, Idle
<1> QED BY <1>1, CondemnedAlwaysFreed, EntriesNeverStale, PTL

=============================================================================
