------------------------- MODULE BaseCreationProofs -------------------------
(***************************************************************************)
(* What the guard of Proxy_GetOrCreateBase achieves: for any number of     *)
(* chunks, proxies and types, existing already or not, and any depth of    *)
(* decodings inside decodings, no chunk is registered twice unless it is   *)
(* decoded inside the creation of its own type.                            *)
(*                                                                         *)
(* The argument: while a base is being created no other creation starts,   *)
(* and while a type is, none for the same chunk; so a chunk that was not   *)
(* registered when its creation started is not when it ends.               *)
(*                                                                         *)
(* Then, without any condition: a base somebody refers to is kept.  And    *)
(* whoever holds a proxy has the memory, until a decoding begins inside    *)
(* the creation of a base.                                                 *)
(***************************************************************************)
EXTENDS BaseCreation, SequenceTheorems, TLAPS

AtBase(k) == calls[k].at = "base"

(* A decoding that has found no base and will register one. *)
Pending(k) == calls[k].at \in {"type", "base"}

(* The flag says whether a base is being created; the decodings that began *)
(* meanwhile look up nothing and create nothing.                           *)
Guarded ==
  /\ creating_base <=> \E k \in 1..Len(calls) : AtBase(k)
  /\ \A j, k \in 1..Len(calls) : AtBase(j) /\ j < k => ~Pending(k)

(* Chunks a base is yet to be registered for have none, and are different  *)
(* ones.                                                                   *)
Unregistered ==
  /\ \A k \in 1..Len(calls) : Pending(k) => proxy_dict[calls[k].chunk] = NULL
  /\ \A j, k \in 1..Len(calls) :
       Pending(j) /\ Pending(k) /\ calls[j].chunk = calls[k].chunk => j = k

IInv == /\ TypeOK
        /\ ~failed => Guarded
        /\ ~raced => ~failed /\ Unregistered

-----------------------------------------------------------------------------
(* The decodings in progress are a stack. *)

LEMMA LastFrame ==
  ASSUME calls \in Seq(Frame), ~Idle
  PROVE  /\ Len(calls) \in Nat \ {0} /\ Top = calls[Len(calls)] /\ Top \in Frame
         /\ Front(calls) \in Seq(Frame) /\ Len(Front(calls)) = Len(calls) - 1
         /\ \A k \in 1..(Len(calls) - 1) : Front(calls)[k] = calls[k]
<1>1. calls \in Seq(Frame) /\ calls # <<>> BY DEF Idle
<1>2. Len(calls) \in Nat \ {0} BY <1>1
<1>3. Top = calls[Len(calls)] BY DEF Top, Last
<1>4. Front(calls) = SubSeq(calls, 1, Len(calls) - 1) BY DEF Front
<1>5. calls[Len(calls)] \in Frame BY <1>1, <1>2
<1>6. \A k \in 1..(Len(calls) - 1) : calls[k] \in Frame BY <1>1, <1>2
<1>7. /\ SubSeq(calls, 1, Len(calls) - 1) \in Seq(Frame)
      /\ Len(SubSeq(calls, 1, Len(calls) - 1)) = Len(calls) - 1
      /\ \A k \in 1..(Len(calls) - 1) : SubSeq(calls, 1, Len(calls) - 1)[k] = calls[k]
  <2> DEFINE m == Len(calls) - 1
  <2>0. m \in Nat BY <1>2
  <2> HIDE DEF m
  <2>1. m \in Int /\ m - 1 + 1 = m /\ m = (IF 1 <= m THEN m - 1 + 1 ELSE 0)
    BY <2>0
  <2>2. \A k \in 1..m : 1 + k - 1 = k BY <2>0
  <2>3. /\ SubSeq(calls, 1, m) \in Seq(Frame)
        /\ Len(SubSeq(calls, 1, m)) = IF 1 <= m THEN m - 1 + 1 ELSE 0
        /\ \A k \in 1..(m - 1 + 1) : SubSeq(calls, 1, m)[k] = calls[1 + k - 1]
    BY <1>6, <2>1, SubSeqProperties DEF m
  <2>4. \A k \in 1..m : SubSeq(calls, 1, m)[k] = calls[k] BY <2>1, <2>2, <2>3
  <2> QED BY <2>1, <2>3, <2>4 DEF m
<1> QED BY <1>2, <1>3, <1>4, <1>5, <1>7

(* The running decoding ends. *)
LEMMA PopKeeps ==
  ASSUME IInv, At("proxy"), ~failed, calls' = Front(calls), UNCHANGED creating_base,
         UNCHANGED <<owned, proxy_dict, known, failed, history>>, held' \subseteq Proxy,
         p_ptr' \in [Proxy -> Chunk \cup {NULL}],
         anchor' \in [Proxy -> Proxy \cup {NULL}]
  PROVE  IInv'
<1>0. TypeOK /\ Guarded BY DEF IInv
<1> DEFINE n == Len(calls)
<1>1. /\ n \in Nat \ {0} /\ Top = calls[n] /\ calls' \in Seq(Frame)
      /\ Len(calls') = n - 1 /\ \A k \in 1..(n - 1) : calls'[k] = calls[k]
  BY <1>0, LastFrame DEF At, TypeOK
<1>2. ~AtBase(n) BY <1>1 DEF At, AtBase
<1>3. Len(calls') <= MaxDepth BY <1>0, <1>1, BoundAssumption DEF TypeOK
<1>4. \A k \in 1..n : k # n => k \in 1..(n - 1) BY <1>1
<1>5. Guarded' BY <1>0, <1>1, <1>2, <1>4 DEF Guarded, AtBase, Pending
<1>6. ASSUME ~raced PROVE Unregistered'
  BY <1>1, <1>4, <1>6 DEF IInv, Unregistered, Pending
<1>7. TypeOK' BY <1>0, <1>1, <1>3 DEF TypeOK, history
<1> QED BY <1>5, <1>6, <1>7 DEF IInv, history

(* A decoding starts: nothing, one that has its base, or the only one that *)
(* is to register its chunk.                                               *)
LEMMA DecodeKeeps ==
  ASSUME IInv, NEW c \in Chunk, Decode(c) PROVE IInv'
<1>0. TypeOK /\ Guarded BY DEF IInv, Decode, PythonRuns
<1> DEFINE n == Len(calls)
           f == Lookup(c)
           racing == \E k \in 1..n : calls[k].at = "type" /\ calls[k].chunk = c
<1>1. /\ n < MaxDepth /\ ~failed /\ calls' = Append(calls, f)
      /\ creating_base' = (creating_base \/ f.at = "base")
      /\ raced' = (raced \/ racing)
      /\ interrupted' = (interrupted \/ creating_base)
      /\ UNCHANGED <<owned, p_ptr, anchor, proxy_dict, held, known, failed>>
  BY DEF Decode, PythonRuns
<1>2. /\ f \in Frame /\ f.chunk = c
      /\ (f.at \in {"type", "base"} => ~creating_base /\ proxy_dict[c] = NULL)
  <2>1. proxy_dict[c] \in Proxy \cup {NULL} BY <1>0 DEF TypeOK
  <2>2. CASE creating_base
    <3>1. f = [chunk |-> c, base |-> NULL, at |-> "proxy"] BY <2>2 DEF Lookup
    <3> QED BY <3>1 DEF Frame
  <2>3. CASE ~creating_base /\ proxy_dict[c] # NULL
    <3>1. f = [chunk |-> c, base |-> proxy_dict[c], at |-> "proxy"]
      BY <2>3 DEF Lookup
    <3> QED BY <2>1, <3>1 DEF Frame
  <2>4. CASE ~creating_base /\ proxy_dict[c] = NULL
    <3>1. \/ f = [chunk |-> c, base |-> NULL, at |-> "base"]
          \/ f = [chunk |-> c, base |-> NULL, at |-> "type"]
      BY <2>4 DEF Lookup
    <3> QED BY <2>4, <3>1 DEF Frame
  <2> QED BY <2>2, <2>3, <2>4
<1> HIDE DEF f
<1>4. /\ n \in Nat /\ calls' \in Seq(Frame) /\ Len(calls') = n + 1
      /\ calls'[n + 1] = f /\ \A k \in 1..n : calls'[k] = calls[k]
  BY <1>0, <1>1, <1>2 DEF TypeOK
<1>5. \A k \in 1..(n + 1) : k = n + 1 \/ (k \in 1..n /\ k < n + 1) BY <1>4
<1>6. Guarded'
  <2>1. creating_base' <=> \E k \in 1..Len(calls') : AtBase(k)'
    <3>1. (\E k \in 1..Len(calls') : AtBase(k)')
          <=> f.at = "base" \/ \E k \in 1..n : AtBase(k)
      BY <1>4, <1>5, n + 1 \in 1..(n + 1) DEF AtBase
    <3>2. creating_base <=> \E k \in 1..n : AtBase(k) BY <1>0 DEF Guarded
    <3> QED BY <1>1, <3>1, <3>2
  <2>2. ASSUME NEW j \in 1..(n + 1), NEW k \in 1..(n + 1), AtBase(j)', j < k
        PROVE  ~Pending(k)'
    <3>1. j \in 1..n /\ AtBase(j) BY <1>4, <1>5, <2>2 DEF AtBase
    <3>2. CASE k = n + 1
      <4>1. creating_base BY <1>0, <3>1 DEF Guarded
      <4> QED BY <1>2, <1>4, <3>2, <4>1 DEF Pending
    <3>3. CASE k \in 1..n BY <1>0, <1>4, <2>2, <3>1, <3>3 DEF Guarded, Pending
    <3> QED BY <1>5, <3>2, <3>3
  <2> QED BY <1>4, <2>1, <2>2 DEF Guarded
<1>7. ASSUME ~raced' PROVE ~raced /\ Unregistered'
  <2>1. ~raced /\ ~racing BY <1>1, <1>7
  <2>2. Unregistered BY <2>1 DEF IInv
  <2>3. \A k \in 1..Len(calls') : Pending(k)' => proxy_dict'[calls'[k].chunk] = NULL
    BY <1>1, <1>2, <1>4, <1>5, <2>2 DEF Unregistered, Pending
  <2>4. ASSUME NEW k \in 1..n, Pending(k), f.at \in {"type", "base"}
        PROVE  calls[k].chunk # c
    <3>1. ~AtBase(k) BY <1>0, <1>2, <2>4 DEF Guarded
    <3>2. calls[k].at = "type" BY <2>4, <3>1 DEF Pending, AtBase
    <3> QED BY <2>1, <3>2
  <2>5. ASSUME NEW j \in 1..(n + 1), NEW k \in 1..(n + 1), Pending(j)', Pending(k)',
               calls'[j].chunk = calls'[k].chunk
        PROVE  j = k
    <3>1. CASE j \in 1..n /\ k \in 1..n
      BY <1>4, <2>2, <2>5, <3>1 DEF Unregistered, Pending
    <3>2. CASE j = n + 1 /\ k \in 1..n
      BY <1>2, <1>4, <2>4, <2>5, <3>2 DEF Pending
    <3>3. CASE j \in 1..n /\ k = n + 1
      BY <1>2, <1>4, <2>4, <2>5, <3>3 DEF Pending
    <3> QED BY <1>5, <3>1, <3>2, <3>3
  <2> QED BY <1>4, <2>1, <2>3, <2>5 DEF Unregistered
<1>8. Len(calls') <= MaxDepth BY <1>1, <1>4, BoundAssumption
<1>9. TypeOK'
  <2>1. creating_base' \in BOOLEAN /\ raced' \in BOOLEAN /\ interrupted' \in BOOLEAN
    BY <1>0, <1>1 DEF TypeOK
  <2> QED BY <1>0, <1>1, <1>4, <1>8, <2>1 DEF TypeOK
<1> QED BY <1>1, <1>6, <1>7, <1>9 DEF IInv

(* The running decoding goes on in another frame for the same chunk. *)
LEMMA NextFrame ==
  ASSUME calls \in Seq(Frame), ~Idle, NEW f \in Frame, f.chunk = Top.chunk,
         calls' = Append(Front(calls), f)
  PROVE  /\ Len(calls) \in Nat \ {0} /\ Top = calls[Len(calls)] /\ Top \in Frame
         /\ calls' \in Seq(Frame) /\ Len(calls') = Len(calls)
         /\ calls'[Len(calls)] = f
         /\ \A k \in 1..Len(calls) : /\ k # Len(calls) => /\ k \in 1..(Len(calls) - 1)
                                                          /\ k < Len(calls)
                                                          /\ calls'[k] = calls[k]
                                     /\ calls'[k].chunk = calls[k].chunk
<1> DEFINE n == Len(calls)
<1>1. /\ n \in Nat \ {0} /\ Top = calls[n] /\ Top \in Frame
      /\ Front(calls) \in Seq(Frame) /\ Len(Front(calls)) = n - 1
      /\ \A k \in 1..(n - 1) : Front(calls)[k] = calls[k]
  BY LastFrame
<1>2. /\ calls' \in Seq(Frame) /\ Len(calls') = n /\ calls'[n] = f
      /\ \A k \in 1..(n - 1) : calls'[k] = calls[k]
  BY <1>1
<1>3. \A k \in 1..n : k # n => k \in 1..(n - 1) /\ k < n BY <1>1
<1> QED BY <1>1, <1>2, <1>3

(* The type exists; a decoding below would have been creating a base when  *)
(* this one began, and this one would have looked up nothing.              *)
LEMMA TypeCreatedKeeps ==
  ASSUME IInv, TypeCreated PROVE IInv'
<1>0. TypeOK /\ Guarded /\ ~failed BY DEF IInv, TypeCreated
<1> DEFINE n == Len(calls)
           f == [Top EXCEPT !.at = "base"]
<1>1. /\ ~Idle /\ Top.at = "type" /\ calls' = Append(Front(calls), f)
      /\ creating_base' = TRUE /\ known' = known \cup {TypeOf[Top.chunk]}
      /\ UNCHANGED <<owned, p_ptr, anchor, proxy_dict, held, failed, history>>
  BY DEF TypeCreated, At, Goto
<1>2. Top \in Frame BY <1>0, <1>1, LastFrame DEF TypeOK
<1>3. f \in Frame /\ f.at = "base" /\ f.chunk = Top.chunk BY <1>2 DEF Frame
<1> HIDE DEF f
<1>4. /\ n \in Nat \ {0} /\ Top = calls[n] /\ calls' \in Seq(Frame) /\ Len(calls') = n
      /\ calls'[n] = f
      /\ \A k \in 1..n : /\ k # n => /\ k \in 1..(n - 1) /\ k < n
                                     /\ calls'[k] = calls[k]
                         /\ calls'[k].chunk = calls[k].chunk
  BY <1>0, <1>1, <1>3, NextFrame DEF TypeOK
<1>5. n \in 1..n /\ Pending(n) BY <1>1, <1>4 DEF Pending
<1>6. \A k \in 1..n : k # n => ~AtBase(k)' /\ Pending(k)' = Pending(k)
  <2>1. \A k \in 1..n : k # n => ~AtBase(k) BY <1>0, <1>4, <1>5 DEF Guarded
  <2> QED BY <1>4, <2>1 DEF AtBase, Pending
<1>7. Guarded'
  <2>1. AtBase(n)' BY <1>3, <1>4 DEF AtBase
  <2>2. \A j, k \in 1..n : AtBase(j)' /\ j < k => FALSE
    <3> SUFFICES ASSUME NEW j \in 1..n, NEW k \in 1..n, AtBase(j)', j < k PROVE FALSE
      OBVIOUS
    <3>1. j = n BY <1>6
    <3> QED BY <1>4, <3>1
  <2> QED BY <1>1, <1>4, <1>5, <2>1, <2>2 DEF Guarded
<1>8. ASSUME ~raced PROVE Unregistered'
  <2>1. Unregistered BY <1>8 DEF IInv
  <2>2. \A k \in 1..n : Pending(k)' => Pending(k) BY <1>5, <1>6
  <2> QED BY <1>1, <1>4, <2>1, <2>2 DEF Unregistered
<1>9. TypeOK'
  <2>1. TypeOf[Top.chunk] \in Type BY <1>2, TypeAssumption DEF Frame
  <2> QED BY <1>0, <1>1, <1>4, <2>1 DEF TypeOK, history
<1> QED BY <1>1, <1>7, <1>8, <1>9 DEF IInv, history

(* The creation ends: its chunk has no base yet, so the assertion holds,   *)
(* and no other decoding is to register that chunk.                        *)
LEMMA BaseCreatedKeeps ==
  ASSUME IInv, NEW b \in Proxy, BaseCreated(b) PROVE IInv'
<1>0. TypeOK /\ Guarded /\ ~failed BY DEF IInv, BaseCreated
<1> DEFINE n == Len(calls)
           f == [Top EXCEPT !.base = b, !.at = "proxy"]
<1>1. /\ ~Idle /\ Top.at = "base" /\ creating_base' = FALSE
      /\ UNCHANGED <<owned, anchor, held, known, history>>
  BY DEF BaseCreated, At
<1>2. n \in Nat \ {0} /\ Top = calls[n] /\ Top \in Frame /\ n \in 1..n
  BY <1>0, <1>1, LastFrame DEF TypeOK
<1>3. Top.chunk \in Chunk BY <1>2 DEF Frame
<1>4. ~raced => proxy_dict[Top.chunk] = NULL
  BY <1>1, <1>2 DEF IInv, Unregistered, Pending
<1>5. CASE proxy_dict[Top.chunk] # NULL
  <2>1. failed' = TRUE /\ UNCHANGED <<p_ptr, proxy_dict, calls>>
    BY <1>5 DEF BaseCreated
  <2>2. raced' BY <1>1, <1>4, <1>5 DEF history
  <2>3. TypeOK' BY <1>0, <1>1, <2>1 DEF TypeOK, history
  <2> QED BY <2>1, <2>2, <2>3 DEF IInv
<1>6. CASE proxy_dict[Top.chunk] = NULL
  <2>1. /\ p_ptr' = [p_ptr EXCEPT ![b] = Top.chunk]
        /\ proxy_dict' = [proxy_dict EXCEPT ![Top.chunk] = b]
        /\ calls' = Append(Front(calls), f) /\ UNCHANGED failed
    BY <1>6 DEF BaseCreated, Goto
  <2>2. f \in Frame /\ f.at = "proxy" /\ f.chunk = Top.chunk BY <1>2 DEF Frame
  <2> HIDE DEF f
  <2>3. /\ calls' \in Seq(Frame) /\ Len(calls') = n /\ calls'[n] = f
        /\ \A k \in 1..n : /\ k # n => /\ k \in 1..(n - 1) /\ k < n
                                       /\ calls'[k] = calls[k]
                           /\ calls'[k].chunk = calls[k].chunk
    BY <1>0, <1>1, <2>1, <2>2, NextFrame DEF TypeOK
  <2>4. ~AtBase(n)' /\ ~Pending(n)' BY <2>2, <2>3 DEF AtBase, Pending
  <2>5. \A k \in 1..n : k # n => ~AtBase(k)' /\ Pending(k)' = Pending(k)
    <3>1. \A k \in 1..n : k # n => ~AtBase(k)
      BY <1>0, <1>1, <1>2, <2>3 DEF Guarded, AtBase, Pending
    <3> QED BY <2>3, <3>1 DEF AtBase, Pending
  <2>6. Guarded' BY <1>1, <2>3, <2>4, <2>5 DEF Guarded
  <2>7. ASSUME ~raced PROVE Unregistered'
    <3>1. Unregistered BY <2>7 DEF IInv
    <3>2. ASSUME NEW k \in 1..n, Pending(k)'
          PROVE  Pending(k) /\ calls'[k].chunk = calls[k].chunk
                 /\ calls[k].chunk # Top.chunk /\ calls[k].chunk \in Chunk
      <4>0. k # n BY <2>3, <2>4, <3>2 DEF Pending
      <4>1. k # n /\ Pending(k) /\ Pending(n)
        <5>1. Pending(k) BY <2>5, <3>2, <4>0
        <5>2. Pending(n) BY <1>1, <1>2 DEF Pending
        <5> QED BY <4>0, <5>1, <5>2
      <4>2. calls[k] \in Frame BY <1>0 DEF TypeOK
      <4> QED BY <1>2, <2>3, <3>1, <4>1, <4>2 DEF Unregistered, Frame
    <3>3. \A d \in Chunk : d # Top.chunk => proxy_dict'[d] = proxy_dict[d]
      BY <1>0, <2>1 DEF TypeOK
    <3>4. \A k \in 1..n : Pending(k)' => proxy_dict'[calls'[k].chunk] = NULL
      BY <3>1, <3>2, <3>3 DEF Unregistered
    <3>5. \A j, k \in 1..n : Pending(j)' /\ Pending(k)'
              /\ calls'[j].chunk = calls'[k].chunk => j = k
      BY <3>1, <3>2 DEF Unregistered
    <3> QED BY <2>3, <3>4, <3>5 DEF Unregistered
  <2>8. TypeOK'
    <3>1. p_ptr' \in [Proxy -> Chunk \cup {NULL}]
          /\ proxy_dict' \in [Chunk -> Proxy \cup {NULL}]
      BY <1>0, <1>3, <2>1 DEF TypeOK
    <3> QED BY <1>0, <1>1, <2>1, <2>3, <3>1 DEF TypeOK, history
  <2> QED BY <1>0, <1>1, <2>1, <2>6, <2>7, <2>8 DEF IInv, history
<1> QED BY <1>5, <1>6

(* Proxies only ever leave proxy_dict when they are dropped. *)
LEMMA DropKeeps ==
  ASSUME IInv, NEW p \in Proxy, Drop(p) PROVE IInv'
<1>0. TypeOK BY DEF IInv
<1>1. PICK gone : Dealloc(gone) BY DEF Drop
<1>2. /\ held' = held \ {p}
      /\ UNCHANGED <<owned, creating_base, known, calls, failed, history>>
  BY DEF Drop
<1>3. TypeOK' BY <1>0, <1>1, <1>2 DEF TypeOK, Dealloc, history
<1>4. \A c \in Chunk : proxy_dict[c] = NULL => proxy_dict'[c] = NULL
  BY <1>1 DEF Dealloc
<1>5. ASSUME ~raced PROVE Unregistered'
  <2>1. \A k \in 1..Len(calls) : calls[k] \in Frame BY <1>0 DEF TypeOK
  <2>2. \A k \in 1..Len(calls) : calls[k].chunk \in Chunk BY <2>1 DEF Frame
  <2> QED BY <1>2, <1>4, <1>5, <2>2 DEF IInv, Unregistered, Pending
<1>6. ASSUME ~failed PROVE Guarded'
  BY <1>2, <1>6 DEF IInv, Guarded, AtBase, Pending
<1> QED BY <1>2, <1>3, <1>5, <1>6 DEF IInv, history

-----------------------------------------------------------------------------
LEMMA InvInit == Init => IInv
<1> SUFFICES ASSUME Init PROVE IInv
  OBVIOUS
<1>1. calls \in Seq(Frame) /\ Len(calls) = 0 /\ 1..Len(calls) = {}
  BY DEF Init
<1>2. 0 <= MaxDepth BY BoundAssumption
<1>3. TypeOK BY <1>1, <1>2 DEF Init, TypeOK
<1> QED BY <1>1, <1>3 DEF Init, IInv, Guarded, Unregistered

LEMMA InvNext == IInv /\ [Next]_vars => IInv'
<1> SUFFICES ASSUME IInv, [Next]_vars PROVE IInv'
  OBVIOUS
<1>1. CASE \E c \in Chunk : Decode(c) BY <1>1, DecodeKeeps
<1>2. CASE \E c \in Chunk : CMalloc(c) \/ CFree(c)
  BY <1>2 DEF CMalloc, CFree, IInv, TypeOK, Guarded, Unregistered, AtBase, Pending,
              history
<1>3. CASE \E b \in Proxy : BaseCreated(b) BY <1>3, BaseCreatedKeeps
<1>4. CASE \E p \in Proxy : ReturnProxy(p)
  <2>1. PICK p \in Proxy : ReturnProxy(p) BY <1>4
  <2>2. Top.chunk \in Chunk /\ Top.base \in Proxy \cup {NULL}
    BY <2>1, LastFrame DEF IInv, TypeOK, ReturnProxy, At, Frame
  <2>3. /\ p_ptr' \in [Proxy -> Chunk \cup {NULL}]
        /\ anchor' \in [Proxy -> Proxy \cup {NULL}] /\ held' \subseteq Proxy
    BY <2>1, <2>2 DEF IInv, TypeOK, ReturnProxy
  <2> QED BY <2>1, <2>3, PopKeeps DEF ReturnProxy
<1>5. CASE \E p \in Proxy : Drop(p) BY <1>5, DropKeeps
<1>6. CASE TypeCreated BY <1>6, TypeCreatedKeeps
<1>7. CASE ReturnBase
  <2>1. Top.base \in Proxy
    BY <1>7, LastFrame DEF IInv, TypeOK, ReturnBase, At, Frame
  <2> QED BY <1>7, <2>1, PopKeeps DEF ReturnBase, IInv, TypeOK
<1>8. CASE UNCHANGED vars
  BY <1>8 DEF vars, IInv, TypeOK, Guarded, Unregistered, AtBase, Pending, history
<1> QED BY <1>1, <1>2, <1>3, <1>4, <1>5, <1>6, <1>7, <1>8 DEF Next, Aborted

-----------------------------------------------------------------------------
(* The results.                                                            *)

(* Every variable has its type; for one, decodings nest no deeper than     *)
(* MaxDepth allows.                                                        *)
THEOREM TypeCorrect == Spec => []TypeOK
<1>1. Init => IInv BY InvInit
<1>2. IInv /\ [Next]_vars => IInv' BY InvNext
<1>3. IInv => TypeOK BY DEF IInv
<1> QED BY <1>1, <1>2, <1>3, PTL DEF Spec

(* The assertion of Proxy_Register holds however deep finalisers nest      *)
(* decodings, of the same chunk or of others, inside the creation of a     *)
(* base, unless a chunk is decoded inside the creation of its own type,    *)
(* which the code does between the look at proxy_dict and the guard.       *)
THEOREM AlwaysRegisteredOnce == Spec => []RegisteredOnce
<1>1. Init => IInv BY InvInit
<1>2. IInv /\ [Next]_vars => IInv' BY InvNext
<1>3. IInv => RegisteredOnce BY DEF IInv, RegisteredOnce
<1> QED BY <1>1, <1>2, <1>3, PTL DEF Spec

-----------------------------------------------------------------------------
(* That bases are kept needs no condition.  The argument: every entry of   *)
(* proxy_dict is for the chunk of its proxy, and whatever keeps a base     *)
(* alive, another proxy or a decoding in progress, refers to one that is   *)
(* registered; Drop takes only what nobody refers to.                      *)

VarTypes ==
  /\ calls \in Seq(Frame) /\ held \subseteq Proxy
  /\ p_ptr \in [Proxy -> Chunk \cup {NULL}]
  /\ anchor \in [Proxy -> Proxy \cup {NULL}]
  /\ proxy_dict \in [Chunk -> Proxy \cup {NULL}]

Registry == \A c \in Chunk : proxy_dict[c] # NULL => p_ptr[proxy_dict[c]] = c

HeldExist == \A p \in held : p_ptr[p] # NULL

AnchorsKept ==
  \A p \in Proxy : anchor[p] # NULL => p_ptr[p] # NULL /\ IsBase(anchor[p])

Found(f) == f.base # NULL => IsBase(f.base) /\ p_ptr[f.base] = f.chunk

FramesKept == \A k \in 1..Len(calls) : Found(calls[k])

KInv == VarTypes /\ Registry /\ HeldExist /\ AnchorsKept /\ FramesKept

LEMMA PushKeepsFrames ==
  ASSUME KInv, NEW f \in Frame, Found(f), calls' = Append(calls, f),
         UNCHANGED <<p_ptr, anchor, proxy_dict, held>>
  PROVE  KInv'
<1>1. calls \in Seq(Frame) BY DEF KInv, VarTypes
<1>2. /\ Len(calls) \in Nat /\ calls' \in Seq(Frame) /\ Len(calls') = Len(calls) + 1
      /\ calls'[Len(calls) + 1] = f /\ \A k \in 1..Len(calls) : calls'[k] = calls[k]
  BY <1>1
<1>3. \A k \in 1..Len(calls') : k = Len(calls) + 1 \/ k \in 1..Len(calls) BY <1>2
<1>4. FramesKept'
  <2>1. \A k \in 1..Len(calls') : Found(calls'[k])
    BY <1>2, <1>3 DEF KInv, FramesKept
  <2> QED BY <2>1 DEF FramesKept, Found, IsBase
<1> QED BY <1>2, <1>4 DEF KInv, VarTypes, Registry, HeldExist, AnchorsKept, IsBase

(* The bases that are registered stay so while a proxy is made that did    *)
(* not exist.                                                              *)
LEMMA NewProxyKeepsBases ==
  ASSUME VarTypes, Registry, NEW b \in Proxy, NoObject(b), NEW c \in Chunk,
         p_ptr' = [p_ptr EXCEPT ![b] = c],
         \/ UNCHANGED proxy_dict
         \/ proxy_dict[c] = NULL /\ proxy_dict' = [proxy_dict EXCEPT ![c] = b]
  PROVE  /\ \A q \in Proxy : IsBase(q) => IsBase(q)' /\ p_ptr'[q] = p_ptr[q]
         /\ \A q \in Proxy : p_ptr[q] # NULL => p_ptr'[q] # NULL
         /\ Registry'
<1> USE NullAssumption DEF VarTypes, NoObject
<1>1. \A q \in Proxy : p_ptr[q] # NULL => q # b /\ p_ptr'[q] = p_ptr[q]
  OBVIOUS
<1>2. ASSUME NEW q \in Proxy, IsBase(q) PROVE IsBase(q)' /\ p_ptr'[q] = p_ptr[q]
  <2>1. p_ptr[q] \in Chunk /\ proxy_dict[p_ptr[q]] = q /\ p_ptr'[q] = p_ptr[q]
    BY <1>1, <1>2 DEF IsBase
  <2>2. proxy_dict'[p_ptr[q]] = q BY <2>1
  <2> QED BY <2>1, <2>2 DEF IsBase
<1>3. Registry'
  <2> SUFFICES ASSUME NEW d \in Chunk, proxy_dict'[d] # NULL
               PROVE  p_ptr'[proxy_dict'[d]] = d
    BY DEF Registry
  <2>1. CASE proxy_dict'[d] = proxy_dict[d]
    <3>1. proxy_dict[d] \in Proxy /\ p_ptr[proxy_dict[d]] = d BY <2>1 DEF Registry
    <3>2. p_ptr[proxy_dict[d]] # NULL BY <3>1
    <3> QED BY <1>1, <2>1, <3>1, <3>2
  <2>2. CASE proxy_dict'[d] # proxy_dict[d]
    <3>1. d = c /\ proxy_dict'[d] = b BY <2>2
    <3> QED BY <3>1
  <2> QED BY <2>1, <2>2
<1> QED BY <1>1, <1>2, <1>3

(* What holds of anchors and decodings in progress depends on the bases    *)
(* alone.                                                                  *)
LEMMA AnchorsFollowBases ==
  ASSUME VarTypes, HeldExist, AnchorsKept, UNCHANGED anchor, UNCHANGED held,
         \A q \in Proxy : IsBase(q) => IsBase(q)' /\ p_ptr'[q] = p_ptr[q],
         \A q \in Proxy : p_ptr[q] # NULL => p_ptr'[q] # NULL
  PROVE  HeldExist' /\ AnchorsKept'
<1>1. HeldExist' BY DEF VarTypes, HeldExist
<1>2. \A q \in Proxy : anchor[q] # NULL =>
        p_ptr'[q] # NULL /\ anchor[q] \in Proxy /\ IsBase(anchor[q])
  BY DEF VarTypes, AnchorsKept
<1>3. \A q \in Proxy : anchor[q] # NULL => IsBase(anchor[q])' BY <1>2
<1>4. AnchorsKept' BY <1>2, <1>3 DEF AnchorsKept, IsBase
<1> QED BY <1>1, <1>4

(* A decoding starts with the base it has found, if any. *)
LEMMA DecodeKeepsBases ==
  ASSUME KInv, NEW c \in Chunk, Decode(c) PROVE KInv'
<1> DEFINE f == Lookup(c)
<1>1. /\ calls' = Append(calls, f)
      /\ UNCHANGED <<p_ptr, anchor, proxy_dict, held>>
  BY DEF Decode
<1>2. proxy_dict[c] \in Proxy \cup {NULL} BY DEF KInv, VarTypes
<1>3. \/ f = [chunk |-> c, base |-> NULL, at |-> "proxy"]
      \/ f = [chunk |-> c, base |-> proxy_dict[c], at |-> "proxy"]
      \/ f = [chunk |-> c, base |-> NULL, at |-> "base"]
      \/ f = [chunk |-> c, base |-> NULL, at |-> "type"]
  <2>1. CASE creating_base BY <2>1 DEF Lookup
  <2>2. CASE ~creating_base /\ proxy_dict[c] # NULL BY <2>2 DEF Lookup
  <2>3. CASE ~creating_base /\ proxy_dict[c] = NULL BY <2>3 DEF Lookup
  <2> QED BY <2>1, <2>2, <2>3
<1> HIDE DEF f
<1>4. /\ f \in Frame /\ f.chunk = c
      /\ f.base = NULL \/ f.base = proxy_dict[c]
  BY <1>2, <1>3 DEF Frame
<1>5. Found(f)
  BY <1>4, NullAssumption DEF Found, IsBase, KInv, Registry
<1> QED BY <1>1, <1>4, <1>5, PushKeepsFrames

(* A base after the step. *)
BaseLater(q) == p_ptr'[q] # NULL /\ proxy_dict'[p_ptr'[q]] = q

(* The running decoding ends, or goes on in another frame, and the bases   *)
(* of the others are kept.                                                 *)
LEMMA PopKeepsFrames ==
  ASSUME VarTypes, FramesKept, ~Idle,
         \A k \in 1..(Len(calls) - 1) : calls[k].base # NULL =>
            BaseLater(calls[k].base) /\ p_ptr'[calls[k].base] = calls[k].chunk,
         \/ calls' = Front(calls)
         \/ \E f \in Frame : /\ calls' = Append(Front(calls), f)
                             /\ f.base # NULL =>
                                  BaseLater(f.base) /\ p_ptr'[f.base] = f.chunk
  PROVE  calls' \in Seq(Frame) /\ FramesKept'
<1> DEFINE n == Len(calls)
<1>1. /\ n \in Nat \ {0} /\ Front(calls) \in Seq(Frame) /\ Len(Front(calls)) = n - 1
      /\ \A k \in 1..(n - 1) : Front(calls)[k] = calls[k]
  BY LastFrame DEF VarTypes
<1>2. CASE calls' = Front(calls)
  BY <1>1, <1>2 DEF FramesKept, Found, IsBase, BaseLater
<1>3. ASSUME NEW f \in Frame, calls' = Append(Front(calls), f),
             f.base # NULL => BaseLater(f.base) /\ p_ptr'[f.base] = f.chunk
      PROVE  calls' \in Seq(Frame) /\ FramesKept'
  <2>1. /\ calls' \in Seq(Frame) /\ Len(calls') = n
        /\ calls'[n] = f /\ \A k \in 1..(n - 1) : calls'[k] = calls[k]
    BY <1>1, <1>3
  <2>2. \A k \in 1..n : k = n \/ k \in 1..(n - 1) BY <1>1
  <2>3. \A k \in 1..Len(calls') : calls'[k].base # NULL =>
          BaseLater(calls'[k].base) /\ p_ptr'[calls'[k].base] = calls'[k].chunk
    BY <1>3, <2>1, <2>2
  <2> QED BY <2>1, <2>3 DEF FramesKept, Found, IsBase, BaseLater
<1> QED BY <1>2, <1>3

(* The bases of the decodings below the running one are bases after a step *)
(* that only adds proxies.                                                 *)
LEMMA FramesFollowBases ==
  ASSUME VarTypes, FramesKept, ~Idle,
         \A q \in Proxy : IsBase(q) => IsBase(q)' /\ p_ptr'[q] = p_ptr[q]
  PROVE  \A k \in 1..Len(calls) : calls[k].base # NULL =>
           BaseLater(calls[k].base) /\ p_ptr'[calls[k].base] = calls[k].chunk
<1> SUFFICES ASSUME NEW k \in 1..Len(calls), calls[k].base # NULL
             PROVE  /\ BaseLater(calls[k].base)
                    /\ p_ptr'[calls[k].base] = calls[k].chunk
  OBVIOUS
<1> DEFINE q == calls[k].base
<1>1. calls[k] \in Frame BY DEF VarTypes
<1>2. q \in Proxy BY <1>1 DEF Frame
<1>3. IsBase(q) /\ p_ptr[q] = calls[k].chunk BY DEF FramesKept, Found
<1>4. \A r \in Proxy : IsBase(r) => BaseLater(r) /\ p_ptr'[r] = p_ptr[r]
  BY DEF IsBase, BaseLater
<1> HIDE DEF q
<1>5. BaseLater(q) /\ p_ptr'[q] = p_ptr[q] BY <1>2, <1>3, <1>4
<1> QED BY <1>3, <1>5 DEF q

LEMMA BaseCreatedKeepsBases ==
  ASSUME KInv, NEW b \in Proxy, BaseCreated(b) PROVE KInv'
<1> DEFINE f == [Top EXCEPT !.base = b, !.at = "proxy"]
<1>0. VarTypes /\ Registry /\ HeldExist /\ AnchorsKept /\ FramesKept BY DEF KInv
<1>1. Top \in Frame /\ ~Idle /\ Len(calls) \in Nat \ {0}
  BY <1>0, LastFrame DEF BaseCreated, At, VarTypes
<1>2. CASE proxy_dict[Top.chunk] # NULL
  <2>1. UNCHANGED <<p_ptr, proxy_dict, calls, anchor, held>>
    BY <1>2 DEF BaseCreated
  <2> QED BY <1>0, <2>1 DEF KInv, VarTypes, Registry, HeldExist, AnchorsKept,
                            FramesKept, Found, IsBase
<1>3. CASE proxy_dict[Top.chunk] = NULL
  <2>1. /\ p_ptr' = [p_ptr EXCEPT ![b] = Top.chunk]
        /\ proxy_dict' = [proxy_dict EXCEPT ![Top.chunk] = b]
        /\ calls' = Append(Front(calls), f)
        /\ UNCHANGED <<anchor, held>> /\ NoObject(b)
    BY <1>3 DEF BaseCreated, Goto
  <2>2. Top.chunk \in Chunk BY <1>1 DEF Frame
  <2>3. /\ \A q \in Proxy : IsBase(q) => IsBase(q)' /\ p_ptr'[q] = p_ptr[q]
        /\ \A q \in Proxy : p_ptr[q] # NULL => p_ptr'[q] # NULL
        /\ Registry'
    BY <1>0, <1>3, <2>1, <2>2, NewProxyKeepsBases
  <2>4. f \in Frame /\ f.base = b /\ f.chunk = Top.chunk BY <1>1 DEF Frame
  <2>5. BaseLater(b) /\ p_ptr'[b] = Top.chunk
    BY <1>0, <2>1, <2>2, NullAssumption DEF VarTypes, BaseLater
  <2>6. calls' \in Seq(Frame) /\ FramesKept'
    <3>1. \A k \in 1..(Len(calls) - 1) : calls[k].base # NULL =>
            BaseLater(calls[k].base) /\ p_ptr'[calls[k].base] = calls[k].chunk
      BY <1>0, <1>1, <2>3, FramesFollowBases
    <3> HIDE DEF f
    <3> QED BY <1>0, <1>1, <2>1, <2>4, <2>5, <3>1, PopKeepsFrames
  <2>7. HeldExist' /\ AnchorsKept' BY <1>0, <2>1, <2>3, AnchorsFollowBases
  <2>8. VarTypes' BY <1>0, <2>1, <2>2, <2>6 DEF VarTypes
  <2> QED BY <2>3, <2>6, <2>7, <2>8 DEF KInv
<1> QED BY <1>2, <1>3

LEMMA TypeCreatedKeepsBases ==
  ASSUME KInv, TypeCreated PROVE KInv'
<1> DEFINE f == [Top EXCEPT !.at = "base"]
<1>0. VarTypes /\ Registry /\ HeldExist /\ AnchorsKept /\ FramesKept BY DEF KInv
<1>1. /\ Top \in Frame /\ ~Idle /\ Len(calls) \in Nat \ {0}
      /\ Top = calls[Len(calls)]
  BY <1>0, LastFrame DEF TypeCreated, At, VarTypes
<1>2. calls' = Append(Front(calls), f) /\ UNCHANGED <<p_ptr, anchor, proxy_dict, held>>
  BY DEF TypeCreated, Goto
<1>3. f \in Frame /\ f.base = Top.base /\ f.chunk = Top.chunk BY <1>1 DEF Frame
<1>4. \A q \in Proxy : IsBase(q) => IsBase(q)' /\ p_ptr'[q] = p_ptr[q]
  BY <1>2 DEF IsBase
<1>5. \A k \in 1..Len(calls) : calls[k].base # NULL =>
        BaseLater(calls[k].base) /\ p_ptr'[calls[k].base] = calls[k].chunk
  BY <1>0, <1>1, <1>4, FramesFollowBases
<1>6. calls' \in Seq(Frame) /\ FramesKept'
  <2>1. Len(calls) \in 1..Len(calls)
        /\ \A k \in 1..(Len(calls) - 1) : k \in 1..Len(calls)
    BY <1>1
  <2>2. f.base # NULL => BaseLater(f.base) /\ p_ptr'[f.base] = f.chunk
    BY <1>1, <1>3, <1>5, <2>1
  <2> HIDE DEF f
  <2> QED BY <1>0, <1>1, <1>2, <1>3, <1>5, <2>1, <2>2, PopKeepsFrames
<1> QED BY <1>0, <1>2, <1>6
        DEF KInv, VarTypes, Registry, HeldExist, AnchorsKept, IsBase

LEMMA ReturnBaseKeepsBases ==
  ASSUME KInv, ReturnBase PROVE KInv'
<1>0. VarTypes /\ Registry /\ HeldExist /\ AnchorsKept /\ FramesKept BY DEF KInv
<1>1. /\ Top \in Frame /\ ~Idle /\ Len(calls) \in Nat \ {0}
      /\ Top = calls[Len(calls)]
  BY <1>0, LastFrame DEF ReturnBase, At, VarTypes
<1>2. /\ calls' = Front(calls) /\ UNCHANGED <<p_ptr, anchor, proxy_dict>>
      /\ held' = held \cup {Top.base} /\ Top.base # NULL
  BY DEF ReturnBase
<1>3. \A q \in Proxy : IsBase(q) => IsBase(q)' /\ p_ptr'[q] = p_ptr[q]
  BY <1>2 DEF IsBase
<1>4. calls' \in Seq(Frame) /\ FramesKept'
  <2>1. \A k \in 1..(Len(calls) - 1) : calls[k].base # NULL =>
          BaseLater(calls[k].base) /\ p_ptr'[calls[k].base] = calls[k].chunk
    BY <1>0, <1>1, <1>3, FramesFollowBases
  <2> QED BY <1>0, <1>1, <1>2, <2>1, PopKeepsFrames
<1>5. Top.base \in Proxy /\ p_ptr[Top.base] # NULL
  <2>1. Top.base \in Proxy BY <1>1, <1>2 DEF Frame
  <2>2. Found(Top) BY <1>0, <1>1 DEF FramesKept
  <2> QED BY <1>2, <2>1, <2>2 DEF Found, IsBase
<1> QED BY <1>0, <1>2, <1>4, <1>5
        DEF KInv, VarTypes, Registry, HeldExist, AnchorsKept, IsBase

(* The proxy that is returned keeps the base the decoding has found.       *)
LEMMA ReturnProxyKeepsBases ==
  ASSUME KInv, NEW p \in Proxy, ReturnProxy(p) PROVE KInv'
<1>0. VarTypes /\ Registry /\ HeldExist /\ AnchorsKept /\ FramesKept BY DEF KInv
<1>1. /\ Top \in Frame /\ ~Idle /\ Len(calls) \in Nat \ {0}
      /\ Top = calls[Len(calls)]
  BY <1>0, LastFrame DEF ReturnProxy, At, VarTypes
<1>2. /\ calls' = Front(calls) /\ UNCHANGED proxy_dict /\ NoObject(p)
      /\ p_ptr' = [p_ptr EXCEPT ![p] = Top.chunk]
      /\ anchor' = [anchor EXCEPT ![p] = Top.base] /\ held' = held \cup {p}
  BY DEF ReturnProxy
<1>3. Top.chunk \in Chunk /\ Top.base \in Proxy \cup {NULL} BY <1>1 DEF Frame
<1>4. /\ \A q \in Proxy : IsBase(q) => IsBase(q)' /\ p_ptr'[q] = p_ptr[q]
      /\ \A q \in Proxy : p_ptr[q] # NULL => p_ptr'[q] # NULL
      /\ Registry'
  BY <1>0, <1>2, <1>3, NewProxyKeepsBases
<1>5. \A k \in 1..Len(calls) : calls[k].base # NULL =>
        BaseLater(calls[k].base) /\ p_ptr'[calls[k].base] = calls[k].chunk
  BY <1>0, <1>1, <1>4, FramesFollowBases
<1>6. calls' \in Seq(Frame) /\ FramesKept'
  <2>1. \A k \in 1..(Len(calls) - 1) : k \in 1..Len(calls) BY <1>1
  <2> QED BY <1>0, <1>1, <1>2, <1>4, <1>5, <2>1, PopKeepsFrames
<1>7. p_ptr'[p] # NULL BY <1>0, <1>2, <1>3, NullAssumption DEF VarTypes
<1>8. HeldExist' BY <1>0, <1>2, <1>4, <1>7 DEF HeldExist, VarTypes
<1>9. AnchorsKept'
  <2>1. Top.base # NULL => BaseLater(Top.base)
    BY <1>1, <1>5, Len(calls) \in 1..Len(calls)
  <2>2. \A q \in Proxy : anchor'[q] # NULL => p_ptr'[q] # NULL /\ BaseLater(anchor'[q])
    <3> SUFFICES ASSUME NEW q \in Proxy, anchor'[q] # NULL
                 PROVE  p_ptr'[q] # NULL /\ BaseLater(anchor'[q])
      OBVIOUS
    <3>1. CASE q = p BY <1>0, <1>2, <1>7, <2>1, <3>1 DEF VarTypes
    <3>2. CASE q # p
      <4>1. anchor'[q] = anchor[q] /\ anchor[q] \in Proxy
        BY <1>0, <1>2, <3>2 DEF VarTypes
      <4>2. p_ptr[q] # NULL /\ IsBase(anchor[q]) BY <1>0, <4>1 DEF AnchorsKept
      <4>3. \A r \in Proxy : IsBase(r) => BaseLater(r)
        BY <1>4 DEF IsBase, BaseLater
      <4> QED BY <1>4, <4>1, <4>2, <4>3
    <3> QED BY <3>1, <3>2
  <2> QED BY <2>2 DEF AnchorsKept, IsBase, BaseLater
<1>10. VarTypes' BY <1>0, <1>2, <1>3, <1>6 DEF VarTypes
<1> QED BY <1>4, <1>6, <1>8, <1>9, <1>10 DEF KInv

(* Nothing that is left refers to what proxy_dealloc takes.                *)
LEMMA DropTakesUnreferenced ==
  ASSUME KInv, NEW p \in Proxy, Drop(p)
  PROVE  \E gone \in SUBSET Proxy :
           /\ Dealloc(gone) /\ NULL \notin gone
           /\ \A q \in gone :
                q \notin held' /\ \A k \in 1..Len(calls) : calls[k].base # q
           /\ \A q \in Proxy : q \notin gone => anchor[q] \notin gone
<1> DEFINE h     == held \ {p}
           first == {q \in {p} : ~Referenced(q, h, {})}
           then  == {q \in {anchor[p]} \ {NULL} :
                       first # {} /\ ~Referenced(q, h, first)}
           gone  == first \cup then
<1>1. held' = h /\ Dealloc(gone) BY DEF Drop
<1>2. /\ gone \subseteq Proxy /\ NULL \notin gone
      /\ \A q \in gone : q \notin h /\ \A k \in 1..Len(calls) : calls[k].base # q
  BY NullAssumption DEF KInv, VarTypes, Referenced
<1>3. \A q \in Proxy : q \notin gone => anchor[q] \notin gone
  <2> SUFFICES ASSUME NEW q \in Proxy, q \notin gone, anchor[q] \in gone PROVE FALSE
    OBVIOUS
  <2>1. CASE anchor[q] \in first BY <2>1 DEF Referenced
  <2>2. CASE anchor[q] \in then
    <3>1. ~Referenced(anchor[q], h, first) BY <2>2
    <3>2. q \in Proxy \ first OBVIOUS
    <3> QED BY <3>1, <3>2 DEF Referenced
  <2> QED BY <2>1, <2>2
<1> HIDE DEF gone
<1> QED BY <1>1, <1>2, <1>3

LEMMA DropKeepsBases ==
  ASSUME KInv, NEW p \in Proxy, Drop(p) PROVE KInv'
<1>0. VarTypes /\ Registry /\ HeldExist /\ AnchorsKept /\ FramesKept BY DEF KInv
<1>1. held' = held \ {p} /\ UNCHANGED calls BY DEF Drop
<1>2. PICK gone \in SUBSET Proxy :
           /\ Dealloc(gone) /\ NULL \notin gone
           /\ \A q \in gone :
                q \notin held' /\ \A k \in 1..Len(calls) : calls[k].base # q
           /\ \A q \in Proxy : q \notin gone => anchor[q] \notin gone
  BY DropTakesUnreferenced
<1>3. \A q \in Proxy : q \notin gone => anchor[q] \notin gone BY <1>2
<1>4. /\ p_ptr' = [q \in Proxy |-> IF q \in gone THEN NULL ELSE p_ptr[q]]
      /\ anchor' = [q \in Proxy |-> IF q \in gone THEN NULL ELSE anchor[q]]
      /\ proxy_dict' = [c \in Chunk |-> IF proxy_dict[c] \in gone THEN NULL
                                        ELSE proxy_dict[c]]
  BY <1>2 DEF Dealloc
<1>5. VarTypes' BY <1>0, <1>1, <1>4 DEF VarTypes
<1>6. \A q \in Proxy : q \notin gone =>
        p_ptr'[q] = p_ptr[q] /\ anchor'[q] = anchor[q] /\ (IsBase(q) => BaseLater(q))
  BY <1>0, <1>4, NullAssumption DEF VarTypes, IsBase, BaseLater
<1>7. Registry'
  <2>1. \A c \in Chunk : proxy_dict'[c] # NULL =>
          /\ proxy_dict'[c] = proxy_dict[c] /\ proxy_dict[c] \notin gone
          /\ proxy_dict[c] \in Proxy
    BY <1>0, <1>4 DEF VarTypes
  <2> QED BY <1>0, <1>6, <2>1 DEF Registry
<1>8. HeldExist' BY <1>0, <1>1, <1>2, <1>6 DEF HeldExist, VarTypes
<1>9. AnchorsKept'
  <2>1. \A q \in Proxy : anchor'[q] # NULL => p_ptr'[q] # NULL /\ BaseLater(anchor'[q])
    <3> SUFFICES ASSUME NEW q \in Proxy, anchor'[q] # NULL
                 PROVE  p_ptr'[q] # NULL /\ BaseLater(anchor'[q])
      OBVIOUS
    <3>1. q \notin gone BY <1>4
    <3>2. anchor'[q] = anchor[q] /\ anchor[q] \in Proxy /\ anchor[q] \notin gone
      BY <1>0, <1>3, <1>6, <3>1 DEF VarTypes
    <3>3. p_ptr[q] # NULL /\ IsBase(anchor[q]) BY <1>0, <3>2 DEF AnchorsKept
    <3> QED BY <1>6, <3>1, <3>2, <3>3
  <2> QED BY <2>1 DEF AnchorsKept, IsBase, BaseLater
<1>10. FramesKept'
  <2>1. \A k \in 1..Len(calls) : calls[k].base # NULL =>
          BaseLater(calls[k].base) /\ p_ptr'[calls[k].base] = calls[k].chunk
    <3> SUFFICES ASSUME NEW k \in 1..Len(calls), calls[k].base # NULL
                 PROVE  /\ BaseLater(calls[k].base)
                        /\ p_ptr'[calls[k].base] = calls[k].chunk
      OBVIOUS
    <3>1. calls[k] \in Frame BY <1>0 DEF VarTypes
    <3>2. calls[k].base \in Proxy /\ calls[k].base \notin gone
      BY <1>2, <3>1 DEF Frame
    <3>3. IsBase(calls[k].base) /\ p_ptr[calls[k].base] = calls[k].chunk
      BY <1>0 DEF FramesKept, Found
    <3> QED BY <1>6, <3>2, <3>3
  <2> QED BY <1>1, <2>1 DEF FramesKept, Found, IsBase, BaseLater
<1> QED BY <1>5, <1>7, <1>8, <1>9, <1>10 DEF KInv

LEMMA KInvInit == Init => KInv
<1> SUFFICES ASSUME Init PROVE KInv
  OBVIOUS
<1>1. calls \in Seq(Frame) /\ 1..Len(calls) = {} BY DEF Init
<1> QED BY <1>1 DEF Init, KInv, VarTypes, Registry, HeldExist, AnchorsKept, FramesKept

LEMMA KInvNext == KInv /\ [Next]_vars => KInv'
<1> SUFFICES ASSUME KInv, [Next]_vars PROVE KInv'
  OBVIOUS
<1>1. CASE \E c \in Chunk : Decode(c) BY <1>1, DecodeKeepsBases
<1>2. CASE \E c \in Chunk : CMalloc(c) \/ CFree(c)
  BY <1>2 DEF CMalloc, CFree, KInv, VarTypes, Registry, HeldExist, AnchorsKept,
              FramesKept, Found, IsBase
<1>3. CASE \E b \in Proxy : BaseCreated(b) BY <1>3, BaseCreatedKeepsBases
<1>4. CASE \E p \in Proxy : ReturnProxy(p) BY <1>4, ReturnProxyKeepsBases
<1>5. CASE \E p \in Proxy : Drop(p) BY <1>5, DropKeepsBases
<1>6. CASE TypeCreated BY <1>6, TypeCreatedKeepsBases
<1>7. CASE ReturnBase BY <1>7, ReturnBaseKeepsBases
<1>8. CASE UNCHANGED vars
  BY <1>8 DEF vars, KInv, VarTypes, Registry, HeldExist, AnchorsKept,
              FramesKept, Found, IsBase
<1> QED BY <1>1, <1>2, <1>3, <1>4, <1>5, <1>6, <1>7, <1>8 DEF Next, Aborted

(* Whatever the types that are known and however deep decodings nest, the  *)
(* base a proxy or a decoding in progress refers to is registered and      *)
(* alive: finalisers cannot drop it while a proxy is being allocated.      *)
THEOREM BaseAlwaysKept == Spec => []BaseKept
<1>1. Init => KInv BY KInvInit
<1>2. KInv /\ [Next]_vars => KInv' BY KInvNext
<1>3. KInv => BaseKept
  BY DEF KInv, VarTypes, HeldExist, AnchorsKept, FramesKept, Found, BaseKept, NoObject
<1> QED BY <1>1, <1>2, <1>3, PTL DEF Spec

-----------------------------------------------------------------------------
(* Until a decoding begins inside the creation of a base: only the running *)
(* decoding creates one, so that every other finds one, or registers one   *)
(* itself, before it makes its proxy; and a proxy Python holds is a base   *)
(* or keeps one of the same chunk.                                         *)

Backed(p) == IsBase(p) \/ (anchor[p] # NULL /\ p_ptr[anchor[p]] = p_ptr[p])

HInv ==
  ~interrupted =>
    /\ creating_base => At("base")
    /\ \A k \in 1..Len(calls) : calls[k].at = "proxy" => calls[k].base # NULL
    /\ \A p \in held : Backed(p)

(* Proxies are added at most, and those that are held stay backed.         *)
LEMMA BackedStays ==
  ASSUME KInv, \A p \in held : Backed(p), UNCHANGED anchor,
         \A q \in Proxy : IsBase(q) => IsBase(q)' /\ p_ptr'[q] = p_ptr[q],
         \A p \in held : p_ptr'[p] = p_ptr[p]
  PROVE  \A p \in held : BaseLater(p) \/ (/\ anchor'[p] # NULL
                                          /\ p_ptr'[anchor'[p]] = p_ptr'[p])
<1>1. \A q \in Proxy : IsBase(q) => BaseLater(q) BY DEF IsBase, BaseLater
<1>2. \A p \in held : p \in Proxy /\ (anchor[p] # NULL =>
        anchor[p] \in Proxy /\ IsBase(anchor[p]))
  BY DEF KInv, VarTypes, AnchorsKept
<1> QED BY <1>1, <1>2 DEF Backed

LEMMA HInvDecode ==
  ASSUME KInv, HInv, NEW c \in Chunk, Decode(c) PROVE HInv'
<1> DEFINE f == Lookup(c)
<1>1. /\ calls' = Append(calls, f) /\ creating_base' = (creating_base \/ f.at = "base")
      /\ interrupted' = (interrupted \/ creating_base)
      /\ UNCHANGED <<p_ptr, anchor, proxy_dict, held>>
  BY DEF Decode
<1> SUFFICES ASSUME ~interrupted, ~creating_base
             PROVE  /\ creating_base' => At("base")'
                    /\ \A k \in 1..Len(calls') :
                         calls'[k].at = "proxy" => calls'[k].base # NULL
                    /\ \A p \in held' : Backed(p)'
  BY <1>1 DEF HInv
<1>2. \/ f = [chunk |-> c, base |-> proxy_dict[c], at |-> "proxy"] /\ proxy_dict[c] # NULL
      \/ f = [chunk |-> c, base |-> NULL, at |-> "base"]
      \/ f = [chunk |-> c, base |-> NULL, at |-> "type"]
  <2>1. CASE proxy_dict[c] # NULL BY <2>1 DEF Lookup
  <2>2. CASE proxy_dict[c] = NULL BY <2>2 DEF Lookup
  <2> QED BY <2>1, <2>2
<1> HIDE DEF f
<1>3. proxy_dict[c] \in Proxy \cup {NULL} BY DEF KInv, VarTypes
<1>4. f \in Frame /\ (f.at = "proxy" => f.base # NULL) BY <1>2, <1>3 DEF Frame
<1>5. /\ Len(calls) \in Nat /\ calls' \in Seq(Frame) /\ Len(calls') = Len(calls) + 1
      /\ calls'[Len(calls) + 1] = f /\ \A k \in 1..Len(calls) : calls'[k] = calls[k]
  BY <1>1, <1>4 DEF KInv, VarTypes
<1>6. \A k \in 1..Len(calls') : k = Len(calls) + 1 \/ k \in 1..Len(calls) BY <1>5
<1>7. creating_base' => At("base")'
  <2>1. creating_base' => f.at = "base" BY <1>1
  <2>2. Len(calls') \in Nat \ {0} /\ calls'[Len(calls')] = f BY <1>5
  <2>3. calls' # <<>> BY <2>2
  <2> QED BY <2>1, <2>2, <2>3 DEF At, Idle, Top, Last
<1>8. \A k \in 1..Len(calls') : calls'[k].at = "proxy" => calls'[k].base # NULL
  BY <1>4, <1>5, <1>6 DEF HInv
<1> QED BY <1>1, <1>7, <1>8 DEF HInv, Backed, IsBase

LEMMA HInvTypeCreated == ASSUME KInv, HInv, TypeCreated PROVE HInv'
<1> DEFINE f == [Top EXCEPT !.at = "base"]
<1>1. /\ ~Idle /\ calls' = Append(Front(calls), f)
      /\ UNCHANGED <<p_ptr, anchor, proxy_dict, held, interrupted>>
  BY DEF TypeCreated, At, Goto, history
<1>2. Top \in Frame /\ calls \in Seq(Frame) BY <1>1, LastFrame DEF KInv, VarTypes
<1>3. f \in Frame /\ f.at = "base" /\ f.chunk = Top.chunk BY <1>2 DEF Frame
<1> HIDE DEF f
<1>4. /\ Len(calls) \in Nat \ {0} /\ calls' \in Seq(Frame) /\ Len(calls') = Len(calls)
      /\ calls'[Len(calls)] = f
      /\ \A k \in 1..Len(calls) : k # Len(calls) => calls'[k] = calls[k]
  BY <1>1, <1>2, <1>3, NextFrame
<1>5. At("base")' BY <1>3, <1>4 DEF At, Idle, Top, Last
<1>6. ASSUME ~interrupted
      PROVE  \A k \in 1..Len(calls') : calls'[k].at = "proxy" => calls'[k].base # NULL
  BY <1>3, <1>4, <1>6 DEF HInv
<1> QED BY <1>1, <1>5, <1>6 DEF HInv, Backed, IsBase

LEMMA HInvBaseCreated == ASSUME KInv, HInv, NEW b \in Proxy, BaseCreated(b) PROVE HInv'
<1> DEFINE f == [Top EXCEPT !.base = b, !.at = "proxy"]
<1>0. VarTypes /\ Registry /\ HeldExist BY DEF KInv
<1>1. /\ ~Idle /\ NoObject(b) /\ ~creating_base'
      /\ UNCHANGED <<anchor, held, interrupted>>
  BY DEF BaseCreated, At, history
<1>2. Top \in Frame /\ calls \in Seq(Frame) BY <1>0, <1>1, LastFrame DEF VarTypes
<1>3. CASE proxy_dict[Top.chunk] # NULL
  <2>1. UNCHANGED <<p_ptr, proxy_dict, calls>> BY <1>3 DEF BaseCreated
  <2> QED BY <1>1, <2>1 DEF HInv, Backed, IsBase
<1>4. CASE proxy_dict[Top.chunk] = NULL
  <2>1. /\ p_ptr' = [p_ptr EXCEPT ![b] = Top.chunk]
        /\ proxy_dict' = [proxy_dict EXCEPT ![Top.chunk] = b]
        /\ calls' = Append(Front(calls), f)
    BY <1>4 DEF BaseCreated, Goto
  <2>2. Top.chunk \in Chunk /\ f \in Frame /\ f.base = b /\ f.chunk = Top.chunk
    BY <1>2 DEF Frame
  <2> HIDE DEF f
  <2>3. /\ Len(calls') = Len(calls) /\ calls'[Len(calls)] = f
        /\ \A k \in 1..Len(calls) : k # Len(calls) => calls'[k] = calls[k]
    BY <1>1, <1>2, <2>1, <2>2, NextFrame
  <2>4. \A q \in Proxy : IsBase(q) => IsBase(q)' /\ p_ptr'[q] = p_ptr[q]
    BY <1>0, <1>1, <1>4, <2>1, <2>2, NewProxyKeepsBases
  <2>5. \A p \in held : p_ptr'[p] = p_ptr[p]
    BY <1>0, <1>1, <2>1 DEF HeldExist, VarTypes, NoObject
  <2>6. ASSUME ~interrupted
        PROVE  /\ \A k \in 1..Len(calls') :
                    calls'[k].at = "proxy" => calls'[k].base # NULL
               /\ \A p \in held : BaseLater(p) \/ (/\ anchor'[p] # NULL
                                                   /\ p_ptr'[anchor'[p]] = p_ptr'[p])
    <3>1. \A k \in 1..Len(calls') : calls'[k].at = "proxy" => calls'[k].base # NULL
      BY <2>2, <2>3, <2>6, NullAssumption DEF HInv
    <3>2. \A p \in held : Backed(p) BY <2>6 DEF HInv
    <3> QED BY <1>1, <2>4, <2>5, <3>1, <3>2, BackedStays
  <2> QED BY <1>1, <2>6 DEF HInv, Backed, IsBase, BaseLater
<1> QED BY <1>3, <1>4

(* The running decoding ends: it is not creating a base any more, and it   *)
(* has one.                                                                *)
LEMMA PopFrame ==
  ASSUME KInv, HInv, ~interrupted, At("proxy"), calls' = Front(calls),
         UNCHANGED creating_base
  PROVE  /\ ~creating_base'
         /\ Top \in Frame /\ Top.base # NULL /\ Top.chunk \in Chunk /\ Top.base \in Proxy
         /\ IsBase(Top.base) /\ p_ptr[Top.base] = Top.chunk
         /\ \A k \in 1..Len(calls') : calls'[k].at = "proxy" => calls'[k].base # NULL
<1> DEFINE n == Len(calls)
<1>1. /\ n \in Nat \ {0} /\ Top = calls[n] /\ Top \in Frame /\ n \in 1..n
      /\ Len(calls') = n - 1 /\ \A k \in 1..(n - 1) : calls'[k] = calls[k]
      /\ \A k \in 1..(n - 1) : k \in 1..n
  BY LastFrame DEF At, KInv, VarTypes
<1>2. Top.at = "proxy" /\ ~creating_base BY DEF At, HInv
<1>3. Top.base # NULL BY <1>1, <1>2 DEF HInv
<1>4. Top.chunk \in Chunk /\ Top.base \in Proxy BY <1>1, <1>3 DEF Frame
<1>5. IsBase(Top.base) /\ p_ptr[Top.base] = Top.chunk
  BY <1>1, <1>3 DEF KInv, FramesKept, Found
<1>6. \A k \in 1..Len(calls') : calls'[k].at = "proxy" => calls'[k].base # NULL
  BY <1>1 DEF HInv
<1> QED BY <1>1, <1>2, <1>3, <1>4, <1>5, <1>6

LEMMA HInvReturnBase == ASSUME KInv, HInv, ReturnBase PROVE HInv'
<1>1. /\ At("proxy") /\ held' = held \cup {Top.base} /\ calls' = Front(calls)
      /\ UNCHANGED <<p_ptr, anchor, proxy_dict, creating_base, interrupted>>
  BY DEF ReturnBase, history
<1>2. ASSUME ~interrupted
      PROVE  /\ ~creating_base' /\ IsBase(Top.base)
             /\ \A k \in 1..Len(calls') : calls'[k].at = "proxy" => calls'[k].base # NULL
  BY <1>1, <1>2, PopFrame
<1> QED BY <1>1, <1>2 DEF HInv, Backed, IsBase

LEMMA HInvReturnProxy ==
  ASSUME KInv, HInv, NEW p \in Proxy, ReturnProxy(p) PROVE HInv'
<1>0. VarTypes /\ Registry /\ HeldExist /\ AnchorsKept BY DEF KInv
<1>1. /\ At("proxy") /\ NoObject(p) /\ held' = held \cup {p}
      /\ p_ptr' = [p_ptr EXCEPT ![p] = Top.chunk]
      /\ anchor' = [anchor EXCEPT ![p] = Top.base]
      /\ calls' = Front(calls) /\ UNCHANGED <<proxy_dict, creating_base, interrupted>>
  BY DEF ReturnProxy, history
<1> SUFFICES ASSUME ~interrupted
             PROVE  /\ ~creating_base'
                    /\ \A k \in 1..Len(calls') :
                         calls'[k].at = "proxy" => calls'[k].base # NULL
                    /\ \A q \in held' : Backed(q)'
  BY <1>1 DEF HInv
<1>2. /\ ~creating_base' /\ Top.base # NULL /\ Top.chunk \in Chunk /\ Top.base \in Proxy
      /\ IsBase(Top.base) /\ p_ptr[Top.base] = Top.chunk
      /\ \A k \in 1..Len(calls') : calls'[k].at = "proxy" => calls'[k].base # NULL
  BY <1>1, PopFrame
<1>3. \A q \in Proxy : IsBase(q) => BaseLater(q) /\ p_ptr'[q] = p_ptr[q]
  BY <1>0, <1>1, <1>2, NewProxyKeepsBases DEF IsBase, BaseLater
<1>4. anchor'[p] # NULL /\ p_ptr'[anchor'[p]] = p_ptr'[p]
  BY <1>0, <1>1, <1>2, <1>3 DEF VarTypes
<1>5. \A q \in held : BaseLater(q) \/ (/\ anchor'[q] # NULL
                                       /\ p_ptr'[anchor'[q]] = p_ptr'[q])
  <2> SUFFICES ASSUME NEW q \in held
               PROVE  BaseLater(q) \/ (/\ anchor'[q] # NULL
                                       /\ p_ptr'[anchor'[q]] = p_ptr'[q])
    OBVIOUS
  <2>1. q \in Proxy /\ q # p /\ p_ptr'[q] = p_ptr[q] /\ anchor'[q] = anchor[q]
    BY <1>0, <1>1 DEF VarTypes, HeldExist, NoObject
  <2>2. anchor[q] # NULL => anchor[q] \in Proxy /\ IsBase(anchor[q])
    BY <1>0, <2>1 DEF VarTypes, AnchorsKept
  <2> QED BY <1>3, <2>1, <2>2 DEF HInv, Backed
<1> QED BY <1>1, <1>2, <1>4, <1>5 DEF Backed, IsBase, BaseLater

LEMMA HInvDrop == ASSUME KInv, HInv, NEW p \in Proxy, Drop(p) PROVE HInv'
<1>1. held' = held \ {p} /\ UNCHANGED <<calls, creating_base, interrupted>>
  BY DEF Drop, history
<1>2. PICK gone \in SUBSET Proxy :
           /\ Dealloc(gone) /\ NULL \notin gone
           /\ \A q \in gone :
                q \notin held' /\ \A k \in 1..Len(calls) : calls[k].base # q
           /\ \A q \in Proxy : q \notin gone => anchor[q] \notin gone
  BY DropTakesUnreferenced
<1>3. \A q \in Proxy : q \notin gone =>
        p_ptr'[q] = p_ptr[q] /\ anchor'[q] = anchor[q] /\ (IsBase(q) => BaseLater(q))
  BY <1>2, NullAssumption DEF KInv, VarTypes, Dealloc, IsBase, BaseLater
<1>4. ASSUME ~interrupted
      PROVE  \A q \in held' : BaseLater(q) \/ (/\ anchor'[q] # NULL
                                               /\ p_ptr'[anchor'[q]] = p_ptr'[q])
  <2> SUFFICES ASSUME NEW q \in held'
               PROVE  BaseLater(q) \/ (/\ anchor'[q] # NULL
                                       /\ p_ptr'[anchor'[q]] = p_ptr'[q])
    OBVIOUS
  <2>1. q \in Proxy /\ q \in held /\ q \notin gone BY <1>1, <1>2 DEF KInv, VarTypes
  <2>2. anchor[q] # NULL => anchor[q] \in Proxy /\ anchor[q] \notin gone
    BY <1>2, <2>1 DEF KInv, VarTypes
  <2> QED BY <1>3, <1>4, <2>1, <2>2 DEF HInv, Backed
<1> QED BY <1>1, <1>4 DEF HInv, Backed, IsBase, BaseLater, At, Idle, Top

(* The memory behind a backed proxy is alive.                              *)
LEMMA BackedAlive == KInv /\ HInv => HeldAliveUninterrupted
<1> SUFFICES ASSUME KInv, HInv, ~interrupted, NEW p \in held PROVE p_ptr[p] # NULL /\ Alive(p_ptr[p])
  BY DEF HeldAliveUninterrupted, HeldAlive
<1>1. p \in Proxy /\ p_ptr[p] # NULL BY DEF KInv, VarTypes, HeldExist
<1>2. CASE IsBase(p) BY <1>1, <1>2, NullAssumption DEF IsBase, Alive
<1>3. CASE anchor[p] # NULL /\ p_ptr[anchor[p]] = p_ptr[p]
  <2>1. IsBase(anchor[p]) BY <1>1, <1>3 DEF KInv, AnchorsKept
  <2> QED BY <1>1, <1>3, <2>1 DEF IsBase, Alive
<1> QED BY <1>2, <1>3 DEF HInv, Backed

(* Memory Python holds a proxy to is alive, for any number of chunks and   *)
(* types, created before or not, and any depth of decodings inside the     *)
(* creation of types and proxies: the lifetime is extended as long as the  *)
(* creation of a base is not interrupted by another decoding.              *)
THEOREM UninterruptedHeldAlive == Spec => []HeldAliveUninterrupted
<1>1. Init => KInv /\ HInv
  <2>1. ASSUME Init PROVE HInv
    <3>1. Len(calls) = 0 /\ 1..Len(calls) = {} BY <2>1 DEF Init
    <3> QED BY <2>1, <3>1 DEF Init, HInv
  <2> QED BY <2>1, KInvInit
<1>2. KInv /\ HInv /\ [Next]_vars => (KInv /\ HInv)'
  <2> SUFFICES ASSUME KInv, HInv, [Next]_vars PROVE HInv'
    BY KInvNext
  <2>1. CASE \E c \in Chunk : Decode(c) BY <2>1, HInvDecode
  <2>2. CASE \E c \in Chunk : CMalloc(c) \/ CFree(c)
    BY <2>2 DEF CMalloc, CFree, HInv, Backed, IsBase, At, Idle, Top, history
  <2>3. CASE \E b \in Proxy : BaseCreated(b) BY <2>3, HInvBaseCreated
  <2>4. CASE \E p \in Proxy : ReturnProxy(p) BY <2>4, HInvReturnProxy
  <2>5. CASE \E p \in Proxy : Drop(p) BY <2>5, HInvDrop
  <2>6. CASE TypeCreated BY <2>6, HInvTypeCreated
  <2>7. CASE ReturnBase BY <2>7, HInvReturnBase
  <2>8. CASE UNCHANGED vars
    BY <2>8 DEF vars, HInv, Backed, IsBase, At, Idle, Top, history
  <2> QED BY <2>1, <2>2, <2>3, <2>4, <2>5, <2>6, <2>7, <2>8 DEF Next, Aborted
<1> QED BY <1>1, <1>2, BackedAlive, PTL DEF Spec
=============================================================================
