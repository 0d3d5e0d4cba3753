------------------------- MODULE ForeignCallProofs -------------------------
(***************************************************************************)
(* A call of ForeignCall, for every set of types, signature and number of  *)
(* calls that are nested.                                                  *)
(*                                                                         *)
(* The argument: funproxy_call goes through the arguments twice, first to  *)
(* add up the bytes they need and then to place them, and Python code that *)
(* runs in the second pass, or in a callback, may make further calls.  For *)
(* each call on the stack the buffer is filled exactly as far as the       *)
(* arguments already placed take (Sound), and what the first pass added up *)
(* is what all of them take, so none ends outside the buffer or in the     *)
(* bytes of another.  An exception that is set is on its way through       *)
(* Python code, or left behind in C by a callback that failed, or in a     *)
(* call by the creation of a type (Raised), and the call remembers which.  *)
(***************************************************************************)
EXTENDS ForeignCall, SequenceTheorems, FiniteSetTheorems, WellFoundedInduction,
        TLAPS

-----------------------------------------------------------------------------
(* Induction, with sets for predicates.                                    *)

(* A set of numbers has a smallest member: the intervals below its members *)
(* are finite sets, among which there is a smallest.                       *)
LEMMA SmallestMember ==
  ASSUME NEW S \in SUBSET Nat, S # {}
  PROVE  \E n \in S : \A m \in S : n <= m
<1> DEFINE Below == {0..n : n \in S}
           R == StrictSubsetOrdering(Nat)
<1>1. IsWellFoundedOn(R, FiniteSubsetsOf(Nat)) BY FS_StrictSubsetOrderingWellFounded
<1>2. Below \subseteq FiniteSubsetsOf(Nat)
  <2>1. \A n \in S : IsFiniteSet(0..n) /\ 0..n \subseteq Nat
    <3> TAKE n \in S
    <3>1. IsFiniteSet(0..n) BY FS_Interval
    <3> QED BY <3>1
  <2> QED BY <2>1 DEF FiniteSubsetsOf
<1>3. Below # {} OBVIOUS
<1>4. \E x \in Below : \A y \in Below : ~ (<<y, x>> \in R)
  <2> HIDE DEF R, Below
  <2> QED BY <1>1, <1>2, <1>3, WFMin
<1>5. PICK n \in S : \A y \in Below : ~ (<<y, 0..n>> \in R) BY <1>4
<1>6. ASSUME NEW m \in S, m < n PROVE FALSE
  <2>1. 0..m \in Below OBVIOUS
  <2>2. 0..m \subseteq 0..n /\ n \in 0..n /\ n \notin 0..m BY <1>6
  <2>3. <<0..m, 0..n>> \in R BY <2>2 DEF StrictSubsetOrdering
  <2> QED BY <2>1, <2>3, <1>5
<1> QED BY <1>6

LEMMA SetInduction ==
  ASSUME NEW S, 0 \in S, \A n \in Nat : n \in S => n + 1 \in S
  PROVE  Nat \subseteq S
<1> SUFFICES ASSUME Nat \ S # {} PROVE FALSE OBVIOUS
<1>1. PICK n \in Nat \ S : \A m \in Nat \ S : n <= m BY SmallestMember
<1>2. n - 1 \in Nat /\ n - 1 \in S BY <1>1
<1> QED BY <1>1, <1>2

-----------------------------------------------------------------------------
(* The size of the buffer.                                                 *)

(* The equation that defines BytesTaken has a solution. *)
LEMMA BytesTakenDefined ==
  ASSUME NEW sig \in Seq(Type), NEW args
  PROVE  BytesTaken(sig, args) =
           [n \in 0..Len(sig) |->
              IF n = 0 THEN 0
              ELSE BytesTaken(sig, args)[n - 1]
                     + (IF args[n] = "native" THEN 0 ELSE Size[sig[n]])]
<1> DEFINE Step(g, n) == IF n = 0 THEN 0
                         ELSE g[n - 1] + (IF args[n] = "native" THEN 0 ELSE Size[sig[n]])
           Good == {k \in Nat : \E g : g = [n \in 0..k |-> Step(g, n)]}
<1>1. 0 \in Good
  <2>1. [n \in 0..0 |-> 0] = [n \in 0..0 |-> Step([m \in 0..0 |-> 0], n)] OBVIOUS
  <2> QED BY <2>1
<1>2. ASSUME NEW k \in Nat, k \in Good PROVE k + 1 \in Good
  <2>1. PICK g : g = [n \in 0..k |-> Step(g, n)] BY <1>2
  <2> DEFINE h == [n \in 0..(k + 1) |-> IF n <= k THEN g[n] ELSE Step(g, k + 1)]
  <2>2. ASSUME NEW n \in 0..(k + 1) PROVE h[n] = Step(h, n)
    <3>1. CASE n <= k
      <4>1. h[n] = g[n] /\ g[n] = Step(g, n) BY <2>1, <3>1
      <4>2. n # 0 => h[n - 1] = g[n - 1] BY <3>1
      <4> QED BY <4>1, <4>2
    <3>2. CASE n = k + 1
      <4>1. h[n - 1] = g[n - 1] BY <3>2
      <4>2. h[n] = Step(g, n) BY <3>2
      <4> QED BY <4>1, <4>2
    <3> QED BY <3>1, <3>2
  <2>3. h = [n \in 0..(k + 1) |-> Step(h, n)]
    <3> HIDE DEF Step
    <3> QED BY <2>2
  <2> HIDE DEF h, Step
  <2> QED BY <2>3
<1>3. Len(sig) \in Good
  <2> HIDE DEF Good
  <2> QED BY <1>1, <1>2, SetInduction
<1>4. PICK g : g = [n \in 0..Len(sig) |-> Step(g, n)] BY <1>3
<1> QED BY <1>4 DEF BytesTaken

(* It grows with each argument, by the size of an argument that is in the  *)
(* buffer.                                                                 *)
LEMMA BytesTakenGrows ==
  ASSUME Assumptions, NEW sig \in Seq(Type), NEW args
  PROVE  /\ BytesTaken(sig, args) \in [0..Len(sig) -> Nat]
         /\ \A n \in 1..Len(sig) :
              BytesTaken(sig, args)[n] =
                BytesTaken(sig, args)[n - 1]
                  + (IF args[n] = "native" THEN 0 ELSE Size[sig[n]])
         /\ BytesTaken(sig, args)[0] = 0
         /\ \A m, n \in 0..Len(sig) :
              m <= n => BytesTaken(sig, args)[m] <= BytesTaken(sig, args)[n]
<1> DEFINE sum == BytesTaken(sig, args)
           need(n) == IF args[n] = "native" THEN 0 ELSE Size[sig[n]]
<1>1. sum = [n \in 0..Len(sig) |-> IF n = 0 THEN 0 ELSE sum[n - 1] + need(n)]
  BY BytesTakenDefined
<1>2. \A n \in 1..Len(sig) : need(n) \in Nat BY DEF Assumptions
<1> HIDE DEF sum, need
<1>3. sum[0] = 0 /\ \A n \in 1..Len(sig) : sum[n] = sum[n - 1] + need(n)
  BY <1>1
<1> DEFINE Good == {n \in Nat : n <= Len(sig) =>
                      \A m \in 0..n : sum[m] \in Nat /\ sum[m] <= sum[n]}
<1>4. 0 \in Good BY <1>3
<1>5. ASSUME NEW n \in Nat, n \in Good PROVE n + 1 \in Good
  <2> SUFFICES ASSUME n + 1 <= Len(sig)
               PROVE  \A m \in 0..(n + 1) : sum[m] \in Nat /\ sum[m] <= sum[n + 1]
    OBVIOUS
  <2>1. sum[n] \in Nat /\ \A m \in 0..n : sum[m] \in Nat /\ sum[m] <= sum[n] BY <1>5
  <2>2. n + 1 \in 1..Len(sig) /\ sum[n + 1] = sum[n] + need(n + 1) /\ need(n + 1) \in Nat
    <3>1. n + 1 \in 1..Len(sig) /\ (n + 1) - 1 = n OBVIOUS
    <3> QED BY <3>1, <1>2, <1>3
  <2>3. sum[n + 1] \in Nat /\ sum[n] <= sum[n + 1] BY <2>1, <2>2
  <2>4. \A m \in 0..n : sum[m] <= sum[n + 1] BY <2>1, <2>3
  <2> QED BY <2>1, <2>3, <2>4
<1>6. Nat \subseteq Good
  <2> HIDE DEF Good
  <2> QED BY <1>4, <1>5, SetInduction
<1>7. \A n \in 0..Len(sig) : sum[n] \in Nat /\ \A m \in 0..n : sum[m] <= sum[n]
  BY <1>6
<1>8. sum \in [0..Len(sig) -> Nat] BY <1>1, <1>7
<1>9. \A m, n \in 0..Len(sig) : m <= n => sum[m] <= sum[n] BY <1>7
<1> QED BY <1>3, <1>8, <1>9 DEF sum, need

-----------------------------------------------------------------------------
(* The invariant.                                                          *)

Taken(f) == BytesTaken(f.sig, f.args)
Frame == CallFrame \cup ClosureFrame

(* Where argument j of f is, when the second pass has come to f.i. *)
PlaceOf(f, j) ==
  IF f.args[j] = "native" THEN InObject
  ELSE IF j < f.i THEN InBuffer(Taken(f)[j - 1]) ELSE NULL

(* A call whose arguments before the one at f.i are in place, and whose    *)
(* buffer is filled as far as they take.                                   *)
Sound(f) ==
  /\ f \in CallFrame
  /\ Len(f.args) = Len(f.sig) /\ Len(f.ff_args) = Len(f.sig)
  /\ f.argsize = ArgSize(f.sig, f.args)
  /\ f.i \in 1..(Len(f.sig) + 1)
  /\ f.cur_arg = Taken(f)[f.i - 1]
  /\ \A j \in 1..(f.i - 1) : f.args[j] # "bad"
  /\ \A j \in 1..Len(f.sig) : f.ff_args[j] = PlaceOf(f, j)
  /\ f.kind = "C" => f.i = Len(f.sig) + 1
  /\ f.pending => Hollow # {}

(* Frames above which Python code may run. *)
Waiting(f) == f.kind = "store" /\ f.i <= Len(f.sig) /\ f.args[f.i] = "converted"
RunsPython(f) == f.kind = "closure" \/ Waiting(f)

(* Calls are made by Python code, and closures are called by C. *)
Nested(s, k) ==
  \/ /\ Sound(s[k])
     /\ k > 1 => RunsPython(s[k - 1])
  \/ /\ s[k] \in ClosureFrame
     /\ k > 1 /\ s[k - 1].kind = "C"
WellNested(s) == s \in Seq(Frame) /\ \A k \in 1..Len(s) : Nested(s, k)

(* An exception that is set is on its way through Python code, or left     *)
(* behind in C by a callback that failed or in a call by its set-up.       *)
Raised(s, e) ==
  e => \/ s = <<>> \/ RunsPython(s[Len(s)])
       \/ s[Len(s)].kind = "C" /\ s[Len(s)].unstored
       \/ s[Len(s)].kind # "closure" /\ s[Len(s)].pending

Returned == returned = NULL \/ returned \in Result

FInv ==
  /\ WellNested(stack) /\ err \in BOOLEAN /\ Raised(stack, err)
  /\ ready \subseteq Functions /\ crashed \in BOOLEAN
  /\ Returned /\ ResultXorError

-----------------------------------------------------------------------------
(* Frames.                                                                 *)

LEMMA FrameKinds ==
  /\ \A f \in CallFrame : f.kind \in {"store", "C"}
  /\ \A f \in ClosureFrame : f.kind = "closure"
BY DEF CallFrame, ClosureFrame

LEMMA TupleIsSeq ==
  ASSUME NEW n \in Nat, NEW S, NEW s \in [1..n -> S]
  PROVE  s \in Seq(S) /\ Len(s) = n
<1>1. s \in Seq(S) BY SeqDef
<1>2. DOMAIN s = 1..n /\ DOMAIN s = 1..Len(s) /\ Len(s) \in Nat BY <1>1, LenProperties
<1> QED BY <1>1, <1>2

(* A frame to which nothing has happened yet. *)
NewFrame(sig, result, args, left) ==
  [kind |-> "store", sig |-> sig, result |-> result, args |-> args,
   ff_args |-> [i \in 1..Len(sig) |-> IF args[i] = "native" THEN InObject ELSE NULL],
   argsize |-> ArgSize(sig, args), cur_arg |-> 0, i |-> 1,
   unstored |-> FALSE, pending |-> left]

LEMMA NewCall ==
  ASSUME Assumptions, NEW sig \in Seq(Type), NEW result \in Type,
         NEW left \in BOOLEAN, left => Hollow # {},
         NEW args \in [1..Len(sig) -> {"native", "converted", "bad"}],
         NEW f, f = NewFrame(sig, result, args, left)
  PROVE  Sound(f)
<1>1. sig \in Seq(Type) /\ Len(sig) \in Nat OBVIOUS
<1>2. args \in Seq({"native", "converted", "bad"}) /\ Len(args) = Len(sig)
  BY <1>1, TupleIsSeq
<1> DEFINE places == [i \in 1..Len(sig) |-> IF args[i] = "native" THEN InObject ELSE NULL]
<1>3. places \in Seq(Place \cup {NULL}) /\ Len(places) = Len(sig)
  <2>1. InObject \in Place BY DEF InObject, Place
  <2>2. places \in [1..Len(sig) -> Place \cup {NULL}] BY <2>1
  <2> HIDE DEF places
  <2> QED BY <1>1, <2>2, TupleIsSeq
<1>4. ArgSize(sig, args) \in Nat BY <1>1, BytesTakenGrows DEF ArgSize
<1> HIDE DEF places
<1>5. f \in CallFrame BY <1>1, <1>2, <1>3, <1>4 DEF CallFrame, NewFrame, places
<1>6. BytesTaken(sig, args)[0] = 0 BY <1>1, BytesTakenGrows
<1>7. \A j \in 1..Len(sig) : f.ff_args[j] = PlaceOf(f, j)
  BY <1>1 DEF NewFrame, PlaceOf
<1> QED BY <1>1, <1>2, <1>3, <1>5, <1>6, <1>7 DEF Sound, NewFrame, Taken, places

Places == Seq(Place \cup {NULL})

(* What the second pass over the arguments does to a call. *)
Skip(f) == [f EXCEPT !.i = @ + 1]
Fill(f, p, c, n) == [f EXCEPT !.ff_args = p, !.cur_arg = c, !.i = n]
Placed(f) == [f.ff_args EXCEPT ![f.i] = InBuffer(f.cur_arg)]
Same(f, g) ==
  /\ g.kind = f.kind /\ g.sig = f.sig /\ g.args = f.args /\ g.argsize = f.argsize
  /\ g.pending = f.pending

LEMMA SkipFields ==
  ASSUME NEW f \in CallFrame
  PROVE  /\ Skip(f) \in CallFrame /\ Same(f, Skip(f)) /\ Skip(f).i = f.i + 1
         /\ Skip(f).ff_args = f.ff_args /\ Skip(f).cur_arg = f.cur_arg
<1> DEFINE n == f.i + 1
           g == [f EXCEPT !.i = n]
<1>1. n \in Nat BY DEF CallFrame
<1> HIDE DEF n
<1>2. Skip(f) = g BY DEF Skip, n
<1>3. g \in CallFrame BY <1>1, Zenon DEF CallFrame
<1>4. Same(f, g) /\ g.i = n /\ g.ff_args = f.ff_args /\ g.cur_arg = f.cur_arg
  BY <1>1, Zenon DEF CallFrame, Same
<1> QED BY <1>2, <1>3, <1>4 DEF n

LEMMA FillFields ==
  ASSUME NEW f \in CallFrame, NEW p \in Places, NEW c \in Nat,
         NEW n \in Nat
  PROVE  /\ Fill(f, p, c, n) \in CallFrame /\ Same(f, Fill(f, p, c, n))
         /\ Fill(f, p, c, n).i = n
         /\ Fill(f, p, c, n).ff_args = p /\ Fill(f, p, c, n).cur_arg = c
BY Zenon DEF CallFrame, Same, Fill, Places

(* A call in its second pass, at an argument. *)
LEMMA AtArgument ==
  ASSUME Assumptions, NEW f, Sound(f), f.i <= Len(f.sig)
  PROVE  /\ f \in CallFrame /\ f.sig \in Seq(Type) /\ Len(f.sig) \in Nat
         /\ f.i \in 1..Len(f.sig) /\ f.cur_arg \in Nat /\ Size[f.sig[f.i]] \in Nat
         /\ Taken(f)[f.i] =
              f.cur_arg + (IF f.args[f.i] = "native" THEN 0 ELSE Size[f.sig[f.i]])
<1>1. /\ f \in CallFrame /\ f.sig \in Seq(Type) /\ Len(f.sig) \in Nat
      /\ f.i \in 1..Len(f.sig) /\ f.cur_arg \in Nat
  BY DEF Sound, CallFrame, Assumptions
<1>2. Size[f.sig[f.i]] \in Nat BY <1>1 DEF Assumptions
<1>3. Taken(f)[f.i] = Taken(f)[f.i - 1]
                        + (IF f.args[f.i] = "native" THEN 0 ELSE Size[f.sig[f.i]])
  BY <1>1, BytesTakenGrows DEF Taken
<1> QED BY <1>1, <1>2, <1>3 DEF Sound

LEMMA SkippedSound ==
  ASSUME Assumptions, NEW f, Sound(f), f.kind = "store", f.i <= Len(f.sig),
         f.args[f.i] = "native"
  PROVE  Sound(Skip(f)) /\ Skip(f).kind = "store" /\ Skip(f).pending = f.pending
<1> DEFINE g == Skip(f)
<1>1. /\ f \in CallFrame /\ Len(f.sig) \in Nat /\ f.i \in 1..Len(f.sig)
      /\ f.cur_arg \in Nat /\ Taken(f)[f.i] = f.cur_arg + 0
  BY AtArgument
<1>2. /\ g \in CallFrame /\ g.i = f.i + 1 /\ g.sig = f.sig /\ g.args = f.args
      /\ g.ff_args = f.ff_args /\ g.argsize = f.argsize /\ g.cur_arg = f.cur_arg
      /\ g.kind = f.kind /\ g.pending = f.pending
  BY <1>1, SkipFields DEF Same
<1> HIDE DEF g
<1>3. g.cur_arg = Taken(g)[g.i - 1]
  <2>1. g.i - 1 = f.i /\ Taken(g) = Taken(f) BY <1>1, <1>2 DEF Taken
  <2> QED BY <1>1, <1>2, <2>1
<1>4. \A j \in 1..Len(g.sig) : g.ff_args[j] = PlaceOf(g, j)
  BY <1>1, <1>2 DEF Sound, PlaceOf, Taken
<1>5. \A j \in 1..(g.i - 1) : g.args[j] # "bad" BY <1>1, <1>2 DEF Sound
<1>6. Sound(g) /\ g.kind = "store" BY <1>1, <1>2, <1>3, <1>4, <1>5 DEF Sound
<1> QED BY <1>2, <1>6 DEF g

LEMMA FilledSound ==
  ASSUME Assumptions, NEW f, Sound(f), Waiting(f), NEW p, p = Placed(f),
         NEW c, c = f.cur_arg + Size[f.sig[f.i]], NEW n, n = f.i + 1
  PROVE  /\ Sound(Fill(f, p, c, n)) /\ Fill(f, p, c, n).kind = "store"
         /\ Fill(f, p, c, n).pending = f.pending
<1> DEFINE g == Fill(f, p, c, n)
<1>1. /\ f \in CallFrame /\ Len(f.sig) \in Nat /\ f.i \in 1..Len(f.sig)
      /\ f.args[f.i] = "converted" /\ f.kind = "store"
      /\ f.cur_arg \in Nat /\ c \in Nat /\ Taken(f)[f.i] = c
  BY AtArgument DEF Waiting
<1>2. /\ p \in Places /\ Len(p) = Len(f.sig)
      /\ \A j \in 1..Len(f.sig) :
           p[j] = IF j = f.i THEN InBuffer(f.cur_arg) ELSE f.ff_args[j]
  <2>1. InBuffer(f.cur_arg) \in Place BY <1>1 DEF InBuffer, Place
  <2>2. f.ff_args \in Seq(Place \cup {NULL}) /\ Len(f.ff_args) = Len(f.sig)
    BY <1>1 DEF Sound, CallFrame
  <2> QED BY <1>1, <2>1, <2>2, ExceptSeq DEF Placed, Places
<1>3. /\ g \in CallFrame /\ g.i = f.i + 1 /\ g.sig = f.sig /\ g.args = f.args
      /\ g.ff_args = p /\ g.argsize = f.argsize /\ g.cur_arg = c /\ g.kind = f.kind
      /\ g.pending = f.pending
  <2>1. f \in CallFrame /\ c \in Nat /\ n \in Nat /\ p \in Places BY <1>1, <1>2
  <2>2. g \in CallFrame /\ Same(f, g) /\ g.i = n /\ g.ff_args = p /\ g.cur_arg = c
    BY ONLY <2>1, FillFields
  <2> QED BY <2>2 DEF Same
<1> HIDE DEF g
<1>4. g.i - 1 = f.i /\ Taken(g) = Taken(f) BY <1>1, <1>3 DEF Taken
<1>5. g.cur_arg = Taken(g)[g.i - 1] BY <1>1, <1>3, <1>4
<1>6. ASSUME NEW j \in 1..Len(g.sig) PROVE g.ff_args[j] = PlaceOf(g, j)
  <2>1. f.ff_args[j] = PlaceOf(f, j) /\ f.cur_arg = Taken(f)[f.i - 1]
    BY <1>3 DEF Sound
  <2>2. CASE j = f.i
    <3>1. g.args[j] # "native" /\ j < g.i BY <1>1, <1>3, <2>2
    <3>2. g.ff_args[j] = InBuffer(f.cur_arg) BY <1>1, <1>2, <1>3, <2>2
    <3> QED BY <1>4, <2>1, <2>2, <3>1, <3>2 DEF PlaceOf
  <2>3. CASE j # f.i
    <3>1. j < g.i <=> j < f.i BY <1>1, <1>3, <2>3
    <3>2. g.ff_args[j] = f.ff_args[j] BY <1>2, <1>3, <2>3
    <3> QED BY <1>3, <1>4, <2>1, <3>1, <3>2 DEF PlaceOf
  <2> QED BY <2>2, <2>3
<1>7. \A j \in 1..(g.i - 1) : g.args[j] # "bad" BY <1>1, <1>3 DEF Sound
<1>8. Sound(g) /\ g.kind = "store" BY <1>1, <1>2, <1>3, <1>5, <1>6, <1>7 DEF Sound
<1> QED BY <1>3, <1>8 DEF g

LEMMA EnteredSound ==
  ASSUME NEW f, Sound(f), f.kind = "store", f.i > Len(f.sig), Len(f.sig) \in Nat,
         NEW g, g = [f EXCEPT !.kind = "C"]
  PROVE  Sound(g) /\ g.kind = "C" /\ g.pending = f.pending
<1>1. f \in CallFrame /\ f.i = Len(f.sig) + 1 BY DEF Sound
<1>2. /\ g \in CallFrame /\ g.i = f.i /\ g.sig = f.sig /\ g.args = f.args
      /\ g.ff_args = f.ff_args /\ g.argsize = f.argsize /\ g.cur_arg = f.cur_arg
      /\ g.kind = "C" /\ g.pending = f.pending
  BY <1>1 DEF CallFrame
<1> QED BY <1>1, <1>2 DEF Sound, PlaceOf, Taken

LEMMA UnstoredSound ==
  ASSUME NEW f, Sound(f), f.kind = "C", NEW g, g = [f EXCEPT !.unstored = TRUE]
  PROVE  Sound(g) /\ g.kind = "C" /\ g.unstored
<1>1. f \in CallFrame BY DEF Sound
<1>2. /\ g \in CallFrame /\ g.i = f.i /\ g.sig = f.sig /\ g.args = f.args
      /\ g.ff_args = f.ff_args /\ g.argsize = f.argsize /\ g.cur_arg = f.cur_arg
      /\ g.kind = "C" /\ g.unstored /\ g.pending = f.pending
  BY <1>1 DEF CallFrame
<1> QED BY <1>1, <1>2 DEF Sound, PlaceOf, Taken

-----------------------------------------------------------------------------
(* The stack.                                                              *)

(* The frames below some frame. *)
LEMMA Cut ==
  ASSUME NEW s, WellNested(s), NEW m \in 0..Len(s), NEW u, u = SubSeq(s, 1, m)
  PROVE  WellNested(u) /\ Len(u) = m /\ \A k \in 1..m : u[k] = s[k]
<1>1. s \in Seq(Frame) /\ Len(s) \in Nat BY DEF WellNested
<1>2. m \in Nat /\ \A i \in 1..m : s[i] \in Frame BY <1>1
<1>3. m \in Int /\ (IF 1 <= m THEN m - 1 + 1 ELSE 0) = m /\ m - 1 + 1 = m BY <1>2
<1>4. /\ SubSeq(s, 1, m) \in Seq(Frame)
      /\ Len(SubSeq(s, 1, m)) = IF 1 <= m THEN m - 1 + 1 ELSE 0
      /\ \A k \in 1..(m - 1 + 1) : SubSeq(s, 1, m)[k] = s[1 + k - 1]
  BY <1>2, <1>3, SubSeqProperties
<1>5. \A k \in 1..m : 1 + k - 1 = k BY <1>2
<1>6. \A k \in 1..m : SubSeq(s, 1, m)[k] = s[k] BY <1>3, <1>4, <1>5
<1>7. u \in Seq(Frame) /\ Len(u) = m /\ \A k \in 1..m : u[k] = s[k]
  BY <1>3, <1>4, <1>6
<1>8. \A k \in 1..Len(u) : Nested(u, k) BY <1>1, <1>7 DEF WellNested, Nested
<1> QED BY <1>7, <1>8 DEF WellNested

(* Calls are made by Python code. *)
LEMMA Caller ==
  ASSUME NEW s, WellNested(s), NEW n \in 1..Len(s), s[n].kind # "closure",
         NEW u, u = SubSeq(s, 1, n - 1)
  PROVE  WellNested(u) /\ (u # <<>> => RunsPython(u[Len(u)])) /\ Sound(s[n])
<1>1. s \in Seq(Frame) /\ Len(s) \in Nat /\ n - 1 \in 0..Len(s) BY DEF WellNested
<1>2. WellNested(u) /\ Len(u) = n - 1 /\ \A k \in 1..(n - 1) : u[k] = s[k]
  BY <1>1, Cut
<1>3. Sound(s[n]) /\ (n > 1 => RunsPython(s[n - 1]))
  BY <1>1, FrameKinds DEF WellNested, Nested
<1>4. u # <<>> => n > 1 /\ n - 1 \in 1..(n - 1)
  <2>1. u # <<>> => Len(u) # 0 BY <1>2 DEF WellNested
  <2> QED BY <1>1, <1>2, <2>1
<1> QED BY <1>2, <1>3, <1>4

LEMMA Pushed ==
  ASSUME NEW s, WellNested(s), NEW f,
         \/ Sound(f) /\ (s # <<>> => RunsPython(s[Len(s)]))
         \/ f \in ClosureFrame /\ s # <<>> /\ s[Len(s)].kind = "C",
         NEW u, u = Append(s, f)
  PROVE  WellNested(u) /\ u # <<>> /\ u[Len(u)] = f
<1>1. s \in Seq(Frame) /\ Len(s) \in Nat /\ f \in Frame BY DEF WellNested, Sound, Frame
<1>2. /\ u \in Seq(Frame) /\ Len(u) = Len(s) + 1 /\ u[Len(s) + 1] = f
      /\ \A k \in 1..Len(s) : u[k] = s[k]
  BY <1>1, AppendProperties
<1>3. ASSUME NEW k \in 1..Len(s) PROVE Nested(u, k)
  BY <1>1, <1>2 DEF WellNested, Nested
<1>4. Nested(u, Len(s) + 1)
  <2>1. Len(s) + 1 > 1 => s # <<>> /\ u[Len(s) + 1 - 1] = s[Len(s)] BY <1>1, <1>2
  <2>2. s # <<>> => Len(s) + 1 > 1 BY <1>1
  <2> QED BY <1>2, <2>1, <2>2 DEF Nested
<1> QED BY <1>1, <1>2, <1>3, <1>4 DEF WellNested

-----------------------------------------------------------------------------
(* The steps.                                                              *)

(* The running frame. *)
LEMMA TopFrame ==
  ASSUME WellNested(stack), ~Idle
  PROVE  /\ Len(stack) \in 1..Len(stack) /\ Len(stack) \in Nat
         /\ Top = stack[Len(stack)] /\ Nested(stack, Len(stack))
         /\ Front(stack) = SubSeq(stack, 1, Len(stack) - 1)
         /\ Top.kind # "closure" => Sound(Top)
<1>1. stack \in Seq(Frame) /\ stack # <<>> BY DEF WellNested, Idle
<1>2. Len(stack) \in Nat \ {0} BY <1>1
<1>3. Nested(stack, Len(stack)) BY <1>2 DEF WellNested
<1>4. Top = stack[Len(stack)] BY DEF Top
<1>5. Top.kind # "closure" => Sound(Top) BY <1>3, <1>4, FrameKinds DEF Nested
<1> QED BY <1>2, <1>3, <1>4, <1>5 DEF Front

LEMMA PythonCode ==
  PythonRuns => Idle \/ RunsPython(Top)
BY DEF PythonRuns, RunsPython, At, Converting, Waiting, Idle

(* What the properties say of the results of a step. *)
LEMMA NoResult ==
  ASSUME returned' = NULL
  PROVE  Returned' /\ ResultXorError'
BY DEF Returned, ResultXorError

LEMMA FailureResult ==
  ASSUME returned' = Failure
  PROVE  Returned' /\ ResultXorError'
BY DEF Returned, Result, ResultXorError, Failure

(* A call that does not come to its arguments. *)
LEMMA CallFailsKeeps ==
  ASSUME FInv, PythonRuns, stack' = stack, err' = TRUE, returned' = Failure,
         ready' \subseteq Functions, crashed' = crashed
  PROVE  FInv'
<1>1. Raised(stack', err') BY PythonCode DEF Raised, Top, Idle
<1> QED BY <1>1, FailureResult DEF FInv

LEMMA CrashKeeps == ASSUME FInv, Crash PROVE FInv'
BY NoResult DEF FInv, Crash, Raised

(* What a set-up leaves comes from a hollow type. *)
LEMMA LeftIsHollow ==
  ASSUME NEW fn, NEW left \in LeftBySetup(fn)
  PROVE  left \in BOOLEAN /\ (left => Hollow # {})
BY DEF LeftBySetup

LEMMA CallKeeps ==
  ASSUME Assumptions, FInv, NEW fn \in Functions,
         NEW args \in [1..Len(fn.sig) -> {"native", "converted", "bad"}], Call(fn, args)
  PROVE  FInv'
<1>1. PICK left \in LeftBySetup(fn) :
        /\ err' = left
        /\ stack' = Append(stack, NewFrame(fn.sig, fn.result, args, left))
  BY DEF Call, NewFrame
<1>2. PythonRuns /\ ready' = ready \cup {fn} /\ returned' = NULL /\ crashed' = crashed
  BY DEF Call
<1>3. left \in BOOLEAN /\ (left => Hollow # {}) BY LeftIsHollow
<1> DEFINE f == NewFrame(fn.sig, fn.result, args, left)
<1>4. Sound(f) /\ f.pending = left /\ f.kind = "store"
  <2>1. fn.sig \in Seq(Type) /\ fn.result \in Type BY DEF Assumptions
  <2>2. f.pending = left /\ f.kind = "store" BY DEF NewFrame
  <2> QED BY <1>3, <2>1, <2>2, NewCall
<1>5. stack' = Append(stack, f) BY <1>1
<1> HIDE DEF f
<1>6. stack # <<>> => RunsPython(stack[Len(stack)])
  BY <1>2, PythonCode DEF Idle, Top
<1>7. WellNested(stack') /\ stack' # <<>> /\ stack'[Len(stack')] = f
  BY <1>4, <1>5, <1>6, Pushed DEF FInv
<1>8. Raised(stack', err') BY <1>1, <1>4, <1>7 DEF Raised
<1> QED BY <1>1, <1>2, <1>3, <1>7, <1>8, NoResult DEF FInv

(* A step that replaces the running call. *)
LEMMA TopReplaced ==
  ASSUME FInv, ~Idle, Top.kind # "closure", NEW f, Sound(f), SetTop(f)
  PROVE  WellNested(stack') /\ stack' # <<>> /\ stack'[Len(stack')] = f
<1> DEFINE t == Front(stack)
<1>1. WellNested(t) /\ (t # <<>> => RunsPython(t[Len(t)]))
  BY TopFrame, Caller DEF FInv
<1>2. stack' = Append(t, f) BY DEF SetTop
<1> HIDE DEF t
<1> QED BY <1>1, <1>2, Pushed

(* While a call is at an argument without running Python code, the only    *)
(* exception is the one its set-up has left.                               *)
LEMMA OnlyPending ==
  ASSUME FInv, At("store"), ~Converting
  PROVE  err => Top.pending
BY DEF FInv, Raised, At, Converting, RunsPython, Waiting, Idle, Top

LEMMA SkipArgKeeps == ASSUME Assumptions, FInv, SkipArg PROVE FInv'
<1> DEFINE g == Skip(Top)
<1>1. /\ ~Idle /\ Top.kind = "store" /\ Top.i <= Len(Top.sig)
      /\ Top.args[Top.i] = "native" /\ SetTop(g)
      /\ returned' = NULL /\ UNCHANGED <<err, ready, crashed>>
  BY DEF SkipArg, At, Skip
<1>2. err => Top.pending
  <2>1. At("store") /\ ~Converting BY DEF SkipArg, Converting
  <2> QED BY <2>1, OnlyPending
<1>3. Sound(Top) BY <1>1, TopFrame DEF FInv
<1>4. Sound(g) /\ g.kind = "store" /\ g.pending = Top.pending
  BY <1>1, <1>3, SkippedSound
<1> HIDE DEF g
<1>5. WellNested(stack') /\ stack'[Len(stack')] = g BY <1>1, <1>4, TopReplaced
<1>6. Raised(stack', err') BY <1>1, <1>2, <1>4, <1>5 DEF Raised
<1> QED BY <1>1, <1>5, <1>6, NoResult DEF FInv

LEMMA StoreArgKeeps == ASSUME Assumptions, FInv, StoreArg PROVE FInv'
<1> DEFINE g == Fill(Top, Placed(Top), Top.cur_arg + Size[Top.sig[Top.i]], Top.i + 1)
<1>1. /\ ~Idle /\ Waiting(Top) /\ SetTop(g) /\ returned' = NULL
      /\ (err => Top.pending) /\ UNCHANGED <<err, ready, crashed>>
  BY DEF StoreArg, Converting, At, Waiting, Fill, Placed
<1>2. Sound(Top) BY <1>1, TopFrame DEF FInv, Waiting
<1>3. Sound(g) /\ g.kind = "store" /\ g.pending = Top.pending
  BY <1>1, <1>2, FilledSound
<1> HIDE DEF g
<1>4. WellNested(stack') /\ stack'[Len(stack')] = g
  BY <1>1, <1>3, TopReplaced DEF Waiting
<1>5. Raised(stack', err') BY <1>1, <1>3, <1>4 DEF Raised
<1> QED BY <1>1, <1>4, <1>5, NoResult DEF FInv

(* A call that ends leaves the frame of Python code that made it. *)
LEMMA CallLeft ==
  ASSUME FInv, ~Idle, Top.kind # "closure", stack' = Front(stack)
  PROVE  WellNested(stack') /\ Raised(stack', err')
<1>1. WellNested(stack') /\ (stack' # <<>> => RunsPython(stack'[Len(stack')]))
  BY TopFrame, Caller DEF FInv
<1> QED BY <1>1 DEF Raised

LEMMA StoreFailsKeeps == ASSUME FInv, StoreFails PROVE FInv'
<1>1. /\ ~Idle /\ Top.kind = "store" /\ stack' = Front(stack) /\ err' = TRUE
      /\ returned' = Failure /\ UNCHANGED <<ready, crashed>>
  BY DEF StoreFails, Converting, At, Pop
<1> QED BY <1>1, CallLeft, FailureResult DEF FInv

LEMMA EnterCKeeps == ASSUME Assumptions, FInv, EnterC PROVE FInv'
<1> DEFINE g == [Top EXCEPT !.kind = "C"]
<1>1. /\ ~Idle /\ Top.kind = "store" /\ Top.i > Len(Top.sig) /\ SetTop(g)
      /\ returned' = NULL /\ UNCHANGED <<err, ready, crashed>>
  BY DEF EnterC, At
<1>2. Sound(Top) BY <1>1, TopFrame DEF FInv
<1>3. Len(Top.sig) \in Nat /\ Top.i \in Nat BY <1>2 DEF Sound, CallFrame
<1>4. Sound(g) /\ g.kind = "C" /\ g.pending = Top.pending
  BY <1>1, <1>2, <1>3, EnteredSound
<1> HIDE DEF g
<1>5. At("store") /\ ~Converting BY <1>1, <1>3 DEF EnterC, Converting
<1>6. err => Top.pending BY <1>5, OnlyPending
<1>7. WellNested(stack') /\ stack'[Len(stack')] = g BY <1>1, <1>4, TopReplaced
<1>8. Raised(stack', err') BY <1>1, <1>4, <1>6, <1>7 DEF Raised
<1> QED BY <1>1, <1>7, <1>8, NoResult DEF FInv

LEMMA CallbackKeeps ==
  ASSUME Assumptions, FInv, NEW fn \in Functions, Callback(fn)
  PROVE  FInv'
<1> DEFINE f == [kind |-> "closure", result |-> fn.result]
<1>1. /\ ~Idle /\ Top.kind = "C" /\ stack' = Append(stack, f)
      /\ returned' = NULL /\ UNCHANGED <<ready, crashed>>
  BY DEF Callback, At
<1>2. f \in ClosureFrame /\ f.kind = "closure" BY DEF ClosureFrame, Assumptions
<1> HIDE DEF f
<1>3. stack # <<>> /\ stack[Len(stack)].kind = "C" BY <1>1, TopFrame DEF Idle, FInv
<1>4. WellNested(stack') /\ stack' # <<>> /\ stack'[Len(stack')] = f
  BY <1>1, <1>2, <1>3, Pushed DEF FInv
<1>5. Raised(stack', err') BY <1>2, <1>4 DEF Raised, RunsPython
<1>6. err' \in BOOLEAN BY DEF Callback, LeftByDecoding, FInv
<1> QED BY <1>1, <1>4, <1>5, <1>6, NoResult DEF FInv

LEMMA CallableReturnsKeeps == ASSUME FInv, CallableReturns PROVE FInv'
<1>1. /\ ~Idle /\ ~err /\ stack' = Front(stack) /\ returned' = NULL
      /\ UNCHANGED <<err, ready, crashed>>
  BY DEF CallableReturns, At, Pop
<1>2. Len(stack) - 1 \in 0..Len(stack) BY <1>1, TopFrame DEF FInv
<1>3. WellNested(stack') BY <1>1, <1>2, TopFrame, Cut DEF FInv
<1>4. Raised(stack', err') BY <1>1 DEF Raised
<1> QED BY <1>1, <1>3, <1>4, NoResult DEF FInv

LEMMA UnstoredKeeps == ASSUME FInv, At("closure"), Unstored PROVE FInv'
<1> DEFINE n == Len(stack) - 1
           g == [stack[n] EXCEPT !.unstored = TRUE]
<1>1. /\ ~Idle /\ Top.kind = "closure" /\ err' = TRUE /\ returned' = NULL
      /\ stack' = Append(SubSeq(stack, 1, Len(stack) - 2), g)
      /\ UNCHANGED <<ready, crashed>>
  BY DEF Unstored, At
<1>2. /\ Len(stack) \in Nat /\ Nested(stack, Len(stack))
      /\ stack[Len(stack)].kind = "closure"
  BY <1>1, TopFrame DEF FInv
<1>3. n \in 1..Len(stack) /\ n - 1 = Len(stack) - 2 /\ stack[n].kind = "C"
  BY <1>2, FrameKinds DEF Nested, Sound
<1>4. Sound(stack[n]) /\ WellNested(stack)
  <2> HIDE DEF n
  <2> QED BY <1>3, Caller DEF FInv
<1>5. Sound(g) /\ g.kind = "C" /\ g.unstored BY <1>3, <1>4, UnstoredSound
<1> HIDE DEF g
<1>6. WellNested(stack') /\ stack' # <<>> /\ stack'[Len(stack')] = g
  <2> DEFINE t == SubSeq(stack, 1, n - 1)
  <2>1. stack' = Append(t, g) BY <1>1, <1>3
  <2>2. WellNested(t) /\ (t # <<>> => RunsPython(t[Len(t)]))
    <3> HIDE DEF n
    <3> QED BY <1>3, <1>4, Caller
  <2> HIDE DEF t
  <2> QED BY <1>5, <2>1, <2>2, Pushed
<1>7. Raised(stack', err') BY <1>5, <1>6 DEF Raised
<1> QED BY <1>1, <1>6, <1>7, NoResult DEF FInv

LEMMA CatchKeeps == ASSUME FInv, Catch PROVE FInv'
<1>1. stack' = stack /\ err' = FALSE /\ returned' = NULL /\ UNCHANGED <<ready, crashed>>
  BY DEF Catch
<1>2. Raised(stack', err') BY <1>1 DEF Raised
<1> QED BY <1>1, <1>2, NoResult DEF FInv

LEMMA LeaveCKeeps == ASSUME FInv, LeaveC PROVE FInv'
<1>1. /\ ~Idle /\ Top.kind = "C" /\ stack' = Front(stack)
      /\ returned' = [null |-> FALSE, err |-> err', unstored |-> Top.unstored,
                      pending |-> Top.pending \/ err' # err]
      /\ UNCHANGED <<ready, crashed>>
  BY DEF LeaveC, At, Pop
<1>2. WellNested(stack') /\ Raised(stack', err') BY <1>1, CallLeft
<1>3. /\ Top.unstored \in BOOLEAN /\ Top.pending \in BOOLEAN
      /\ Top.pending => Hollow # {}
  BY <1>1, TopFrame DEF FInv, Sound, CallFrame
<1>4. err => Top.unstored \/ Top.pending
  BY <1>1, TopFrame DEF FInv, Raised, RunsPython, Waiting, Idle
<1>5. err' \in BOOLEAN /\ (err' # err => Hollow # {})
  BY DEF LeaveC, LeftByDecoding, FInv
<1>6. returned' \in Result BY <1>1, <1>3, <1>5 DEF Result
<1>7. ResultXorError' BY <1>1, <1>3, <1>4, <1>5 DEF ResultXorError
<1> QED BY <1>1, <1>2, <1>5, <1>6, <1>7 DEF FInv, Returned

LEMMA ResultFailsKeeps == ASSUME FInv, ResultFails PROVE FInv'
<1>1. /\ ~Idle /\ Top.kind = "C" /\ stack' = Front(stack) /\ err' = TRUE
      /\ returned' = Failure /\ UNCHANGED <<ready, crashed>>
  BY DEF ResultFails, At, Pop
<1> QED BY <1>1, CallLeft, FailureResult DEF FInv

LEMMA InitHolds == Init => FInv
<1>1. ASSUME Init PROVE FInv
  <2>1. WellNested(stack) BY <1>1 DEF Init, WellNested
  <2> QED BY <1>1, <2>1 DEF Init, FInv, Raised, Returned, ResultXorError
<1> QED BY <1>1

(* A step that starts a call or a callback. *)
LEMMA StartKeeps ==
  ASSUME Assumptions, FInv, NEW fn \in Functions,
         \/ SetupFails(fn) \/ CallWrongly(fn)
         \/ \E args \in [1..Len(fn.sig) -> {"native", "converted", "bad"}] :
              Call(fn, args) \/ CallCrashes(fn, args)
         \/ Callback(fn) \/ CallbackCrashes(fn)
  PROVE  FInv'
<1>1. CASE SetupFails(fn)
  BY <1>1, CallFailsKeeps DEF SetupFails, FInv
<1>2. CASE CallWrongly(fn)
  BY <1>2, CallFailsKeeps DEF CallWrongly, FInv
<1>3. CASE \E args \in [1..Len(fn.sig) -> {"native", "converted", "bad"}] : Call(fn, args)
  BY <1>3, CallKeeps
<1>4. CASE \E args \in [1..Len(fn.sig) -> {"native", "converted", "bad"}] :
             CallCrashes(fn, args)
  BY <1>4, CrashKeeps DEF CallCrashes
<1>5. CASE Callback(fn) BY <1>5, CallbackKeeps
<1>6. CASE CallbackCrashes(fn) BY <1>6, CrashKeeps DEF CallbackCrashes
<1> QED BY <1>1, <1>2, <1>3, <1>4, <1>5, <1>6

LEMMA StepKeeps == ASSUME Assumptions, FInv, [Next]_vars PROVE FInv'
<1>1. CASE \E fn \in Functions :
             \/ SetupFails(fn) \/ CallWrongly(fn)
             \/ \E args \in [1..Len(fn.sig) -> {"native", "converted", "bad"}] :
                  Call(fn, args) \/ CallCrashes(fn, args)
             \/ Callback(fn) \/ CallbackCrashes(fn)
  BY <1>1, StartKeeps
<1>2. CASE SkipArg BY <1>2, SkipArgKeeps
<1>3. CASE StoreArg BY <1>3, StoreArgKeeps
<1>4. CASE StoreFails BY <1>4, StoreFailsKeeps
<1>5. CASE EnterC BY <1>5, EnterCKeeps
<1>6. CASE CallableReturns BY <1>6, CallableReturnsKeeps
<1>7. CASE CallableRaises BY <1>7, UnstoredKeeps, CrashKeeps DEF CallableRaises
<1>8. CASE CallableFails BY <1>8, UnstoredKeeps, CrashKeeps DEF CallableFails
<1>9. CASE Catch BY <1>9, CatchKeeps
<1>10. CASE LeaveC BY <1>10, LeaveCKeeps
<1>11. CASE ResultFails BY <1>11, ResultFailsKeeps
<1>12. CASE ResultCrashes BY <1>12, CrashKeeps DEF ResultCrashes
<1>13. CASE UNCHANGED vars
  BY <1>13 DEF vars, FInv, Returned, ResultXorError
<1> QED BY <1>1, <1>2, <1>3, <1>4, <1>5, <1>6, <1>7, <1>8, <1>9, <1>10, <1>11, <1>12,
        <1>13 DEF Next, Crashed

-----------------------------------------------------------------------------
(* Ranges between the members of a growing sequence of numbers. *)
LEMMA Ranges ==
  ASSUME NEW n \in Nat, NEW at \in [0..n -> Nat],
         \A i, j \in 0..n : i <= j => at[i] <= at[j]
  PROVE  /\ \A i \in 1..n : at[i - 1] .. (at[i] - 1) \subseteq 0 .. (at[n] - 1)
         /\ \A i, j \in 1..n : i < j =>
              (at[i - 1] .. (at[i] - 1)) \cap (at[j - 1] .. (at[j] - 1)) = {}
<1>1. \A i \in 1..n : at[i] \in Nat /\ at[i - 1] \in Nat /\ at[i] <= at[n] /\ at[n] \in Nat
  OBVIOUS
<1>2. \A i, j \in 1..n : i < j => at[i] <= at[j - 1]
  <2> SUFFICES ASSUME NEW i \in 1..n, NEW j \in 1..n, i < j PROVE at[i] <= at[j - 1]
    OBVIOUS
  <2>1. i \in 0..n /\ j - 1 \in 0..n /\ i <= j - 1 OBVIOUS
  <2> QED BY <2>1
<1>3. ASSUME NEW i \in 1..n PROVE at[i - 1] .. (at[i] - 1) \subseteq 0 .. (at[n] - 1)
  BY <1>1
<1>4. ASSUME NEW i \in 1..n, NEW j \in 1..n, i < j
      PROVE  (at[i - 1] .. (at[i] - 1)) \cap (at[j - 1] .. (at[j] - 1)) = {}
  BY <1>1, <1>2, <1>4
<1> QED BY <1>3, <1>4

(* A call that has come to C has its arguments in place. *)
LEMMA SoundComplete ==
  ASSUME Assumptions, NEW f, Sound(f), f.kind = "C"
  PROVE  LET n == Len(f.sig)
         IN  /\ \A i \in 1..n : f.ff_args[i] = InObject <=> f.args[i] = "native"
             /\ \A i \in 1..n : f.args[i] = "converted" =>
                  /\ f.ff_args[i] # NULL
                  /\ Bytes(f, i) \subseteq 0 .. (f.argsize - 1)
                  /\ \A j \in 1..n : j # i /\ f.args[j] = "converted" =>
                       Bytes(f, i) \cap Bytes(f, j) = {}
             /\ \A i \in 1..n : f.args[i] # "bad"
<1> DEFINE n == Len(f.sig)
           at == Taken(f)
<1>1. /\ f.sig \in Seq(Type) /\ n \in Nat /\ f.i = n + 1 /\ f.argsize = at[n]
      /\ \A i \in 1..n : f.args[i] # "bad"
  BY DEF Sound, CallFrame, Assumptions, ArgSize, Taken
<1>2. /\ at \in [0..n -> Nat] /\ at[0] = 0
      /\ \A i \in 1..n : at[i] = at[i - 1]
                                   + (IF f.args[i] = "native" THEN 0 ELSE Size[f.sig[i]])
      /\ \A i, j \in 0..n : i <= j => at[i] <= at[j]
  BY <1>1, BytesTakenGrows DEF Taken
<1>3. \A i \in 1..n : f.args[i] # "native" => f.ff_args[i] = InBuffer(at[i - 1])
  BY <1>1 DEF Sound, PlaceOf
<1>4. \A i \in 1..n : f.args[i] = "native" => f.ff_args[i] = InObject
  BY <1>1 DEF Sound, PlaceOf
<1> HIDE DEF at
<1>5. \A i \in 1..n : f.args[i] # "native" =>
        /\ f.ff_args[i] # InObject /\ f.ff_args[i] # NULL
        /\ f.ff_args[i].offset = at[i - 1]
  <2> SUFFICES ASSUME NEW i \in 1..n, f.args[i] # "native"
               PROVE  /\ f.ff_args[i] # InObject /\ f.ff_args[i] # NULL
                      /\ f.ff_args[i].offset = at[i - 1]
    OBVIOUS
  <2>1. f.ff_args[i] = InBuffer(at[i - 1]) BY <1>3
  <2>2. at[i - 1] \in Nat
    <3>1. n \in Nat /\ i - 1 \in 0..n BY <1>1
    <3>2. at \in [0..n -> Nat] BY <1>2
    <3> HIDE DEF n
    <3> QED BY <3>1, <3>2
  <2>3. InBuffer(at[i - 1]) \in Place BY <2>2 DEF InBuffer, Place
  <2>4. InBuffer(at[i - 1]).in = "buffer" /\ InObject.in = "object" BY DEF InBuffer, InObject
  <2>5. InBuffer(at[i - 1]).offset = at[i - 1] BY DEF InBuffer
  <2> QED BY <2>1, <2>3, <2>4, <2>5 DEF Assumptions
<1>6. \A i \in 1..n : f.args[i] = "converted" => Bytes(f, i) = at[i - 1] .. (at[i] - 1)
  <2> SUFFICES ASSUME NEW i \in 1..n, f.args[i] = "converted"
               PROVE  Bytes(f, i) = at[i - 1] .. (at[i] - 1)
    OBVIOUS
  <2>1. f.ff_args[i].offset = at[i - 1] BY <1>5
  <2>2. at[i] = at[i - 1] + Size[f.sig[i]] BY <1>2
  <2>3. i - 1 \in 0..n /\ f.sig[i] \in Type
    <3>1. n \in Nat /\ f.sig \in Seq(Type) BY <1>1
    <3> QED BY <3>1
  <2>4. at[i - 1] \in Nat
    <3>1. at \in [0..n -> Nat] BY <1>2
    <3> HIDE DEF n
    <3> QED BY <2>3, <3>1
  <2>5. Size[f.sig[i]] \in Nat BY <2>3 DEF Assumptions
  <2>6. at[i - 1] + Size[f.sig[i]] - 1 = at[i] - 1 BY <2>2, <2>4, <2>5
  <2> QED BY <2>1, <2>6 DEF Bytes
<1>7. /\ \A i \in 1..n : at[i - 1] .. (at[i] - 1) \subseteq 0 .. (at[n] - 1)
      /\ \A i, j \in 1..n : i < j =>
           (at[i - 1] .. (at[i] - 1)) \cap (at[j - 1] .. (at[j] - 1)) = {}
  <2> HIDE DEF n
  <2> QED BY <1>1, <1>2, Ranges
<1>8. \A i \in 1..n : f.args[i] = "converted" => Bytes(f, i) \subseteq 0 .. (f.argsize - 1)
  BY <1>1, <1>6, <1>7
<1>9. ASSUME NEW i \in 1..n, f.args[i] = "converted",
             NEW j \in 1..n, j # i, f.args[j] = "converted"
      PROVE  Bytes(f, i) \cap Bytes(f, j) = {}
  <2>1. i < j \/ j < i BY <1>9
  <2> QED BY <1>6, <1>7, <1>9, <2>1
<1> QED BY <1>1, <1>4, <1>5, <1>8, <1>9

LEMMA Consequences == ASSUME Assumptions, FInv PROVE TypeOK /\ ArgsComplete
<1>1. \A k \in 1..Len(stack) : Nested(stack, k) BY DEF FInv, WellNested
<1>2. TypeOK BY <1>1, FrameKinds DEF FInv, Returned, TypeOK, Nested, Sound
<1>3. ASSUME NEW k \in 1..Len(stack), stack[k].kind = "C" PROVE Sound(stack[k])
  BY <1>1, <1>3, FrameKinds DEF Nested
<1>4. ArgsComplete BY <1>3, SoundComplete DEF ArgsComplete
<1> QED BY <1>2, <1>4

LEMMA AlwaysSound == ASSUME Assumptions PROVE Spec => []FInv
BY InitHolds, StepKeeps, PTL DEF Spec

(* Every frame has its fields, and a closure was called by C: for every    *)
(* number of types, functions and nested calls.                            *)
THEOREM TypeCorrect == ASSUME Assumptions PROVE Spec => []TypeOK
BY AlwaysSound, Consequences, PTL

(* C is entered with every argument in its object or in bytes of the       *)
(* buffer that are inside its bounds and no other argument's, for every    *)
(* signature: the two passes of funproxy_call agree.                       *)
THEOREM ArgumentsComplete == ASSUME Assumptions PROVE Spec => []ArgsComplete
BY AlwaysSound, Consequences, PTL

(* A call returns NULL with an exception only and an exception with NULL   *)
(* only, unless one of its callbacks has failed or the type of a pointer   *)
(* to something unhandled was made for it, however calls and callbacks     *)
(* nest (funproxy_call with its set-up, closureproxy_call).                *)
THEOREM NullMeansException == ASSUME Assumptions PROVE Spec => []ResultXorError
<1>1. FInv => ResultXorError BY DEF FInv
<1> QED BY <1>1, AlwaysSound, PTL
=============================================================================
