------------------------ MODULE CompositeInitProofs ------------------------
(***************************************************************************)
(* The initialisation of composites, for any fields, any values and any    *)
(* calls.                                                                  *)
(*                                                                         *)
(* The argument: both loops of compositeproxy_init go through the fields   *)
(* once and fill each handled one with the value that is meant for it or   *)
(* stop there (Fills), so at the end of a loop that was not stopped every  *)
(* handled field has its value (LoopEnd).  What the attributes of an       *)
(* object wrote before one was missing is written again by the arguments.  *)
(***************************************************************************)
EXTENDS CompositeInit, SequenceTheorems, FiniteSetTheorems, WellFoundedInduction,
        TLAPS

(* Distinct handled fields share no cell: a struct, no union.              *)
Disjoint ==
  \A f, g \in Handled : f # g => Place[f] \cap Place[g] = {}

Memory == [Cell -> Value \cup {JUNK}]
State == [mem : Memory, how : {"ok", "error", "crash"}]

(* Calls as CPython makes them, of objects of the four kinds.              *)
Kinds == {"plain", "dict", "object", "struct"}
WellFormed ==
  \A c \in Call :
    /\ c.args \in Seq({c.args[i] : i \in DOMAIN c.args})
    /\ \A i \in DOMAIN c.args :
         /\ c.args[i].kind \in Kinds
         /\ c.args[i].kind = "struct" => c.args[i].mem \in Memory

(* The structs that are copied have no unwritten memory themselves.        *)
CopiesWritten ==
  \A c \in Call : \A i \in DOMAIN c.args : c.args[i].kind = "struct" =>
    \A f \in Handled : \A b \in Place[f] : c.args[i].mem[b] # JUNK

-----------------------------------------------------------------------------
(* Induction, with sets for predicates.                                    *)

(* A set of numbers has a smallest member: the intervals below its members *)
(* are finite sets, among which there is a smallest.                       *)
LEMMA SmallestMember ==
  ASSUME NEW S \in SUBSET Nat, S # {}
  PROVE  \E n \in S : \A m \in S : n <= m
<1> DEFINE Below == {0..n : n \in S}
           R == StrictSubsetOrdering(Nat)
<1>1. IsWellFoundedOn(R, FiniteSubsetsOf(Nat)) BY FS_StrictSubsetOrderingWellFounded
<1>2. Below \subseteq FiniteSubsetsOf(Nat)
  <2>1. \A n \in S : IsFiniteSet(0..n) /\ 0..n \subseteq Nat
    <3> TAKE n \in S
    <3>1. IsFiniteSet(0..n) BY FS_Interval
    <3> QED BY <3>1
  <2> QED BY <2>1 DEF FiniteSubsetsOf
<1>3. Below # {} OBVIOUS
<1>4. \E x \in Below : \A y \in Below : ~ (<<y, x>> \in R)
  <2> HIDE DEF R, Below
  <2> QED BY <1>1, <1>2, <1>3, WFMin
<1>5. PICK n \in S : \A y \in Below : ~ (<<y, 0..n>> \in R) BY <1>4
<1>6. ASSUME NEW m \in S, m < n PROVE FALSE
  <2>1. 0..m \in Below OBVIOUS
  <2>2. 0..m \subseteq 0..n /\ n \in 0..n /\ n \notin 0..m BY <1>6
  <2>3. <<0..m, 0..n>> \in R BY <2>2 DEF StrictSubsetOrdering
  <2> QED BY <2>1, <2>3, <1>5
<1> QED BY <1>6

LEMMA SetInduction ==
  ASSUME NEW S, 0 \in S, \A n \in Nat : n \in S => n + 1 \in S
  PROVE  Nat \subseteq S
<1> SUFFICES ASSUME Nat \ S # {} PROVE FALSE OBVIOUS
<1>1. PICK n \in Nat \ S : \A m \in Nat \ S : n <= m BY SmallestMember
<1>2. n - 1 \in Nat /\ n - 1 \in S BY <1>1
<1> QED BY <1>1, <1>2

-----------------------------------------------------------------------------
(* The loops.                                                              *)

(* The equations that define the two loops have solutions.                 *)
LEMMA ArgumentsLoop ==
  ASSUME Len(Field) \in Nat, NEW mem, NEW args, NEW kwargs
  PROVE  \E after :
    /\ after = [i \in 0 .. Len(Field) |->
        IF i = 0 THEN End(mem, "ok")
        ELSE LET so_far == after[i - 1]
                 f == Field[i]
             IN CASE so_far.how # "ok" \/ f \notin Handled -> so_far
                  [] so_far.how = "ok" /\ i <= Len(args) /\ f \in Handled ->
                       SetField(so_far.mem, f, ValueOf(args[i]))
                  [] so_far.how = "ok" /\ i > Len(args) /\ f \in Handled
                       /\ f \in DOMAIN kwargs ->
                       SetField(so_far.mem, f, kwargs[f])
                  [] OTHER -> End(Fill(so_far.mem, f, 0), "ok")]
    /\ FromArguments(mem, args, kwargs) = after[Len(Field)]
<1> DEFINE Step(g, i) ==
        IF i = 0 THEN End(mem, "ok")
        ELSE LET so_far == g[i - 1]
                 f == Field[i]
             IN CASE so_far.how # "ok" \/ f \notin Handled -> so_far
                  [] so_far.how = "ok" /\ i <= Len(args) /\ f \in Handled ->
                       SetField(so_far.mem, f, ValueOf(args[i]))
                  [] so_far.how = "ok" /\ i > Len(args) /\ f \in Handled
                       /\ f \in DOMAIN kwargs ->
                       SetField(so_far.mem, f, kwargs[f])
                  [] OTHER -> End(Fill(so_far.mem, f, 0), "ok")
           Good == {k \in Nat : \E g : g = [i \in 0..k |-> Step(g, i)]}
<1>1. 0 \in Good
  <2>1. \A g : Step(g, 0) = End(mem, "ok") OBVIOUS
  <2> HIDE DEF Step
  <2> DEFINE g == [i \in 0..0 |-> End(mem, "ok")]
  <2>2. g = [i \in 0..0 |-> Step(g, i)] BY <2>1
  <2> HIDE DEF g
  <2> QED BY <2>2
<1>2. ASSUME NEW k \in Nat, k \in Good PROVE k + 1 \in Good
  <2>1. PICK g : g = [i \in 0..k |-> Step(g, i)] BY <1>2
  <2> DEFINE h == [i \in 0..(k + 1) |-> IF i <= k THEN g[i] ELSE Step(g, k + 1)]
  <2>2. \A a, b, i : (i # 0 => a[i - 1] = b[i - 1]) => Step(a, i) = Step(b, i)
    OBVIOUS
  <2> HIDE DEF Step
  <2>3. ASSUME NEW i \in 0..(k + 1) PROVE h[i] = Step(h, i)
    <3>1. CASE i <= k
      <4>1. h[i] = g[i] /\ g[i] = Step(g, i) BY <2>1, <3>1
      <4>2. i # 0 => h[i - 1] = g[i - 1] BY <3>1
      <4> QED BY <4>1, <4>2, <2>2
    <3>2. CASE i = k + 1
      <4>1. h[i - 1] = g[i - 1] BY <3>2
      <4>2. h[i] = Step(g, i) BY <3>2
      <4> QED BY <4>1, <4>2, <2>2
    <3> QED BY <3>1, <3>2
  <2>4. h = [i \in 0..(k + 1) |-> Step(h, i)] BY <2>3
  <2> HIDE DEF h
  <2> QED BY <2>4
<1>3. Len(Field) \in Good
  <2> HIDE DEF Good
  <2> QED BY <1>1, <1>2, SetInduction
<1>4. PICK g : g = [i \in 0..Len(Field) |-> Step(g, i)] BY <1>3
<1> QED BY <1>4 DEF FromArguments

LEMMA AttributesLoop ==
  ASSUME Len(Field) \in Nat, NEW mem, NEW attrs
  PROVE  \E after :
    /\ after = [i \in 0 .. Len(Field) |->
        IF i = 0 THEN End(mem, "ok")
        ELSE LET so_far == after[i - 1]
             IN CASE so_far.how # "ok" -> so_far
                  [] so_far.how = "ok" /\ Field[i] \notin DOMAIN attrs ->
                       End(so_far.mem, "error")
                  [] OTHER -> SetField(so_far.mem, Field[i], attrs[Field[i]])]
    /\ FromAttributes(mem, attrs) = after[Len(Field)]
<1> DEFINE Step(g, i) ==
        IF i = 0 THEN End(mem, "ok")
        ELSE LET so_far == g[i - 1]
             IN CASE so_far.how # "ok" -> so_far
                  [] so_far.how = "ok" /\ Field[i] \notin DOMAIN attrs ->
                       End(so_far.mem, "error")
                  [] OTHER -> SetField(so_far.mem, Field[i], attrs[Field[i]])
           Good == {k \in Nat : \E g : g = [i \in 0..k |-> Step(g, i)]}
<1>1. 0 \in Good
  <2>1. \A g : Step(g, 0) = End(mem, "ok") OBVIOUS
  <2> HIDE DEF Step
  <2> DEFINE g == [i \in 0..0 |-> End(mem, "ok")]
  <2>2. g = [i \in 0..0 |-> Step(g, i)] BY <2>1
  <2> HIDE DEF g
  <2> QED BY <2>2
<1>2. ASSUME NEW k \in Nat, k \in Good PROVE k + 1 \in Good
  <2>1. PICK g : g = [i \in 0..k |-> Step(g, i)] BY <1>2
  <2> DEFINE h == [i \in 0..(k + 1) |-> IF i <= k THEN g[i] ELSE Step(g, k + 1)]
  <2>2. \A a, b, i : (i # 0 => a[i - 1] = b[i - 1]) => Step(a, i) = Step(b, i)
    OBVIOUS
  <2> HIDE DEF Step
  <2>3. ASSUME NEW i \in 0..(k + 1) PROVE h[i] = Step(h, i)
    <3>1. CASE i <= k
      <4>1. h[i] = g[i] /\ g[i] = Step(g, i) BY <2>1, <3>1
      <4>2. i # 0 => h[i - 1] = g[i - 1] BY <3>1
      <4> QED BY <4>1, <4>2, <2>2
    <3>2. CASE i = k + 1
      <4>1. h[i - 1] = g[i - 1] BY <3>2
      <4>2. h[i] = Step(g, i) BY <3>2
      <4> QED BY <4>1, <4>2, <2>2
    <3> QED BY <3>1, <3>2
  <2>4. h = [i \in 0..(k + 1) |-> Step(h, i)] BY <2>3
  <2> HIDE DEF h
  <2> QED BY <2>4
<1>3. Len(Field) \in Good
  <2> HIDE DEF Good
  <2> QED BY <1>1, <1>2, SetInduction
<1>4. PICK g : g = [i \in 0..Len(Field) |-> Step(g, i)] BY <1>3
<1> QED BY <1>4 DEF FromAttributes

(* What a turn of a loop does to field i, for which v is meant: it passes  *)
(* over a field that is not handled, stops, or fills the field.            *)
Fills(s, t, i, v) ==
  /\ s \in State => t \in State
  /\ \/ t = s /\ (s.how = "ok" => Field[i] \notin Handled)
     \/ t.mem = s.mem /\ t.how # "ok"
     \/ /\ s.how = "ok" /\ t.how = "ok" /\ Field[i] \in Handled
        /\ v \in Value /\ t.mem = Fill(s.mem, Field[i], v)

LEMMA FillTyped ==
  ASSUME NEW mem \in Memory, NEW f, NEW v \in Value PROVE Fill(mem, f, v) \in Memory
BY DEF Memory, Fill

LEMMA EndTyped ==
  ASSUME NEW mem \in Memory, NEW how \in {"ok", "error", "crash"}
  PROVE  End(mem, how) \in State
BY DEF End, State

LEMMA SetFieldFills ==
  ASSUME NEW s, s.how = "ok", NEW i, NEW v
  PROVE  Fills(s, SetField(s.mem, Field[i], v), i, v)
<1> DEFINE t == SetField(s.mem, Field[i], v)
<1>1. \/ t = End(s.mem, "crash")
      \/ t = End(s.mem, "error")
      \/ v \in Value /\ Field[i] \in Handled /\ t = End(Fill(s.mem, Field[i], v), "ok")
  BY DEF SetField
<1> HIDE DEF t
<1>2. s \in State => s.mem \in Memory BY DEF State
<1>3. s \in State => t \in State BY <1>1, <1>2, EndTyped, FillTyped
<1> QED BY <1>1, <1>3 DEF Fills, End, t

(* A cell of a handled field holds the value v.                            *)
Holds(mem, f, v) == \A c \in Place[f] : mem[c] = v

LEMMA FieldFacts ==
  ASSUME Assumptions
  PROVE  /\ Len(Field) \in Nat /\ DOMAIN Field = 1 .. Len(Field)
         /\ \A f \in Handled : \E i \in 1 .. Len(Field) : f = Field[i]
         /\ \A f \in Handled : Place[f] \subseteq Cell
BY DEF Assumptions, Names

(* At the end of a loop, stopped or not, the cells hold values or what     *)
(* they held before; if it was not stopped every handled field is filled,  *)
(* and in a struct each with the value that is meant for it.               *)
LEMMA LoopEnd ==
  ASSUME Assumptions, NEW after, NEW mem, NEW want,
         after[0] = End(mem, "ok"),
         \A i \in 1 .. Len(Field) : Fills(after[i - 1], after[i], i, want[i])
  PROVE  LET end == after[Len(Field)]
         IN /\ mem \in Memory => end \in State
            /\ \A c \in Cell : end.mem[c] = mem[c] \/ end.mem[c] \in Value
            /\ end.how = "ok" =>
                 \A k \in 1 .. Len(Field) : Field[k] \in Handled =>
                   /\ want[k] \in Value
                   /\ \A c \in Place[Field[k]] : end.mem[c] \in Value
                   /\ Disjoint => Holds(end.mem, Field[k], want[k])
<1> DEFINE End_(n) ==
        /\ mem \in Memory => after[n] \in State
        /\ \A c \in Cell : after[n].mem[c] = mem[c] \/ after[n].mem[c] \in Value
        /\ after[n].how = "ok" =>
             \A k \in 1 .. n : Field[k] \in Handled =>
               /\ want[k] \in Value
               /\ \A c \in Place[Field[k]] : after[n].mem[c] \in Value
               /\ Disjoint => Holds(after[n].mem, Field[k], want[k])
           Good == {n \in Nat : n <= Len(Field) => End_(n)}
<1>1. Len(Field) \in Nat /\ DOMAIN Field = 1 .. Len(Field) BY FieldFacts
<1>2. 0 \in Good
  <2>1. mem \in Memory => after[0] \in State BY EndTyped
  <2>2. after[0].mem = mem /\ 1 .. 0 = {} BY DEF End
  <2> QED BY <2>1, <2>2
<1>3. ASSUME NEW n \in Nat, n \in Good PROVE n + 1 \in Good
  <2> SUFFICES ASSUME n + 1 <= Len(Field) PROVE End_(n + 1) OBVIOUS
  <2> DEFINE s == after[n]
             t == after[n + 1]
             f == Field[n + 1]
             v == want[n + 1]
  <2>1. End_(n) BY <1>3
  <2>2. n + 1 \in 1 .. Len(Field) /\ (n + 1) - 1 = n BY <1>1
  <2>3. Fills(s, t, n + 1, v) BY <2>2
  <2>4. \A k \in 1 .. n + 1 : k \in 1 .. n \/ k = n + 1 OBVIOUS
  <2>5. \A k \in 1 .. n : k \in DOMAIN Field /\ k # n + 1 BY <1>1
  <2> HIDE DEF s, t, f, v
  <2>typed. mem \in Memory => t \in State BY <2>1, <2>3 DEF Fills, s
  <2>6. CASE t = s /\ (s.how = "ok" => f \notin Handled)
    BY <2>1, <2>4, <2>typed, <2>6 DEF s, t, f, v
  <2>7. CASE t.mem = s.mem /\ t.how # "ok"
    BY <2>1, <2>typed, <2>7 DEF s, t
  <2>8. CASE /\ s.how = "ok" /\ f \in Handled /\ v \in Value
             /\ t.mem = Fill(s.mem, f, v)
    <3>1. \A c \in Cell : t.mem[c] = IF c \in Place[f] THEN v ELSE s.mem[c]
      BY <2>8 DEF Fill
    <3>2. \A c \in Cell : t.mem[c] = mem[c] \/ t.mem[c] \in Value
      BY <2>1, <2>8, <3>1 DEF s
    <3>3. ASSUME NEW k \in 1 .. n + 1, Field[k] \in Handled
          PROVE  /\ want[k] \in Value
                 /\ \A c \in Place[Field[k]] : t.mem[c] \in Value
                 /\ Disjoint => Holds(t.mem, Field[k], want[k])
      <4>1. Place[Field[k]] \subseteq Cell BY <3>3, FieldFacts
      <4>2. CASE k = n + 1
        BY <2>8, <3>1, <4>1, <4>2 DEF f, v, Holds
      <4>3. CASE k \in 1 .. n
        <5>1. /\ want[k] \in Value /\ \A c \in Place[Field[k]] : s.mem[c] \in Value
              /\ Disjoint => Holds(s.mem, Field[k], want[k])
          BY <2>1, <2>8, <3>3, <4>3 DEF s
        <5>2. Field[k] # f BY <2>2, <2>5, <4>3, <1>1 DEF f, Assumptions
        <5>3. Disjoint => \A c \in Place[Field[k]] : c \notin Place[f]
          BY <5>2, <3>3, <2>8 DEF Disjoint
        <5>4. Disjoint => Holds(t.mem, Field[k], want[k])
          BY <5>1, <5>3, <3>1, <4>1 DEF Holds
        <5>5. \A c \in Place[Field[k]] : t.mem[c] \in Value
          BY <5>1, <3>1, <4>1, <2>8
        <5> QED BY <5>1, <5>4, <5>5
      <4> QED BY <2>4, <4>2, <4>3
    <3> QED BY <2>typed, <3>2, <3>3 DEF t
  <2> QED BY <2>3, <2>6, <2>7, <2>8 DEF Fills, s, t, f, v
<1>4. Len(Field) \in Good
  <2> HIDE DEF Good
  <2> QED BY <1>1, <1>2, <1>3, SetInduction
<1> QED BY <1>1, <1>4

-----------------------------------------------------------------------------
(* compositeproxy_init.                                                    *)

(* What the two loops mean for field i: the loop over attributes has no    *)
(* value for a field whose attribute is missing.                           *)
ArgumentFor(args, kwargs, i) ==
  IF i <= Len(args) THEN ValueOf(args[i])
  ELSE IF Field[i] \in DOMAIN kwargs THEN kwargs[Field[i]] ELSE 0
AttributeFor(attrs, i) ==
  IF Field[i] \in DOMAIN attrs THEN attrs[Field[i]] ELSE Bad

(* What a loop that ends in `end' has done to mem.                         *)
Filled(mem, end) ==
  /\ mem \in Memory => end \in State
  /\ \A c \in Cell : end.mem[c] = mem[c] \/ end.mem[c] \in Value
  /\ end.how = "ok" =>
       \A f \in Handled : \A c \in Place[f] : end.mem[c] \in Value

LEMMA FromArgumentsEnd ==
  ASSUME Assumptions, NEW mem, NEW args, Len(args) \in Nat, NEW kwargs
  PROVE  LET end == FromArguments(mem, args, kwargs)
         IN /\ Filled(mem, end)
            /\ end.how = "ok" =>
                 \A k \in 1 .. Len(Field) : Field[k] \in Handled =>
                   /\ ArgumentFor(args, kwargs, k) \in Value
                   /\ Disjoint => Holds(end.mem, Field[k], ArgumentFor(args, kwargs, k))
<1>1. Len(Field) \in Nat BY FieldFacts
<1>2. PICK after :
    /\ after = [i \in 0 .. Len(Field) |->
        IF i = 0 THEN End(mem, "ok")
        ELSE LET so_far == after[i - 1]
                 f == Field[i]
             IN CASE so_far.how # "ok" \/ f \notin Handled -> so_far
                  [] so_far.how = "ok" /\ i <= Len(args) /\ f \in Handled ->
                       SetField(so_far.mem, f, ValueOf(args[i]))
                  [] so_far.how = "ok" /\ i > Len(args) /\ f \in Handled
                       /\ f \in DOMAIN kwargs ->
                       SetField(so_far.mem, f, kwargs[f])
                  [] OTHER -> End(Fill(so_far.mem, f, 0), "ok")]
    /\ FromArguments(mem, args, kwargs) = after[Len(Field)]
  BY <1>1, ArgumentsLoop
<1> DEFINE want == [i \in 1 .. Len(Field) |-> ArgumentFor(args, kwargs, i)]
<1>3. after[0] = End(mem, "ok") BY <1>1, <1>2
<1>4. ASSUME NEW i \in 1 .. Len(Field)
      PROVE  Fills(after[i - 1], after[i], i, want[i])
  <2> DEFINE s == after[i - 1]
             f == Field[i]
  <2>1. /\ i \in 0 .. Len(Field) /\ i # 0
        /\ i <= Len(args) <=> ~(i > Len(args))
    BY <1>1
  <2>2. after[i] =
          CASE s.how # "ok" \/ f \notin Handled -> s
            [] s.how = "ok" /\ i <= Len(args) /\ f \in Handled ->
                 SetField(s.mem, f, ValueOf(args[i]))
            [] s.how = "ok" /\ i > Len(args) /\ f \in Handled
                 /\ f \in DOMAIN kwargs -> SetField(s.mem, f, kwargs[f])
            [] OTHER -> End(Fill(s.mem, f, 0), "ok")
    BY <1>2, <2>1
  <2>3. want[i] = ArgumentFor(args, kwargs, i) OBVIOUS
  <2> HIDE DEF want, s
  <2>4. CASE s.how # "ok" \/ f \notin Handled
    <3>1. after[i] = s BY <2>2, <2>4
    <3> QED BY <3>1, <2>4 DEF Fills, s
  <2>5. CASE s.how = "ok" /\ f \in Handled /\ i <= Len(args)
    <3>1. after[i] = SetField(s.mem, f, ValueOf(args[i])) BY <2>1, <2>2, <2>5
    <3>2. want[i] = ValueOf(args[i]) BY <2>3, <2>5 DEF ArgumentFor
    <3> QED BY <3>1, <3>2, <2>5, SetFieldFills DEF s
  <2>6. CASE s.how = "ok" /\ f \in Handled /\ i > Len(args) /\ f \in DOMAIN kwargs
    <3>1. after[i] = SetField(s.mem, f, kwargs[f]) BY <2>1, <2>2, <2>6
    <3>2. want[i] = kwargs[f] BY <2>1, <2>3, <2>6 DEF ArgumentFor
    <3> QED BY <3>1, <3>2, <2>6, SetFieldFills DEF s
  <2>7. CASE s.how = "ok" /\ f \in Handled /\ i > Len(args) /\ f \notin DOMAIN kwargs
    <3>1. after[i] = End(Fill(s.mem, f, 0), "ok") BY <2>1, <2>2, <2>7
    <3>2. want[i] = 0 /\ 0 \in Value BY <2>1, <2>3, <2>7 DEF ArgumentFor, Assumptions
    <3>3. s \in State => after[i] \in State
      BY <3>1, <3>2, EndTyped, FillTyped DEF State
    <3> QED BY <3>1, <3>2, <3>3, <2>7 DEF s, Fills, End
  <2> QED BY <2>1, <2>4, <2>5, <2>6, <2>7
<1>5. \A k \in 1 .. Len(Field) : want[k] = ArgumentFor(args, kwargs, k) OBVIOUS
<1> HIDE DEF want
<1> DEFINE end == after[Len(Field)]
<1>6. /\ mem \in Memory => end \in State
      /\ \A c \in Cell : end.mem[c] = mem[c] \/ end.mem[c] \in Value
      /\ end.how = "ok" =>
           \A k \in 1 .. Len(Field) : Field[k] \in Handled =>
             /\ want[k] \in Value
             /\ \A c \in Place[Field[k]] : end.mem[c] \in Value
             /\ Disjoint => Holds(end.mem, Field[k], want[k])
  BY <1>3, <1>4, LoopEnd
<1>7. FromArguments(mem, args, kwargs) = end BY <1>2
<1> HIDE DEF end
<1>8. Filled(mem, end) BY <1>6, FieldFacts DEF Filled
<1> QED BY <1>5, <1>6, <1>7, <1>8

LEMMA FromAttributesEnd ==
  ASSUME Assumptions, NEW mem, NEW attrs
  PROVE  LET end == FromAttributes(mem, attrs)
         IN /\ Filled(mem, end)
            /\ end.how = "ok" =>
                 \A k \in 1 .. Len(Field) : Field[k] \in Handled =>
                   /\ AttributeFor(attrs, k) \in Value
                   /\ Disjoint => Holds(end.mem, Field[k], AttributeFor(attrs, k))
            /\ Len(Field) = 0 => end.how = "ok"
<1>1. Len(Field) \in Nat BY FieldFacts
<1>2. PICK after :
    /\ after = [i \in 0 .. Len(Field) |->
        IF i = 0 THEN End(mem, "ok")
        ELSE LET so_far == after[i - 1]
             IN CASE so_far.how # "ok" -> so_far
                  [] so_far.how = "ok" /\ Field[i] \notin DOMAIN attrs ->
                       End(so_far.mem, "error")
                  [] OTHER -> SetField(so_far.mem, Field[i], attrs[Field[i]])]
    /\ FromAttributes(mem, attrs) = after[Len(Field)]
  BY <1>1, AttributesLoop
<1> DEFINE want == [i \in 1 .. Len(Field) |-> AttributeFor(attrs, i)]
<1>3. after[0] = End(mem, "ok") BY <1>1, <1>2
<1>4. ASSUME NEW i \in 1 .. Len(Field)
      PROVE  Fills(after[i - 1], after[i], i, want[i])
  <2> DEFINE s == after[i - 1]
             f == Field[i]
  <2>1. i \in 0 .. Len(Field) /\ i # 0 BY <1>1
  <2>2. after[i] =
          CASE s.how # "ok" -> s
            [] s.how = "ok" /\ f \notin DOMAIN attrs -> End(s.mem, "error")
            [] OTHER -> SetField(s.mem, f, attrs[f])
    BY <1>2, <2>1
  <2>3. want[i] = AttributeFor(attrs, i) OBVIOUS
  <2> HIDE DEF want, s
  <2>4. CASE s.how # "ok"
    <3>1. after[i] = s BY <2>2, <2>4
    <3> QED BY <3>1, <2>4 DEF Fills, s
  <2>5. CASE s.how = "ok" /\ f \notin DOMAIN attrs
    <3>1. after[i] = End(s.mem, "error") BY <2>2, <2>5
    <3>2. s \in State => after[i] \in State BY <3>1, EndTyped DEF State
    <3> QED BY <3>1, <3>2 DEF Fills, End, s
  <2>6. CASE s.how = "ok" /\ f \in DOMAIN attrs
    <3>1. after[i] = SetField(s.mem, f, attrs[f]) BY <2>2, <2>6
    <3>2. want[i] = attrs[f] BY <2>3, <2>6 DEF AttributeFor
    <3> QED BY <3>1, <3>2, <2>6, SetFieldFills DEF s
  <2> QED BY <2>4, <2>5, <2>6
<1>5. \A k \in 1 .. Len(Field) : want[k] = AttributeFor(attrs, k) OBVIOUS
<1> HIDE DEF want
<1> DEFINE end == after[Len(Field)]
<1>6. /\ mem \in Memory => end \in State
      /\ \A c \in Cell : end.mem[c] = mem[c] \/ end.mem[c] \in Value
      /\ end.how = "ok" =>
           \A k \in 1 .. Len(Field) : Field[k] \in Handled =>
             /\ want[k] \in Value
             /\ \A c \in Place[Field[k]] : end.mem[c] \in Value
             /\ Disjoint => Holds(end.mem, Field[k], want[k])
  BY <1>3, <1>4, LoopEnd
<1>7. FromAttributes(mem, attrs) = end BY <1>2
<1>8. Len(Field) = 0 => end.how = "ok" BY <1>3 DEF End
<1> HIDE DEF end
<1>9. Filled(mem, end) BY <1>6, FieldFacts DEF Filled
<1> QED BY <1>5, <1>6, <1>7, <1>8, <1>9

(* The first field is handled, so that an object whose attributes are no   *)
(* help is not passed over as a positional argument.                       *)
FirstHandled == Len(Field) > 0 => Field[1] \in Handled
Occupied == \A f \in Handled : Place[f] # {}

Single(c) == Len(c.args) = 1 /\ NoKeywords(c)

LEMMA CallFacts ==
  ASSUME WellFormed, NEW c \in Call
  PROVE  /\ Len(c.args) \in Nat /\ DOMAIN c.args = 1 .. Len(c.args)
         /\ c.args = <<>> <=> Len(c.args) = 0
         /\ \A i \in 1 .. Len(c.args) :
              /\ c.args[i].kind \in Kinds
              /\ c.args[i].kind = "struct" => c.args[i].mem \in Memory
<1> DEFINE args == c.args
<1>1. /\ args \in Seq({args[i] : i \in DOMAIN args})
      /\ \A i \in DOMAIN args : /\ args[i].kind \in Kinds
                                /\ args[i].kind = "struct" => args[i].mem \in Memory
  BY DEF WellFormed
<1> HIDE DEF args
<1>2. Len(args) \in Nat /\ DOMAIN args = 1 .. Len(args) BY <1>1
<1>3. args = <<>> <=> Len(args) = 0 BY <1>1, EmptySeq
<1> QED BY <1>1, <1>2, <1>3 DEF args

LEMMA OneValue ==
  ASSUME Occupied, NEW mem, NEW f \in Handled, NEW v, Holds(mem, f, v)
  PROVE  {mem[c] : c \in Place[f]} = {v}
BY DEF Occupied, Holds

(* What the call gives to a field, case by case.                           *)
LEMMA GivenIs ==
  ASSUME Assumptions, WellFormed, NEW c \in Call, call' = c,
         NEW k \in 1 .. Len(Field)
  PROVE  LET x == c.args[1]
             f == Field[k]
             plain == Single(c) => x.kind = "plain"
         IN /\ Single(c) /\ x.kind = "struct" =>
                 Given(f)' = {x.mem[b] : b \in Place[f]}
            /\ Single(c) /\ x.kind = "dict" =>
                 Given(f)' = {ArgumentFor(<<>>, x.items, k)}
            /\ Single(c) /\ x.kind = "object" /\ f \in DOMAIN x.attrs =>
                 Given(f)' = {x.attrs[f]}
            /\ plain /\ k <= Len(c.args) => Given(f)' = {c.args[k].value}
            /\ plain /\ k > Len(c.args) =>
                 Given(f)' = {ArgumentFor(c.args, c.kwargs, k)}
<1> DEFINE x == c.args[1]
           f == Field[k]
           single == Single(c)
           named == CASE single /\ x.kind = "dict" -> x.items
                      [] single /\ x.kind = "object" -> x.attrs
                      [] OTHER -> c.kwargs
<1>1. Len(Field) \in Nat /\ DOMAIN Field = 1 .. Len(Field) /\ k \in DOMAIN Field
  BY FieldFacts
<1>2. (CHOOSE i \in Fields : Field[i] = f) = k
  <2>1. \A i \in Fields : Field[i] = f => i = k BY <1>1 DEF Fields, Assumptions
  <2>2. k \in Fields BY <1>1 DEF Fields
  <2> QED BY <2>1, <2>2
<1>3. Given(f)' =
        CASE single /\ x.kind = "struct" -> {x.mem[b] : b \in Place[f]}
          [] ~(single /\ x.kind # "plain") /\ k <= Len(c.args) -> {c.args[k].value}
          [] f \in DOMAIN named /\ (k > Len(c.args) \/ single) -> {named[f]}
          [] OTHER -> {0}
  <2> HIDE DEF f
  <2> QED BY <1>2 DEF Given, Single
<1>4. Len(c.args) \in Nat BY CallFacts
<1>5. k <= Len(c.args) <=> ~(k > Len(c.args)) BY <1>1, <1>4
<1>6. single => Len(c.args) = 1 /\ DOMAIN c.kwargs = {} BY DEF Single, NoKeywords
<1> HIDE DEF f, x, single
<1>7. CASE single /\ x.kind = "struct"
  <2>1. named = c.kwargs BY <1>7
  <2> QED BY <1>3, <1>6, <1>7, <2>1 DEF f, x, single
<1>8. CASE single /\ x.kind = "dict"
  <2>1. named = x.items BY <1>8
  <2>2. Given(f)' = IF f \in DOMAIN x.items THEN {x.items[f]} ELSE {0}
    BY <1>3, <1>8, <2>1
  <2>3. Len(<<>>) = 0 /\ ~(k <= 0) OBVIOUS
  <2>4. ArgumentFor(<<>>, x.items, k) = IF f \in DOMAIN x.items THEN x.items[f] ELSE 0
    BY <2>3 DEF ArgumentFor, f
  <2> QED BY <1>8, <2>2, <2>4 DEF f, x, single
<1>9. CASE single /\ x.kind = "object"
  <2>1. named = x.attrs BY <1>9
  <2>2. f \in DOMAIN x.attrs => Given(f)' = {x.attrs[f]} BY <1>3, <1>9, <2>1
  <2> QED BY <1>9, <2>2 DEF f, x, single
<1>10. CASE ~single \/ x.kind = "plain"
  <2>1. named = c.kwargs BY <1>10
  <2>2. k <= Len(c.args) => Given(f)' = {c.args[k].value}
    BY <1>3, <1>5, <1>6, <1>10, <2>1
  <2>3. k > Len(c.args) =>
          Given(f)' = IF f \in DOMAIN c.kwargs THEN {c.kwargs[f]} ELSE {0}
    BY <1>3, <1>5, <1>6, <1>10, <2>1
  <2>4. k > Len(c.args) =>
          ArgumentFor(c.args, c.kwargs, k)
            = IF f \in DOMAIN c.kwargs THEN c.kwargs[f] ELSE 0
    BY <1>5 DEF ArgumentFor, f
  <2> QED BY <1>10, <2>2, <2>3, <2>4 DEF f, x, single
<1>11. single => x.kind \in Kinds BY <1>4, <1>6, CallFacts DEF x
<1> QED BY <1>7, <1>8, <1>9, <1>10, <1>11 DEF Kinds

(* The cases of compositeproxy_init.                                       *)
LEMMA InitFromCases ==
  ASSUME WellFormed, NEW mem, NEW c \in Call
  PROVE  LET x   == c.args[1]
             by  == FromAttributes(mem, Attributes(x))
             end == InitFrom(mem, c)
         IN \/ /\ c.args = <<>> /\ NoKeywords(c)
               /\ end = End([b \in Cell |-> 0], "ok")
            \/ Single(c) /\ x.kind = "struct" /\ end = End(x.mem, "ok")
            \/ /\ Single(c) /\ x.kind = "dict"
               /\ \/ end = End(mem, "error")
                  \/ end = FromArguments(mem, <<>>, x.items)
            \/ /\ Single(c) /\ x.kind \in {"plain", "object"}
               /\ \/ by.how # "error" /\ end = by
                  \/ end = End(by.mem, "error")
                  \/ end = FromArguments(by.mem, c.args, <<>>)
            \/ ~Single(c) /\ end = FromArguments(mem, c.args, c.kwargs)
<1> DEFINE x      == c.args[1]
           single == Len(c.args) = 1 /\ NoKeywords(c)
           by     == FromAttributes(mem, Attributes(x))
           empty  == c.args = <<>> /\ NoKeywords(c)
<1>1. InitFrom(mem, c) =
        CASE empty -> End([b \in Cell |-> 0], "ok")
          [] single /\ x.kind = "struct" -> End(x.mem, "ok")
          [] single /\ x.kind = "dict" ->
               IF c.converting /\ DOMAIN x.items = {} THEN End(mem, "error")
               ELSE FromArguments(mem, <<>>, x.items)
          [] single /\ x.kind # "struct" /\ x.kind # "dict" ->
               IF by.how # "error" THEN by
               ELSE IF c.converting THEN End(by.mem, "error")
               ELSE FromArguments(by.mem, c.args, <<>>)
          [] OTHER -> FromArguments(mem, c.args, c.kwargs)
  BY DEF InitFrom
<1>2. Len(c.args) \in Nat /\ (c.args = <<>> <=> Len(c.args) = 0)
      /\ (single => x.kind \in Kinds)
  BY CallFacts
<1>3. ~(empty /\ single) BY <1>2
<1>4. single <=> Single(c) BY DEF Single
<1> HIDE DEF x, single, by, empty
<1>5. CASE empty
  <2>1. InitFrom(mem, c) = End([b \in Cell |-> 0], "ok") BY <1>1, <1>3, <1>5
  <2> QED BY <2>1, <1>5 DEF empty
<1>6. CASE single /\ x.kind = "struct"
  <2>1. InitFrom(mem, c) = End(x.mem, "ok") BY <1>1, <1>3, <1>6
  <2> QED BY <2>1, <1>4, <1>6 DEF x
<1>7. CASE single /\ x.kind = "dict"
  <2>1. \/ InitFrom(mem, c) = End(mem, "error")
        \/ InitFrom(mem, c) = FromArguments(mem, <<>>, x.items)
    BY <1>1, <1>3, <1>7
  <2> QED BY <2>1, <1>4, <1>7 DEF x
<1>8. CASE single /\ x.kind \in {"plain", "object"}
  <2>1. \/ by.how # "error" /\ InitFrom(mem, c) = by
        \/ InitFrom(mem, c) = End(by.mem, "error")
        \/ InitFrom(mem, c) = FromArguments(by.mem, c.args, <<>>)
    BY <1>1, <1>3, <1>8
  <2> QED BY <2>1, <1>4, <1>8 DEF x, by
<1>9. CASE ~single /\ ~empty
  <2>1. InitFrom(mem, c) = FromArguments(mem, c.args, c.kwargs) BY <1>1, <1>9
  <2> QED BY <2>1, <1>4, <1>9
<1> QED BY <1>2, <1>5, <1>6, <1>7, <1>8, <1>9 DEF Kinds

LEMMA PlainValue ==
  ASSUME Assumptions, NEW x, ValueOf(x) \in Value
  PROVE  x.kind = "plain" /\ ValueOf(x) = x.value
BY DEF ValueOf, Assumptions

(* In a struct, every handled field holds what the call gives it.          *)
LEMMA InitFromGiven ==
  ASSUME Assumptions, WellFormed, Disjoint, FirstHandled, Occupied,
         NEW mem, NEW c \in Call, call' = c, InitFrom(mem, c).how = "ok",
         NEW f \in Handled
  PROVE  {InitFrom(mem, c).mem[b] : b \in Place[f]} = Given(f)'
<1> DEFINE x   == c.args[1]
           end == InitFrom(mem, c)
           by  == FromAttributes(mem, Attributes(x))
<1>1. Len(Field) \in Nat /\ Len(c.args) \in Nat
  BY FieldFacts, CallFacts
<1>2. PICK k \in 1 .. Len(Field) : f = Field[k] BY FieldFacts
<1>3. 1 \in 1 .. Len(Field) /\ Field[1] \in Handled BY <1>1 DEF FirstHandled
<1>4. Bad \notin Value BY DEF Assumptions
<1>5. k <= Len(c.args) \/ k > Len(c.args) BY <1>1
<1> SUFFICES {end.mem[b] : b \in Place[f]} = Given(f)' OBVIOUS
<1> HIDE DEF end
<1>6. CASE /\ c.args = <<>> /\ NoKeywords(c)
           /\ end = End([b \in Cell |-> 0], "ok")
  <2>1. Len(c.args) = 0 /\ ~Single(c) /\ DOMAIN c.kwargs = {}
    BY <1>6, CallFacts DEF Single, NoKeywords
  <2>2. ~(k <= Len(c.args)) /\ k > Len(c.args) BY <2>1
  <2>3. Given(f)' = {ArgumentFor(c.args, c.kwargs, k)} BY <1>2, <2>1, <2>2, GivenIs
  <2>4. ArgumentFor(c.args, c.kwargs, k) = 0 BY <2>1, <2>2 DEF ArgumentFor
  <2>5. Holds(end.mem, f, 0) BY <1>6, FieldFacts DEF Holds, End
  <2>6. {end.mem[b] : b \in Place[f]} = {0} BY <2>5, OneValue
  <2> QED BY <2>3, <2>4, <2>6
<1>7. CASE Single(c) /\ x.kind = "struct" /\ end = End(x.mem, "ok")
  <2>1. Given(f)' = {x.mem[b] : b \in Place[f]} BY <1>2, <1>7, GivenIs
  <2>2. end.mem = x.mem BY <1>7 DEF End
  <2> QED BY <2>1, <2>2
<1>8. CASE /\ Single(c) /\ x.kind = "dict"
           /\ end = End(mem, "error") \/ end = FromArguments(mem, <<>>, x.items)
  <2>1. end = FromArguments(mem, <<>>, x.items) /\ end.how = "ok"
    BY <1>8 DEF End, end
  <2>2. Holds(end.mem, f, ArgumentFor(<<>>, x.items, k))
    BY <2>1, <1>2, FromArgumentsEnd, Len(<<>>) = 0
  <2>3. Given(f)' = {ArgumentFor(<<>>, x.items, k)} BY <1>2, <1>8, GivenIs
  <2>4. {end.mem[b] : b \in Place[f]} = {ArgumentFor(<<>>, x.items, k)}
    BY <2>2, OneValue
  <2> QED BY <2>3, <2>4
<1>9. CASE Single(c) /\ x.kind \in {"plain", "object"} /\ end = by
  <2>1. AttributeFor(Attributes(x), k) \in Value
        /\ Holds(end.mem, f, AttributeFor(Attributes(x), k))
    BY <1>2, <1>9, FromAttributesEnd DEF end
  <2>2. f \in DOMAIN Attributes(x) /\ AttributeFor(Attributes(x), k) = Attributes(x)[f]
    BY <2>1, <1>2, <1>4 DEF AttributeFor
  <2>3. x.kind = "object" /\ Attributes(x) = x.attrs
    BY <2>2, <1>9 DEF Attributes
  <2>4. Given(f)' = {x.attrs[f]} BY <1>2, <1>9, <2>2, <2>3, GivenIs
  <2>5. {end.mem[b] : b \in Place[f]} = {AttributeFor(Attributes(x), k)}
    BY <2>1, OneValue
  <2> QED BY <2>2, <2>3, <2>4, <2>5
<1>10. CASE /\ Single(c) /\ x.kind \in {"plain", "object"}
            /\ end = FromArguments(by.mem, c.args, <<>>)
  <2>1. ArgumentFor(c.args, <<>>, k) \in Value /\ ArgumentFor(c.args, <<>>, 1) \in Value
        /\ Holds(end.mem, f, ArgumentFor(c.args, <<>>, k))
    BY <1>1, <1>2, <1>3, <1>10, FromArgumentsEnd DEF end
  <2>2. Len(c.args) = 1 /\ DOMAIN c.kwargs = {} BY <1>10 DEF Single, NoKeywords
  <2>3. ArgumentFor(c.args, <<>>, 1) = ValueOf(x) BY <2>2 DEF ArgumentFor
  <2>4. x.kind = "plain" BY <2>1, <2>3, PlainValue
  <2>5. ArgumentFor(c.args, <<>>, k) = ArgumentFor(c.args, c.kwargs, k)
    BY <2>2 DEF ArgumentFor
  <2>6. CASE k <= Len(c.args)
    <3>1. k = 1 BY <2>2, <2>6
    <3>2. Given(f)' = {x.value} BY <1>2, <2>4, <2>6, <3>1, GivenIs
    <3>3. ArgumentFor(c.args, <<>>, k) = x.value BY <2>1, <2>3, <3>1, PlainValue
    <3> QED BY <2>1, <3>2, <3>3, OneValue
  <2>7. CASE k > Len(c.args)
    <3>1. Given(f)' = {ArgumentFor(c.args, c.kwargs, k)} BY <1>2, <2>4, <2>7, GivenIs
    <3> QED BY <2>1, <2>5, <3>1, OneValue
  <2> QED BY <1>5, <2>6, <2>7
<1>11. CASE ~Single(c) /\ end = FromArguments(mem, c.args, c.kwargs)
  <2>1. ArgumentFor(c.args, c.kwargs, k) \in Value
        /\ Holds(end.mem, f, ArgumentFor(c.args, c.kwargs, k))
    BY <1>1, <1>2, <1>11, FromArgumentsEnd DEF end
  <2>2. CASE k <= Len(c.args)
    <3>1. ArgumentFor(c.args, c.kwargs, k) = ValueOf(c.args[k])
      BY <2>2 DEF ArgumentFor
    <3>2. Given(f)' = {c.args[k].value} BY <1>2, <1>11, <2>2, GivenIs
    <3>3. ValueOf(c.args[k]) = c.args[k].value BY <2>1, <3>1, PlainValue
    <3> QED BY <2>1, <3>1, <3>2, <3>3, OneValue
  <2>3. CASE k > Len(c.args)
    <3>1. Given(f)' = {ArgumentFor(c.args, c.kwargs, k)} BY <1>2, <1>11, <2>3, GivenIs
    <3> QED BY <2>1, <3>1, OneValue
  <2> QED BY <1>5, <2>2, <2>3
<1>12. end.how = "ok" /\ End(by.mem, "error").how = "error" BY DEF End, end
<1> HIDE DEF by
<1> QED BY <1>6, <1>7, <1>8, <1>9, <1>10, <1>11, <1>12, InitFromCases DEF end, by

(* What an initialisation leaves, whether it succeeds or fails.            *)
LEMMA InitFromLeaves ==
  ASSUME Assumptions, WellFormed, NEW mem, NEW c \in Call
  PROVE  LET end == InitFrom(mem, c)
         IN /\ mem \in Memory => end \in State
            /\ CopiesWritten => \A f \in Handled : \A b \in Place[f] :
                 /\ mem[b] # JUNK => end.mem[b] # JUNK
                 /\ end.how = "ok" => end.mem[b] # JUNK
<1> DEFINE x   == c.args[1]
           end == InitFrom(mem, c)
           by  == FromAttributes(mem, Attributes(x))
           Left(m, e) ==
             /\ m \in Memory => e \in State
             /\ CopiesWritten => \A f \in Handled : \A b \in Place[f] :
                  /\ m[b] # JUNK => e.mem[b] # JUNK
                  /\ e.how = "ok" => e.mem[b] # JUNK
<1>1. JUNK \notin Value /\ 0 \in Value BY DEF Assumptions
<1>2. Len(c.args) \in Nat BY CallFacts
<1>3. \A f \in Handled : Place[f] \subseteq Cell BY FieldFacts
<1>4. ASSUME NEW m, NEW e, Filled(m, e) PROVE Left(m, e)
  BY <1>1, <1>3, <1>4 DEF Filled
<1>5. ASSUME NEW m, NEW e, NEW g, Left(m, e), e.how # "ok", Filled(e.mem, g)
      PROVE  Left(m, g)
  <2>1. m \in Memory => e.mem \in Memory BY <1>5 DEF State
  <2> QED BY <2>1, <1>1, <1>3, <1>5 DEF Filled
<1>6. ASSUME NEW m, NEW e, e.how # "ok", m \in Memory => e.mem \in Memory,
             \A b \in Cell : e.mem[b] = m[b] \/ e.mem[b] \in Value
      PROVE  Left(m, End(e.mem, "error"))
  <2>1. m \in Memory => End(e.mem, "error") \in State BY <1>6, EndTyped
  <2>2. End(e.mem, "error").mem = e.mem /\ End(e.mem, "error").how = "error"
    BY DEF End
  <2> QED BY <2>1, <2>2, <1>1, <1>3, <1>6
<1>7. Filled(mem, by) BY FromAttributesEnd
<1> SUFFICES Left(mem, end) OBVIOUS
<1> HIDE DEF by, end, Left
<1>8. CASE end = End([b \in Cell |-> 0], "ok")
  <2>1. end \in State BY <1>1, <1>8, EndTyped DEF Memory
  <2>2. \A b \in Cell : end.mem[b] = 0 BY <1>8 DEF End
  <2> QED BY <2>1, <2>2, <1>1, <1>3 DEF Left
<1>9. CASE Single(c) /\ x.kind = "struct" /\ end = End(x.mem, "ok")
  <2>1. 1 \in 1 .. Len(c.args) BY <1>2, <1>9 DEF Single
  <2>2. x.mem \in Memory BY <2>1, <1>9, CallFacts
  <2>3. CopiesWritten => \A f \in Handled : \A b \in Place[f] : x.mem[b] # JUNK
    BY <2>1, <1>9, CallFacts DEF CopiesWritten
  <2>4. end \in State /\ end.mem = x.mem BY <2>2, <1>9, EndTyped DEF End
  <2> QED BY <2>3, <2>4 DEF Left
<1>10. CASE end = End(mem, "error")
  <2>1. mem \in Memory => end \in State BY <1>10, EndTyped
  <2>2. end.mem = mem /\ end.how = "error" BY <1>10 DEF End
  <2> QED BY <2>1, <2>2 DEF Left
<1>11. CASE end = FromArguments(mem, <<>>, x.items)
  <2>1. Filled(mem, end) BY <1>11, FromArgumentsEnd, Len(<<>>) = 0
  <2> QED BY <2>1, <1>4
<1>12. CASE end = by BY <1>4, <1>7, <1>12
<1>13. CASE end = End(by.mem, "error")
  <2>1. mem \in Memory => by.mem \in Memory BY <1>7 DEF Filled, State
  <2>2. mem \in Memory => end \in State BY <2>1, <1>13, EndTyped
  <2>3. end.mem = by.mem /\ end.how = "error" BY <1>13 DEF End
  <2>4. \A b \in Cell : by.mem[b] = mem[b] \/ by.mem[b] \in Value
    BY <1>7 DEF Filled
  <2> QED BY <2>2, <2>3, <2>4, <1>1, <1>3 DEF Left
<1>14. CASE end = FromArguments(by.mem, c.args, <<>>)
  <2>1. Filled(by.mem, end) BY <1>2, <1>14, FromArgumentsEnd
  <2>2. mem \in Memory => by.mem \in Memory BY <1>7 DEF Filled, State
  <2>3. \A b \in Cell : by.mem[b] = mem[b] \/ by.mem[b] \in Value
    BY <1>7 DEF Filled
  <2> QED BY <2>1, <2>2, <2>3, <1>1, <1>3 DEF Left, Filled
<1>15. CASE end = FromArguments(mem, c.args, c.kwargs)
  <2>1. Filled(mem, end) BY <1>2, <1>15, FromArgumentsEnd
  <2> QED BY <2>1, <1>4
<1> QED BY <1>8, <1>9, <1>10, <1>11, <1>12, <1>13, <1>14, <1>15, InitFromCases
        DEF by, end

-----------------------------------------------------------------------------
(* The results.                                                            *)

(* The memory of composites is well-formed, and calls end in one of the    *)
(* three ways.                                                             *)
THEOREM TypeCorrect ==
  ASSUME Assumptions, WellFormed PROVE Spec => []TypeOK
<1>1. Init => TypeOK BY DEF Init, TypeOK
<1>2. TypeOK /\ [Next]_vars => TypeOK'
  <2> SUFFICES ASSUME TypeOK, [Next]_vars PROVE TypeOK' OBVIOUS
  <2>1. ASSUME NEW c \in Call, Construct(c) PROVE TypeOK'
    <3> DEFINE end == InitFrom(Malloced, c)
    <3>1. Malloced \in Memory BY DEF Malloced, Memory
    <3>2. end \in State BY <3>1, InitFromLeaves
    <3>3. object' = (IF end.how = "ok" THEN end.mem ELSE NULL) /\ outcome' = end.how
      BY <2>1 DEF Construct
    <3> HIDE DEF end
    <3> QED BY <3>2, <3>3 DEF TypeOK, State, Memory
  <2>2. ASSUME NEW c \in Call, Reinit(c) PROVE TypeOK'
    <3> DEFINE end == InitFrom(object, c)
    <3>1. object \in Memory BY <2>2 DEF Reinit, TypeOK, Memory
    <3>2. end \in State BY <3>1, InitFromLeaves
    <3>3. object' = end.mem /\ outcome' = end.how BY <2>2 DEF Reinit
    <3> HIDE DEF end
    <3> QED BY <3>2, <3>3 DEF TypeOK, State, Memory
  <2>3. CASE ReinitFromItself BY <2>3 DEF ReinitFromItself, TypeOK
  <2>4. CASE Release BY <2>4 DEF Release, TypeOK
  <2>5. CASE UNCHANGED vars BY <2>5 DEF vars, TypeOK
  <2> QED BY <2>1, <2>2, <2>3, <2>4, <2>5 DEF Next
<1> QED BY <1>1, <1>2, PTL DEF Spec

(* After a successful call every handled field of a struct holds what the  *)
(* call gives it, whatever the attributes of an object wrote before one    *)
(* was missing (composite_proxy.c:102).                                    *)
THEOREM FieldsAlwaysAsGiven ==
  ASSUME Assumptions, WellFormed, Disjoint, FirstHandled, Occupied
  PROVE  Spec => []FieldsAsGiven
<1>1. Init => FieldsAsGiven BY DEF Init, FieldsAsGiven, Done
<1>2. FieldsAsGiven /\ [Next]_vars => FieldsAsGiven'
  <2> SUFFICES ASSUME FieldsAsGiven, [Next]_vars, Done'
               PROVE  \A f \in Handled : {object'[c] : c \in Place[f]} = Given(f)'
    BY DEF FieldsAsGiven
  <2> DEFINE Goal ==
        \A f \in Handled : {object'[c] : c \in Place[f]} = Given(f)'
  <2>1. ASSUME NEW c \in Call, Construct(c) PROVE Goal
    <3>1. call' = c /\ InitFrom(Malloced, c).how = "ok"
          /\ object' = InitFrom(Malloced, c).mem
      BY <2>1 DEF Construct, Done
    <3> QED BY <3>1, InitFromGiven
  <2>2. ASSUME NEW c \in Call, Reinit(c) PROVE Goal
    <3>1. call' = c /\ InitFrom(object, c).how = "ok"
          /\ object' = InitFrom(object, c).mem
      BY <2>2 DEF Reinit, Done
    <3> QED BY <3>1, InitFromGiven
  <2>3. ~ReinitFromItself BY DEF ReinitFromItself, Done
  <2>4. ~Release BY DEF Release, Done
  <2>5. CASE UNCHANGED vars
    <3>1. Done /\ object' = object /\ call' = call BY <2>5 DEF vars, Done
    <3>2. \A f \in Handled : Given(f)' = Given(f)
      BY <3>1 DEF Given, Fields
    <3> QED BY <3>1, <3>2 DEF FieldsAsGiven
  <2> QED BY <2>1, <2>2, <2>3, <2>4, <2>5 DEF Next
<1> QED BY <1>1, <1>2, PTL DEF Spec

(* No handled field of an object that Python code holds is memory nobody   *)
(* has written, in structs and unions, after any calls that fail half-way  *)
(* (composite_proxy.c:118).                                                *)
THEOREM FieldsNeverJunk ==
  ASSUME Assumptions, WellFormed, CopiesWritten PROVE Spec => []NoJunk
<1>1. Init => NoJunk BY DEF Init, NoJunk
<1>2. NoJunk /\ [Next]_vars => NoJunk'
  <2> SUFFICES ASSUME NoJunk, [Next]_vars, object' # NULL,
                      NEW f \in Handled, NEW b \in Place[f]
               PROVE  object'[b] # JUNK
    BY DEF NoJunk
  <2>1. ASSUME NEW c \in Call, Construct(c) PROVE object'[b] # JUNK
    <3>1. InitFrom(Malloced, c).how = "ok" /\ object' = InitFrom(Malloced, c).mem
      BY <2>1 DEF Construct
    <3> QED BY <3>1, InitFromLeaves
  <2>2. ASSUME NEW c \in Call, Reinit(c) PROVE object'[b] # JUNK
    <3>1. object' = InitFrom(object, c).mem /\ object[b] # JUNK
      BY <2>2 DEF Reinit, NoJunk
    <3> QED BY <3>1, InitFromLeaves
  <2>3. CASE ReinitFromItself BY <2>3 DEF ReinitFromItself, NoJunk
  <2>4. ~Release BY DEF Release
  <2>5. CASE UNCHANGED vars BY <2>5 DEF vars, NoJunk
  <2> QED BY <2>1, <2>2, <2>3, <2>4, <2>5 DEF Next
<1> QED BY <1>1, <1>2, PTL DEF Spec
=============================================================================
