--------------------------- MODULE CompositeInit ---------------------------
(***************************************************************************)
(* The initialisation of foreign structs and unions from Python arguments: *)
(* compositeproxy_init, called by the constructor with the arguments of a  *)
(* Python call, by __init__, and by the conversion of an arbitrary object  *)
(* to a struct (src/composite_proxy.c).                                    *)
(*                                                                         *)
(* A call is a record: args, the positional arguments, kwargs, a function  *)
(* from keywords to values, and converting, TRUE when a single object that *)
(* is no tuple is converted.  An argument is a record with its kind:       *)
(* "plain" with the value fields take it for, "dict" with its items,       *)
(* "object" with its attributes or "struct", a proxy of the same type,     *)
(* with its memory.  Items and attributes are plain, given as values.      *)
(***************************************************************************)
EXTENDS Integers, Sequences

CONSTANTS
  Field,       \* the fields' names, in order
  Place,       \* the cells each field occupies; the fields of a union overlap
  Cell,        \* the cells of the whole composite
  Handled,     \* the fields whose foreign type is handled
  Value, Bad,  \* values fields can hold; one that converts to no field
  Call,        \* the calls programs make
  NULL, JUNK   \* no object; memory as malloc returns it

Names == {Field[i] : i \in DOMAIN Field}
Assumptions ==
  /\ Field \in Seq(Names)
  /\ \A i, j \in DOMAIN Field : Field[i] = Field[j] => i = j
  /\ \A i \in DOMAIN Field : Place[Field[i]] \subseteq Cell
  /\ Handled \subseteq Names
  /\ 0 \in Value /\ Bad \notin Value /\ JUNK \notin Value

VARIABLES
  object,      \* the cells of the composite, NULL when there is none
  call,        \* the last call, NULL before the first
  outcome      \* how it ended: "ok", "error" or "crash"
vars == <<object, call, outcome>>

Fields == DOMAIN Field
Malloced == [c \in Cell |-> JUNK]
End(mem, how) == [mem |-> mem, how |-> how]

Init == object = NULL /\ call = NULL /\ outcome = "ok"

-----------------------------------------------------------------------------
Fill(mem, f, x) == [c \in Cell |-> IF c \in Place[f] THEN x ELSE mem[c]]

(* A bug: the failure of ft_storeinto is not noticed.                      *)
SetFieldUnchecked(mem, f, x) ==
  IF f \notin Handled THEN End(mem, "crash") ELSE End(Fill(mem, f, x), "ok")

(***************************************************************************)
(* compositeproxy_setfield: the field's foreign type stores the value, and *)
(* there is none to ask for a field that is not handled.                   *)
(***************************************************************************)
SetField(mem, f, x) ==
  CASE f \notin Handled -> End(mem, "crash")
    [] f \in Handled /\ x \notin Value -> End(mem, "error")
    [] OTHER -> End(Fill(mem, f, x), "ok")

(* A bug: attributes that are missing are passed over.                     *)
FromSomeAttributes(mem, attrs) ==
  LET after[i \in 0 .. Len(Field)] ==
        IF i = 0 THEN End(mem, "ok")
        ELSE IF after[i - 1].how # "ok" \/ Field[i] \notin DOMAIN attrs
             THEN after[i - 1]
             ELSE SetField(after[i - 1].mem, Field[i], attrs[Field[i]])
  IN after[Len(Field)]

(***************************************************************************)
(* The loop over all fields that takes attributes of an object, up to the  *)
(* first that is missing or does not convert.                              *)
(***************************************************************************)
FromAttributes(mem, attrs) ==
  LET after[i \in 0 .. Len(Field)] ==
        IF i = 0 THEN End(mem, "ok")
        ELSE LET so_far == after[i - 1]
             IN CASE so_far.how # "ok" -> so_far
                  [] so_far.how = "ok" /\ Field[i] \notin DOMAIN attrs ->
                       End(so_far.mem, "error")
                  [] OTHER -> SetField(so_far.mem, Field[i], attrs[Field[i]])
  IN after[Len(Field)]

ValueOf(x) == IF x.kind = "plain" THEN x.value ELSE Bad

(***************************************************************************)
(* The loop that initialises the handled fields in order: positional       *)
(* arguments first, then keywords, and zero for the others.  The checks    *)
(* behind it compare the number of initialised fields with a sum it cannot *)
(* exceed, so no call fails there.                                         *)
(***************************************************************************)
FromArguments(mem, args, kwargs) ==
  LET after[i \in 0 .. Len(Field)] ==
        IF i = 0 THEN End(mem, "ok")
        ELSE LET so_far == after[i - 1]
                 f == Field[i]
             IN CASE so_far.how # "ok" \/ f \notin Handled -> so_far
                  [] so_far.how = "ok" /\ i <= Len(args) /\ f \in Handled ->
                       SetField(so_far.mem, f, ValueOf(args[i]))
                  [] so_far.how = "ok" /\ i > Len(args) /\ f \in Handled
                       /\ f \in DOMAIN kwargs ->
                       SetField(so_far.mem, f, kwargs[f])
                  [] OTHER -> End(Fill(so_far.mem, f, 0), "ok")
  IN after[Len(Field)]

NoKeywords(c) == DOMAIN c.kwargs = {}
Attributes(x) == IF x.kind = "object" THEN x.attrs ELSE <<>>

(***************************************************************************)
(* compositeproxy_init on the memory of an object.                         *)
(***************************************************************************)
InitFrom(mem, c) ==
  LET single == Len(c.args) = 1 /\ NoKeywords(c)
      x == c.args[1]
      by_attributes == FromAttributes(mem, Attributes(x))
  IN CASE c.args = <<>> /\ NoKeywords(c) -> End([b \in Cell |-> 0], "ok")
       [] single /\ x.kind = "struct" -> End(x.mem, "ok")
       [] single /\ x.kind = "dict" ->
            IF c.converting /\ DOMAIN x.items = {} THEN End(mem, "error")
            ELSE FromArguments(mem, <<>>, x.items)
       [] single /\ x.kind # "struct" /\ x.kind # "dict" ->
            IF by_attributes.how # "error" THEN by_attributes
            ELSE IF c.converting THEN End(by_attributes.mem, "error")
            ELSE FromArguments(by_attributes.mem, c.args, <<>>)
       [] OTHER -> FromArguments(mem, c.args, c.kwargs)

(***************************************************************************)
(* compositeproxy_ctor: fresh memory, freed again when the initialisation  *)
(* fails.                                                                  *)
(***************************************************************************)
Construct(c) ==
  LET end == InitFrom(Malloced, c)
  IN /\ object = NULL
     /\ object' = IF end.how = "ok" THEN end.mem ELSE NULL
     /\ call' = c /\ outcome' = end.how

(* __init__ on an existing object, which keeps what a failing call stored. *)
Reinit(c) ==
  LET end == InitFrom(object, c)
  IN /\ object # NULL /\ ~c.converting
     /\ object' = end.mem
     /\ call' = c /\ outcome' = end.how

(* "Trying to copy inside yourself": __init__ with the object itself.      *)
ReinitFromItself ==
  /\ object # NULL
  /\ call' = [args |-> <<[kind |-> "struct", mem |-> object]>>,
              kwargs |-> <<>>, converting |-> FALSE]
  /\ outcome' = "error"
  /\ UNCHANGED object

Release ==
  object # NULL /\ object' = NULL /\ call' = NULL /\ outcome' = "ok"

Next ==
  /\ outcome # "crash"
  /\ \/ \E c \in Call : Construct(c) \/ Reinit(c)
     \/ ReinitFromItself
     \/ Release

Spec == Init /\ [][Next]_vars

-----------------------------------------------------------------------------
(* Memory holds values or what malloc left there, and a call has ended.    *)
TypeOK ==
  /\ object = NULL \/ object \in [Cell -> Value \cup {JUNK}]
  /\ call = NULL \/ outcome \in {"ok", "error", "crash"}

Done == call # NULL /\ outcome = "ok"

(* The value the last call gives to a field, by whatever route: position,  *)
(* keyword, dictionary, attribute or copied struct; 0 when it gives none.  *)
Given(f) ==
  LET i == CHOOSE k \in Fields : Field[k] = f
      single == Len(call.args) = 1 /\ NoKeywords(call)
      x == call.args[1]
      named == CASE single /\ x.kind = "dict" -> x.items
                 [] single /\ x.kind = "object" -> x.attrs
                 [] OTHER -> call.kwargs
  IN CASE single /\ x.kind = "struct" -> {x.mem[c] : c \in Place[f]}
       [] ~(single /\ x.kind # "plain") /\ i <= Len(call.args) ->
            {call.args[i].value}
       [] f \in DOMAIN named /\ (i > Len(call.args) \/ single) -> {named[f]}
       [] OTHER -> {0}

(* After a successful initialisation every handled field holds exactly     *)
(* what the call gives it and 0 when the call gives nothing, although the  *)
(* attempt to read attributes may have written some fields before it gave  *)
(* up.                                                                     *)
FieldsAsGiven ==
  Done => \A f \in Handled : {object[c] : c \in Place[f]} = Given(f)

(* No object Python code holds has memory in a handled field that nobody   *)
(* has written, also after __init__ calls that fail half-way.              *)
NoJunk ==
  object # NULL => \A f \in Handled : \A c \in Place[f] : object[c] # JUNK
=============================================================================
