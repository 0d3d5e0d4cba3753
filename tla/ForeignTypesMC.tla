--------------------------- MODULE ForeignTypesMC ---------------------------
(* All programs with two composite types of up to two members, of which    *)
(* the larger one may be a union.                                          *)
EXTENDS ForeignTypes, TLC

CONSTANTS a, b, pa, pb, barr, int, enum, penum

MCType == {a, b, pa, pb, barr, int, enum, penum}

MCKind ==
  [t \in MCType |-> CASE t \in {a, b} -> "composite"
                      [] t \in {pa, pb, penum} -> "address"
                      [] t = barr -> "array"
                      [] t = int -> "plain"
                      [] t = enum -> "unsupported"]

UpToTwo(S) == {<<>>} \cup {<<x>> : x \in S} \cup {<<x, y>> : x, y \in S}

\* pa = a*, pb = b*, penum = enum*, barr = b[]; a may contain b, not conversely
MCLibraries ==
  {(a :> ma @@ b :> mb @@ pa :> <<a>> @@ pb :> <<b>> @@ penum :> <<enum>>
      @@ barr :> <<pb>> @@ int :> <<>> @@ enum :> <<>>) :
     ma \in UpToTwo({b, pa, pb, barr, int, enum, penum}),
     mb \in UpToTwo({pa, pb, int, penum})}
=============================================================================
