--------------------------- MODULE BaseCreationMC ---------------------------
(***************************************************************************)
(* Two chunks of one type for TLC, which exists already or does not, and   *)
(* decodings inside decodings inside decodings.                            *)
(***************************************************************************)
EXTENDS BaseCreation, TLC

OneType == [c \in Chunk |-> CHOOSE t \in Type : TRUE]
Symmetry == Permutations(Chunk) \cup Permutations(Proxy)

=============================================================================
