--------------------------- MODULE ProxyLifetimeMC ---------------------------
(* Small instances of ProxyLifetime for TLC. *)
EXTENDS ProxyLifetime, TLC

CONSTANTS c1, c2, s1, s2

\* two chunks with one pointer field each: lists, self references, cycles of two
OneFieldEach == s1 :> c1 @@ s2 :> c2

\* one chunk that can point to itself: the smallest cycle
SelfField == s1 :> c1

\* a chunk with two pointer fields, and a chunk without any
TwoFields == s1 :> c1 @@ s2 :> c1

\* proxies are alike, and so are the two chunks, each with its field
SwapChunks == c1 :> c2 @@ c2 :> c1 @@ s1 :> s2 @@ s2 :> s1
Symmetry ==
  Permutations(Proxy) \cup {p @@ SwapChunks : p \in Permutations(Proxy)}
=============================================================================
