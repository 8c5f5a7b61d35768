--------------------------- MODULE MCTokenRefresh ---------------------------
(***************************************************************************)
(* Two calls in one process and one in another, with one failure or        *)
(* restart, and two salts, which processes may share or not.               *)
(***************************************************************************)
EXTENDS TokenRefresh, TLC

CONSTANTS c1, c2, c3, p1, p2, s1, s2

Homes == (c1 :> p1) @@ (c2 :> p1) @@ (c3 :> p2)
\* Salts are only compared.
SaltSymmetry == Permutations({s1, s2})
=============================================================================
