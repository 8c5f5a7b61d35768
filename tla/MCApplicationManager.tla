------------------------ MODULE MCApplicationManager ------------------------
(***************************************************************************)
(* Instances of ApplicationManager for TLC.                                *)
(***************************************************************************)
EXTENDS ApplicationManager, TLC

\* Callers are alike.
Symmetric == Permutations(Callers)
=============================================================================
