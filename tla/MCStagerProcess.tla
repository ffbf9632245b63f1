--------------------------- MODULE MCStagerProcess ---------------------------
(***************************************************************************)
(* StagerProcess with a few connections and signals.                       *)
(***************************************************************************)
EXTENDS StagerProcess, TLC

Symmetry == Permutations(Conns)

=============================================================================
