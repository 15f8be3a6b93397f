------------------------------ MODULE MCManager ------------------------------
(***************************************************************************)
(* Instances of Manager for TLC.                                           *)
(***************************************************************************)
EXTENDS Manager, TLC

CONSTANTS x, y, p1, p2, p3

Symmetry == Permutations({p1, p2, p3}) \cup Permutations({x, y})

=============================================================================
