------------------------------ MODULE MCServer ------------------------------
(***************************************************************************)
(* Instances of TCPServer for TLC.                                         *)
(***************************************************************************)
EXTENDS TCPServer, TLC

CONSTANTS a, b, o1, o2

\* Two endpoints, each a BFCP user of its own.
TwoUsers == (a :> 1 @@ b :> 2)

\* The second endpoint puts user ID 0 into its messages.
NamelessUser == (a :> 1 @@ b :> 0)

CellSymmetry == Permutations({o1, o2})

=============================================================================
