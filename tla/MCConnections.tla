--------------------------- MODULE MCConnections ---------------------------
(***************************************************************************)
(* Connections for TLC.                                                    *)
(***************************************************************************)
EXTENDS Connections, TLC

NetworkSymmetry == Permutations(Clients) \cup Permutations(Workers)

=============================================================================
