--------------------------- MODULE MCClientServer ---------------------------
(* ClientServer with one client, one server and one structure for accept.  *)
EXTENDS ClientServer, TLC

Symmetry == Permutations(Families)

=============================================================================
