------------------------------ MODULE MCOwners ------------------------------
(* Owners with two objects of class Client and one of class Server.        *)
EXTENDS Owners, TLC

Symmetry == Permutations(Clients) \cup Permutations(ClientObjs)

=============================================================================
