------------------------------ MODULE MCPollSet ------------------------------
(* PollSet, and Sockets under it, on two structures and three descriptors. *)
EXTENDS PollSet

Symmetry == Permutations(Socks)

=============================================================================
