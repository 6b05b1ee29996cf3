--------------------------- MODULE MCAcceptFlags ---------------------------
(* AcceptFlags with two or three threads on one listening socket.          *)
EXTENDS AcceptFlags

=============================================================================
