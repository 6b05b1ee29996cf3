------------------------------ MODULE Listener ------------------------------
(***************************************************************************)
(* What a listening socket promises its callers (socket.h): one mode, kept *)
(* alike in the descriptor and in the structure, that only set_blocking    *)
(* changes; and an accept that at once and in one step takes a waiting     *)
(* connection, or fails and leaves what waits where it is.                 *)
(***************************************************************************)
EXTENDS Integers

CONSTANTS
  Threads,   \* the threads that call
  Backlog    \* how many connections wait at most

VARIABLES
  nonblock,  \* the mode of the descriptor
  blocking,  \* the mode the structure records
  pending,   \* connections that wait to be accepted
  result     \* what the latest accept of each thread returned

lvars == <<nonblock, blocking, pending, result>>

LInit ==
  /\ nonblock = FALSE /\ blocking = TRUE
  /\ pending = 0
  /\ result = [t \in Threads |-> 0]

LAccept(t) ==
  /\ \/ /\ pending > 0
        /\ pending' = pending - 1
        /\ result' = [result EXCEPT ![t] = 0]
     \/ /\ result' = [result EXCEPT ![t] = -1]
        /\ UNCHANGED pending
  /\ UNCHANGED <<nonblock, blocking>>

LSetBlocking(mode) ==
  /\ nonblock' = ~mode /\ blocking' = mode
  /\ UNCHANGED <<pending, result>>

LArrive ==
  /\ pending < Backlog
  /\ pending' = pending + 1
  /\ UNCHANGED <<nonblock, blocking, result>>

LNext ==
  \/ \E t \in Threads : LAccept(t)
  \/ \E mode \in BOOLEAN : LSetBlocking(mode)
  \/ LArrive

LSpec == LInit /\ [][LNext]_lvars

=============================================================================
