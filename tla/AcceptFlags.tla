---------------------------- MODULE AcceptFlags ----------------------------
(***************************************************************************)
(* accept and set_blocking of one listening socket, system call by system  *)
(* call (code/logic/socket.c).  accept reads the status flags, makes the   *)
(* descriptor non-blocking, accepts, and puts the flags back; threads that *)
(* share the socket, or a set_blocking, can come in between.  The library  *)
(* takes no lock; callers who take one of their own are Serialised.        *)
(***************************************************************************)
EXTENDS Integers

CONSTANTS
  Threads,     \* the threads that use the socket
  Backlog,     \* how many connections the kernel queues
  Modes,       \* the modes that set_blocking is called with
  Serialised,  \* callers let no two calls on the socket overlap
  Windows      \* the _WIN32 branches: restore the mode from server->blocking

ASSUME AcceptFlagsAssumption ==
  /\ Backlog \in Nat \ {0}
  /\ Modes \subseteq BOOLEAN
  /\ Serialised \in BOOLEAN
  /\ Windows \in BOOLEAN

VARIABLES
  nonblock,  \* O_NONBLOCK of the descriptor (FIONBIO on Windows)
  blocking,  \* the field blocking of the structure
  pending,   \* connections in the kernel's queue
  result,    \* what the latest accept of each thread returned
  pc,        \* where each thread is
  flags,     \* the local variable flags of accept
  mode       \* the argument of set_blocking

vars == <<nonblock, blocking, pending, result, pc, flags, mode>>

Steps == {"idle", "getfl", "setfl", "accept", "waiting", "restore", "setmode", "setfield"}

Init ==
  /\ nonblock = FALSE /\ blocking = TRUE   \* as socket_create leaves it
  /\ pending = 0
  /\ result = [t \in Threads |-> 0]
  /\ pc = [t \in Threads |-> "idle"]
  /\ flags = [t \in Threads |-> FALSE]
  /\ mode = [t \in Threads |-> FALSE]

Goto(t, step) == pc' = [pc EXCEPT ![t] = step]

\* A thread may call when it is not in a call and, if callers serialise, when
\* nobody is.
MayCall(t) ==
  /\ pc[t] = "idle"
  /\ Serialised => \A u \in Threads : pc[u] = "idle"

-----------------------------------------------------------------------------
(* fossil_net_socket_accept.                                               *)
CallAccept(t) ==
  /\ MayCall(t)
  /\ Goto(t, IF Windows THEN "setfl" ELSE "getfl")
  /\ UNCHANGED <<nonblock, blocking, pending, result, flags, mode>>

GetFlags(t) ==
  /\ pc[t] = "getfl"
  /\ flags' = [flags EXCEPT ![t] = nonblock]
  /\ Goto(t, "setfl")
  /\ UNCHANGED <<nonblock, blocking, pending, result, mode>>

\* Mutant: the call that makes the descriptor non-blocking is missing.
SetNonblockingMissing(t) ==
  /\ pc[t] = "setfl"
  /\ Goto(t, "accept")
  /\ UNCHANGED <<nonblock, blocking, pending, result, flags, mode>>

SetNonblocking(t) ==
  /\ pc[t] = "setfl"
  /\ nonblock' = TRUE
  /\ Goto(t, "accept")
  /\ UNCHANGED <<blocking, pending, result, flags, mode>>

\* Mutant: the failing accept returns the error code.
AcceptReturnsErrno(t) ==
  /\ pc[t] = "accept"
  /\ pending' = IF pending > 0 THEN pending - 1 ELSE 0
  /\ result' = [result EXCEPT ![t] = IF pending > 0 THEN 0 ELSE 11]
  /\ Goto(t, "restore")
  /\ UNCHANGED <<nonblock, blocking, flags, mode>>

\* Mutant: accept is called again until it succeeds.
AcceptRetried(t) ==
  /\ pc[t] = "accept" /\ pending > 0
  /\ pending' = pending - 1
  /\ result' = [result EXCEPT ![t] = 0]
  /\ Goto(t, "restore")
  /\ UNCHANGED <<nonblock, blocking, flags, mode>>

\* The system call accept looks at the flags when it is entered.  It fails when
\* nothing waits and it may not wait, and at any time for lack of a descriptor
\* (EMFILE), which leaves the queue as it is.  Once it waits, only a connection
\* ends it.
Accept(t) ==
  /\ \/ /\ pc[t] \in {"accept", "waiting"} /\ pending > 0
        /\ pending' = pending - 1
        /\ result' = [result EXCEPT ![t] = 0]
        /\ Goto(t, "restore")
     \/ /\ pc[t] = "accept"
        /\ result' = [result EXCEPT ![t] = -1]
        /\ Goto(t, "restore")
        /\ UNCHANGED pending
     \/ /\ pc[t] = "accept" /\ pending = 0 /\ ~nonblock
        /\ Goto(t, "waiting")
        /\ UNCHANGED <<pending, result>>
  /\ UNCHANGED <<nonblock, blocking, flags, mode>>

\* What accept takes the mode of the listening socket to have been.
Saved(t) == IF Windows THEN ~blocking ELSE flags[t]

\* Mutant: a failed accept returns before the flags are put back.
RestoreAfterSuccess(t) ==
  /\ pc[t] = "restore"
  /\ nonblock' = IF result[t] = 0 THEN Saved(t) ELSE nonblock
  /\ Goto(t, "idle")
  /\ UNCHANGED <<blocking, pending, result, flags, mode>>

\* Mutant: accept leaves the descriptor blocking.
RestoreBlocking(t) ==
  /\ pc[t] = "restore"
  /\ nonblock' = FALSE
  /\ Goto(t, "idle")
  /\ UNCHANGED <<blocking, pending, result, flags, mode>>

Restore(t) ==
  /\ pc[t] = "restore"
  /\ nonblock' = Saved(t)
  /\ Goto(t, "idle")
  /\ UNCHANGED <<blocking, pending, result, flags, mode>>

-----------------------------------------------------------------------------
(* fossil_net_socket_set_blocking.  Of the flags it reads and writes back, *)
(* O_NONBLOCK, which it overwrites, is the only one this library sets.     *)
CallSetBlocking(t) ==
  /\ MayCall(t)
  /\ \E m \in Modes : mode' = [mode EXCEPT ![t] = m]
  /\ Goto(t, "setmode")
  /\ UNCHANGED <<nonblock, blocking, pending, result, flags>>

SetMode(t) ==
  /\ pc[t] = "setmode"
  /\ nonblock' = ~mode[t]
  /\ Goto(t, "setfield")
  /\ UNCHANGED <<blocking, pending, result, flags, mode>>

SetField(t) ==
  /\ pc[t] = "setfield"
  /\ blocking' = mode[t]
  /\ Goto(t, "idle")
  /\ UNCHANGED <<nonblock, pending, result, flags, mode>>

-----------------------------------------------------------------------------
\* A client connects.
Arrive ==
  /\ pending < Backlog
  /\ pending' = pending + 1
  /\ UNCHANGED <<nonblock, blocking, result, pc, flags, mode>>

\* The steps of a call that has begun.
Continue(t) ==
  GetFlags(t) \/ SetNonblocking(t) \/ Accept(t) \/ Restore(t) \/ SetMode(t) \/ SetField(t)

Next ==
  \/ \E t \in Threads : CallAccept(t) \/ CallSetBlocking(t) \/ Continue(t)
  \/ Arrive

Spec == Init /\ [][Next]_vars

\* A thread that is in a call keeps running.  No client need ever connect.
Fairness == \A t \in Threads : WF_vars(Continue(t))
FairSpec == Spec /\ Fairness

-----------------------------------------------------------------------------
(* Properties.                                                             *)

\* Every variable has its type.
TypeOK ==
  /\ nonblock \in BOOLEAN /\ blocking \in BOOLEAN
  /\ pending \in 0..Backlog
  /\ result \in [Threads -> {0, -1}]
  /\ pc \in [Threads -> Steps]
  /\ flags \in [Threads -> BOOLEAN]
  /\ mode \in [Threads -> BOOLEAN]

\* When no call is in progress the descriptor has the mode the structure records:
\* accept did "restore original flags" (socket.c:228).
ModeRestored == (\A t \in Threads : pc[t] = "idle") => nonblock = ~blocking

\* accept never waits in the kernel, whatever the mode of the socket.
NeverWaits == \A t \in Threads : pc[t] # "waiting"

\* Every call returns though no client connects: "No client will connect, so
\* accept should fail or timeout" (test_server.c:94).
CallsReturn == \A t \in Threads : pc[t] # "idle" ~> pc[t] = "idle"

-----------------------------------------------------------------------------
(* The promise (Listener), read off the state: a mode that accept has put  *)
(* aside is still the mode, and a set_blocking counts from its first step. *)
InAccept(t) == pc[t] \in {"accept", "waiting", "restore"}

ListenerNonblock ==
  IF \E t \in Threads : InAccept(t)
  THEN \E t \in Threads : InAccept(t) /\ Saved(t)
  ELSE nonblock

ListenerBlocking ==
  IF \E t \in Threads : pc[t] = "setfield"
  THEN \E t \in Threads : pc[t] = "setfield" /\ mode[t]
  ELSE blocking

Promise == INSTANCE Listener WITH nonblock <- ListenerNonblock, blocking <- ListenerBlocking

\* accept and set_blocking are atomic operations of one listening socket.
KeepsPromise == Promise!LSpec

=============================================================================
