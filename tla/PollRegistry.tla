---------------------------- MODULE PollRegistry ----------------------------
(***************************************************************************)
(* What a poll set promises its callers (socket.h, POLLING): add           *)
(* "Registers a socket to be monitored", and fails if the set is full;     *)
(* remove "Unregisters a socket from being monitored", and fails if it is  *)
(* not found; clear leaves none that is monitored.                         *)
(***************************************************************************)
EXTENDS Integers

CONSTANTS
  Socks,   \* the structures that may be registered
  Room     \* how many the caller's array has room for

VARIABLES
  registered,  \* the structures that are monitored
  free         \* how many more there is room for

rvars == <<registered, free>>

RInit == registered = {} /\ free = Room

RAdd(s) ==
  /\ free > 0 /\ s \notin registered
  /\ registered' = registered \cup {s}
  /\ free' = free - 1

RRemove(s) ==
  /\ s \in registered
  /\ registered' = registered \ {s}
  /\ free' = free + 1

RClear == registered' = {} /\ free' = Room

RNext == (\E s \in Socks : RAdd(s) \/ RRemove(s)) \/ RClear

RSpec == RInit /\ [][RNext]_rvars

=============================================================================
