------------------------------ MODULE HeaderMap ------------------------------
(***************************************************************************)
(* What set_header promises (request.h:104-117): a map from header names   *)
(* to values with room for a number of names, in which a value that is set *)
(* again is replaced, and a name is refused only when there is no room.     *)
(***************************************************************************)
EXTENDS Integers

CONSTANTS
  Names,   \* the header names
  Values,
  None,    \* the value of a header that is not set
  Room     \* how many names there is room for

VARIABLES
  map,     \* the value of each name, or None
  free,    \* how many more names there is room for
  latest,  \* the name and the value of the latest set_header,
  ret      \* and what it returned

mvars == <<map, free, latest, ret>>

MInit ==
  /\ map = [n \in Names |-> None] /\ free = Room
  /\ latest = [key |-> None, value |-> None] /\ ret = 0

\* Setting a header that is set replaces its value; a new one takes room.
Put(n, v) ==
  /\ map' = [map EXCEPT ![n] = v]
  /\ IF map[n] = None THEN free > 0 /\ free' = free - 1 ELSE free' = free
  /\ latest' = [key |-> n, value |-> v] /\ ret' = 0

\* A name outside Names is replaced, or takes room as well.
PutOther ==
  /\ latest'.key \notin Names
  /\ free' \in {free, free - 1} /\ free' >= 0
  /\ ret' = 0 /\ UNCHANGED map

\* A name is refused only if it is not set and there is no room.
Refuse ==
  /\ free = 0
  /\ latest'.key \in Names => map[latest'.key] = None
  /\ ret' = -1 /\ UNCHANGED <<map, free>>

Clear == map' = [n \in Names |-> None] /\ free' = Room /\ UNCHANGED <<latest, ret>>

MNext ==
  \/ \E n \in Names, v \in Values : Put(n, v)
  \/ PutOther \/ Refuse \/ Clear

MSpec == MInit /\ [][MNext]_mvars

=============================================================================
