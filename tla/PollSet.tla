------------------------------ MODULE PollSet ------------------------------
(***************************************************************************)
(* A poll set (fossil_net_socket_poll and poll_add, poll_remove,           *)
(* poll_clear of code/logic/socket.c) of a program that goes on creating,  *)
(* connecting and closing the structures in it.  The set holds pointers:   *)
(* poll looks each handle up when it is called.                            *)
(*                                                                         *)
(* Of the caller's array, only the first count cells are ever read;        *)
(* entries is those.  Arguments are not NULL.                              *)
(***************************************************************************)
EXTENDS Sockets, SequencesExt

CONSTANTS
  Room,     \* max: how many cells the caller's array has
  StrayBit  \* the bit that FD_SET(-1) sets: 63 where a long has 64 bits

\* An fd_set has 1024 bits, and FD_SET checks no bound.
ASSUME PollSetAssumption ==
  /\ Room \in Nat
  /\ StrayBit \in Nat
  /\ MaxFd < 1024

VARIABLES
  entries,  \* the structures in the set, in the order of the array
  polled    \* history: {rc} after a poll that returned rc, {} after other calls

pvars == <<fdt, sock, errno, entries, polled>>

PInit == Init /\ entries = <<>> /\ polled = {}

-----------------------------------------------------------------------------
(* The set.                                                                *)

\* Mutant: the bound is checked after the cell is written.
PollAddOneMore(s, ret) ==
  \/ ret = 0 /\ Len(entries) <= Room /\ entries' = Append(entries, s)
  \/ ret = -1 /\ Len(entries) > Room /\ UNCHANGED entries

PollAdd(s, ret) ==
  \/ ret = 0 /\ Len(entries) < Room /\ entries' = Append(entries, s)
  \/ ret = -1 /\ Len(entries) >= Room /\ UNCHANGED entries

\* Mutant: the cells are shifted and the count is not decremented.
PollRemoveKeepsCount(s, ret) ==
  \/ /\ ret = 0 /\ Contains(entries, s)
     /\ entries' = Append(RemoveFirst(entries, s), Last(entries))
  \/ ret = -1 /\ ~Contains(entries, s) /\ UNCHANGED entries

\* Only the first registration of a structure goes.
PollRemove(s, ret) ==
  \/ ret = 0 /\ Contains(entries, s) /\ entries' = RemoveFirst(entries, s)
  \/ ret = -1 /\ ~Contains(entries, s) /\ UNCHANGED entries

PollClear == entries' = <<>>

-----------------------------------------------------------------------------
(* poll.  A signal may come at any time, and a timeout answers 0; select   *)
(* looks at the descriptors below its first argument, and fails when one   *)
(* of those it is asked about is not open.                                 *)
FdBit(s) == IF Handle(s) < 0 THEN StrayBit ELSE Handle(s)

\* Mutant: select is given the highest descriptor and not one more.
NfdsShort == Max({Handle(s) : s \in Range(entries)} \cup {0})

Nfds == Max({Handle(s) : s \in Range(entries)} \cup {0}) + 1

Watched == {fd \in {FdBit(s) : s \in Range(entries)} : fd < Nfds}

\* A listening socket is readable when a connection waits, a connection in
\* progress is not, a refused one is; of the others the model does not say.
Readable(fd) ==
  CASE fdt[fd].state = "listening"  -> {fdt[fd].pending > 0}
    [] fdt[fd].state = "connecting" -> {FALSE}
    [] fdt[fd].state = "refused"    -> {TRUE}
    [] OTHER -> BOOLEAN

SelectFails == errno' = 1 /\ polled' = {-1}

SelectReturns ==
  /\ \A fd \in Watched : IsOpen(fd)
  /\ \E ready \in SUBSET Watched :
       /\ \A fd \in Watched : (fd \in ready) \in Readable(fd)
       /\ polled' = {Cardinality(ready)}
  /\ UNCHANGED errno

Poll ==
  /\ \/ entries = <<>> /\ polled' = {-1} /\ UNCHANGED errno
     \/ entries # <<>> /\ (SelectFails \/ SelectReturns)
  /\ UNCHANGED <<fdt, sock, entries>>

-----------------------------------------------------------------------------
SetNext ==
  \/ \E s \in Socks, ret \in {0, -1} : PollAdd(s, ret) \/ PollRemove(s, ret)
  \/ PollClear

PNext ==
  \/ SetNext /\ UNCHANGED svars /\ polled' = {}
  \/ Poll
  \/ SocketNext /\ UNCHANGED entries /\ polled' = {}

PSpec == PInit /\ [][PNext]_pvars

-----------------------------------------------------------------------------
(* Properties.                                                             *)

\* Every variable has its type, and the array is not written past its end.
PTypeOK ==
  /\ TypeOK
  /\ entries \in Seq(Socks) /\ Len(entries) <= Room
  /\ polled \subseteq -1..Cardinality(Fds)

\* When every entry is an open socket of its own and none is registered twice,
\* poll answers the "Number of sockets ready" (socket.h:416): it counts every
\* entry that must be ready and none that cannot be.
Once == IsInjective(entries)
Sound ==
  /\ \A s \in Range(entries) : Handle(s) \in Fds /\ fdt[Handle(s)].owner = s
  /\ Once
Ready(answers) == Cardinality({i \in DOMAIN entries : Readable(FdBit(entries[i])) \in answers})
PollCounts ==
  \A rc \in polled :
    rc >= 0 /\ Sound => rc \in Ready({{TRUE}}) .. Ready({{TRUE}, BOOLEAN})

\* However entries are closed and created anew while they are in the set, poll
\* watches no descriptor above 0 but those of structures in the set, unless the
\* create of one has failed: a handle in the set is never an old number that
\* the kernel has since given to another socket.
WatchesOwn ==
  (\A s \in Range(entries) : Handle(s) # -1) =>
    \A fd \in Watched \ {0} : fdt[fd].owner \in Range(entries)

\* As long as callers add no structure that is in it already, a poll set is a set
\* of structures: one that poll_remove has been told of is monitored no more, and
\* the shift that closes the gap adds, drops and doubles no other (socket.h:441-443,
\* "Unregisters a socket from being monitored in a poll set").  A structure that is
\* added twice is still monitored after one poll_remove: nothing is claimed of a
\* set that holds one.
Registry == INSTANCE PollRegistry WITH
              registered <- Range(entries), free <- Room - Len(entries)
AddsAgain == \E s \in Range(entries) : entries' = Append(entries, s)
ImplementsRegistry ==
  Registry!RInit /\ [][Once /\ ~AddsAgain => [Registry!RNext]_(Registry!rvars)]_pvars

=============================================================================
