---------------------------- MODULE PollSetProofs ----------------------------
(***************************************************************************)
(* For any structures, table, array and ports: the poll set is a set of    *)
(* structures that stays within its array, and poll watches only the       *)
(* descriptors of structures in it, whatever is created and closed         *)
(* meanwhile.                                                              *)
(***************************************************************************)
EXTENDS FiniteSetTheorems, SequenceTheorems, PollSet, SocketsProofs

SetOK == entries \in Seq(Socks) /\ Len(entries) <= Room

PollInv == IInv /\ SetOK /\ polled \subseteq -1..Cardinality(Fds)

-----------------------------------------------------------------------------
(* The first registration of a structure.                                  *)

\* A set of naturals that is not empty has a least element: of the sets of its
\* elements up to one of them, one is least.
LEMMA LeastNatural ==
  ASSUME NEW T \in SUBSET Nat, T # {}
  PROVE  \E m \in T : \A y \in T : m <= y
<1> DEFINE Upto(k) == T \cap (0..k)
           Chain == {Upto(k) : k \in T}
<1>1. Chain \subseteq FiniteSubsetsOf(Nat)
  <2> SUFFICES ASSUME NEW k \in T PROVE IsFiniteSet(Upto(k)) /\ Upto(k) \in SUBSET Nat
    BY DEF FiniteSubsetsOf
  <2>1. IsFiniteSet(0..k)
    BY FS_Interval
  <2> QED BY <2>1, FS_Subset
<1>2. PICK X \in Chain : \A Y \in Chain : <<Y, X>> \notin StrictSubsetOrdering(Nat)
  <2>1. Chain # {}
    OBVIOUS
  <2>2. IsWellFoundedOn(StrictSubsetOrdering(Nat), FiniteSubsetsOf(Nat))
    BY FS_StrictSubsetOrderingWellFounded
  <2> HIDE DEF Chain
  <2> QED BY <1>1, <2>1, <2>2, WFMin
<1>3. PICK m \in T : X = Upto(m)
  OBVIOUS
<1>4. ASSUME NEW y \in T, y < m PROVE FALSE
  <2>1. Upto(y) \subseteq Upto(m) /\ m \in Upto(m) /\ m \notin Upto(y)
    BY <1>4
  <2>2. <<Upto(y), Upto(m)>> \in StrictSubsetOrdering(Nat)
    BY <2>1 DEF StrictSubsetOrdering
  <2> QED BY <1>2, <1>3, <2>2
<1> QED BY <1>4

\* Removing a structure takes its first entry out and shifts those behind it.
LEMMA RemoveFirstShifts ==
  ASSUME NEW S, NEW seq \in Seq(S), NEW s \in S, Contains(seq, s)
  PROVE  /\ RemoveFirst(seq, s) \in Seq(S)
         /\ Len(RemoveFirst(seq, s)) = Len(seq) - 1
         /\ \E n \in 1..Len(seq) :
              /\ seq[n] = s
              /\ \A i \in 1..Len(seq) - 1 :
                   RemoveFirst(seq, s)[i] = IF i < n THEN seq[i] ELSE seq[i + 1]
<1> DEFINE I == {i \in 1..Len(seq) : seq[i] = s}
           n == Min(I)
           front == SubSeq(seq, 1, n - 1)
           back == SubSeq(seq, n + 1, Len(seq))
<1>1. I \in SUBSET Nat /\ I # {} /\ Len(seq) \in Nat
  BY DEF Contains
<1>2. \E m \in I : \A y \in I : m <= y
  BY <1>1, LeastNatural
<1>3. n \in I
  BY <1>2 DEF Min
<1>4. n \in 1..Len(seq) /\ seq[n] = s
  BY <1>3
<1>5. RemoveFirst(seq, s) = RemoveAt(seq, n)
  BY <1>1 DEF RemoveFirst, SelectInSeq
<1> HIDE DEF n
<1>6. /\ front \in Seq(S) /\ Len(front) = n - 1
      /\ \A i \in 1..n - 1 : front[i] = seq[i]
  BY <1>1, <1>4, SubSeqProperties
<1>7. /\ back \in Seq(S) /\ Len(back) = Len(seq) - n
      /\ \A i \in 1..Len(seq) - n : back[i] = seq[n + i]
  BY <1>1, <1>4, SubSeqProperties
<1>8. RemoveAt(seq, n) = front \o back
  BY DEF RemoveAt
<1> HIDE DEF front, back
<1>9. /\ RemoveAt(seq, n) \in Seq(S)
      /\ Len(RemoveAt(seq, n)) = Len(seq) - 1
      /\ \A i \in 1..Len(seq) - 1 :
           RemoveAt(seq, n)[i] = IF i <= n - 1 THEN front[i] ELSE back[i - (n - 1)]
  <2>1. /\ front \o back \in Seq(S)
        /\ Len(front \o back) = Len(front) + Len(back)
        /\ \A i \in 1..Len(front) + Len(back) :
             (front \o back)[i] = IF i <= Len(front) THEN front[i] ELSE back[i - Len(front)]
    BY <1>6, <1>7, ConcatProperties
  <2>2. Len(front) = n - 1 /\ Len(front) + Len(back) = Len(seq) - 1
    BY <1>1, <1>4, <1>6, <1>7
  <2> QED BY <1>8, <2>1, <2>2
<1>10. ASSUME NEW i \in 1..Len(seq) - 1
       PROVE  RemoveAt(seq, n)[i] = IF i < n THEN seq[i] ELSE seq[i + 1]
  <2>1. CASE i < n
    BY <1>1, <1>4, <1>6, <1>9, <2>1
  <2>2. CASE ~(i < n)
    <3>1. i - (n - 1) \in 1..Len(seq) - n /\ n + (i - (n - 1)) = i + 1
      BY <1>1, <1>4, <2>2
    <3> QED BY <1>1, <1>4, <1>7, <1>9, <2>2, <3>1
  <2> QED BY <2>1, <2>2
<1> QED BY <1>4, <1>5, <1>9, <1>10

-----------------------------------------------------------------------------
LEMMA InitPollInv == PInit => PollInv
BY InitIInv, PollSetAssumption DEF PInit, PollInv, SetOK

\* The set's own calls leave the socket layer alone.
LEMMA SetKeeps ==
  ASSUME PollInv, SetNext
  PROVE  SetOK'
<1> entries \in Seq(Socks) /\ Len(entries) \in Nat /\ Room \in Nat /\ Len(entries) <= Room
  BY PollSetAssumption DEF PollInv, SetOK
<1>1. ASSUME NEW s \in Socks, NEW ret \in {0, -1}, PollAdd(s, ret) PROVE SetOK'
  BY <1>1, AppendProperties DEF PollAdd, SetOK
<1>2. ASSUME NEW s \in Socks, NEW ret \in {0, -1}, PollRemove(s, ret) PROVE SetOK'
  BY <1>2, RemoveFirstShifts DEF PollRemove, SetOK
<1>3. ASSUME PollClear PROVE SetOK'
  BY <1>3 DEF PollClear, SetOK
<1> QED BY <1>1, <1>2, <1>3 DEF SetNext

\* poll answers -1, or how many of the open descriptors it watches are ready.
LEMMA PollKeeps ==
  ASSUME PollInv, Poll
  PROVE  PollInv'
<1>1. IsFiniteSet(Fds) /\ Cardinality(Fds) \in Nat
  BY SocketsAssumption, FS_Interval, FS_CardinalityType DEF Fds
<1>2. polled' \subseteq -1..Cardinality(Fds)
  <2>1. CASE polled' = {-1}
    BY <1>1, <2>1
  <2>2. CASE SelectReturns
    <3>1. PICK ready \in SUBSET Watched : polled' = {Cardinality(ready)} /\ \A fd \in Watched : IsOpen(fd)
      BY <2>2 DEF SelectReturns
    <3>2. ready \in SUBSET Fds
      BY <3>1 DEF IsOpen
    <3>3. Cardinality(ready) <= Cardinality(Fds) /\ Cardinality(ready) \in Nat
      BY <1>1, <3>2, FS_Subset, FS_CardinalityType
    <3> QED BY <1>1, <3>1, <3>3
  <2> QED BY <2>1, <2>2 DEF Poll, SelectFails
<1>3. IInv' /\ SetOK'
  <2>1. fdt' = fdt /\ sock' = sock /\ entries' = entries /\ errno' \in {1, errno}
    BY DEF Poll, SelectFails, SelectReturns
  <2> QED BY <2>1 DEF PollInv, IInv, SetOK, TypeOK, HandlesOwned, NoLeak, Handle
<1> QED BY <1>2, <1>3 DEF PollInv

LEMMA NextPollInv == PollInv /\ [PNext]_pvars => PollInv'
<1> SUFFICES ASSUME PollInv, [PNext]_pvars PROVE PollInv'
  OBVIOUS
<1>1. CASE SetNext /\ UNCHANGED svars /\ polled' = {}
  <2>1. IInv'
    BY <1>1, NextIInv DEF PollInv
  <2> QED BY <1>1, <2>1, SetKeeps DEF PollInv
<1>2. CASE Poll
  BY <1>2, PollKeeps
<1>3. CASE SocketNext /\ UNCHANGED entries /\ polled' = {}
  <2>1. IInv'
    BY <1>3, NextIInv DEF PollInv
  <2> QED BY <1>3, <2>1 DEF PollInv, SetOK
<1>4. CASE UNCHANGED pvars
  <2>1. UNCHANGED svars /\ IInv'
    BY <1>4, NextIInv DEF PollInv, pvars, svars
  <2> QED BY <1>4, <2>1 DEF PollInv, SetOK, pvars
<1> QED BY <1>1, <1>2, <1>3, <1>4 DEF PNext

LEMMA PollSetInvariant == PSpec => []PollInv
BY InitPollInv, NextPollInv, PTL DEF PSpec

-----------------------------------------------------------------------------
(* Theorems.                                                               *)

\* add and remove never write past the end of the caller's array.
THEOREM PollSetTypes == PSpec => []PTypeOK
<1>1. PollInv => PTypeOK
  BY DEF PollInv, IInv, SetOK, PTypeOK
<1> QED BY <1>1, PollSetInvariant, PTL

\* A handle in the set is never an old number that the kernel has given to
\* another socket since.
THEOREM PollWatchesOwn == PSpec => []WatchesOwn
<1>1. PollInv => WatchesOwn
  <2> SUFFICES ASSUME PollInv, NEW s \in Range(entries), Handle(s) # -1,
                      FdBit(s) # 0
               PROVE  fdt[FdBit(s)].owner \in Range(entries)
    BY DEF WatchesOwn, Watched
  <2>1. s \in Socks
    BY ElementOfSeq DEF PollInv, SetOK, Range
  <2>2. Handle(s) \in 0..MaxFd
    BY <2>1, SocketsAssumption DEF PollInv, IInv, TypeOK, Handle, Fds
  <2>3. FdBit(s) = Handle(s) /\ Handle(s) > 0
    BY <2>2, SocketsAssumption DEF FdBit
  <2> QED BY <2>1, <2>3 DEF PollInv, IInv, HandlesOwned
<1> QED BY <1>1, PollSetInvariant, PTL

-----------------------------------------------------------------------------
(* What poll answers.                                                      *)

\* select is told of every descriptor of the set.
LEMMA AllWatched ==
  ASSUME PollInv, Sound
  PROVE  \A s \in Range(entries) :
           FdBit(s) = Handle(s) /\ Handle(s) \in Watched /\ Handle(s) \in Nat
<1> DEFINE H == {Handle(s) : s \in Range(entries)} \cup {0}
           D == {MaxFd - h : h \in H}
<1>1. MaxFd \in Nat /\ \A h \in H : h \in 0..MaxFd
  BY SocketsAssumption DEF Sound, Fds
<1>2. D \in SUBSET Nat /\ D # {}
  <2>1. 0 \in H
    OBVIOUS
  <2> HIDE DEF H
  <2>2. \A h \in H : MaxFd - h \in Nat
    BY <1>1
  <2> QED BY <2>1, <2>2
<1>3. PICK m \in H : \A h \in H : m >= h
  <2>1. PICK d \in D : \A y \in D : d <= y
    BY <1>2, LeastNatural
  <2>2. PICK m \in H : d = MaxFd - m
    BY <2>1
  <2>3. \A h \in H : MaxFd - m <= MaxFd - h
    BY <2>1, <2>2
  <2>4. \A h \in H : m >= h
    <3> HIDE DEF H
    <3> QED BY <1>1, <2>3
  <2> QED BY <2>4
<1>4. Max(H) \in H /\ \A h \in H : Max(H) >= h
  <2> HIDE DEF H
  <2> QED BY <1>3 DEF Max
<1>5. Nfds = Max(H) + 1
  BY DEF Nfds
<1> SUFFICES ASSUME NEW s \in Range(entries)
             PROVE  FdBit(s) = Handle(s) /\ Handle(s) \in Watched /\ Handle(s) \in Nat
  OBVIOUS
<1>6. Handle(s) \in H
  OBVIOUS
<1> HIDE DEF H
<1>7. Handle(s) \in Nat /\ Handle(s) < Nfds
  BY <1>1, <1>4, <1>5, <1>6
<1>8. FdBit(s) = Handle(s)
  BY <1>7 DEF FdBit
<1> QED BY <1>7, <1>8 DEF Watched

\* The answer of select: every descriptor that must be ready is counted, and none
\* that cannot be; no two entries share one.
LEMMA CountsReady ==
  ASSUME PollInv, Sound, NEW ready \in SUBSET Watched,
         \A fd \in Watched : IsOpen(fd) /\ (fd \in ready) \in Readable(fd)
  PROVE  Cardinality(ready) \in Ready({{TRUE}}) .. Ready({{TRUE}, BOOLEAN})
<1> DEFINE must == {i \in DOMAIN entries : Readable(FdBit(entries[i])) \in {{TRUE}}}
           may  == {i \in DOMAIN entries : Readable(FdBit(entries[i])) \in {{TRUE}, BOOLEAN}}
           f    == [i \in must |-> Handle(entries[i])]
           g    == [fd \in ready |-> CHOOSE i \in may : Handle(entries[i]) = fd]
<1>1. entries \in Seq(Socks) /\ Len(entries) \in Nat /\ DOMAIN entries = 1..Len(entries)
  BY LenProperties DEF PollInv, SetOK
<1>2. \A i \in DOMAIN entries : /\ entries[i] \in Range(entries)
                                /\ Handle(entries[i]) \in Watched
                                /\ FdBit(entries[i]) = Handle(entries[i])
  BY AllWatched DEF Range
<1>3. \A i, j \in DOMAIN entries : Handle(entries[i]) = Handle(entries[j]) => i = j
  <2>1. \A i \in DOMAIN entries : fdt[Handle(entries[i])].owner = entries[i]
    BY <1>2 DEF Sound
  <2>2. \A i, j \in DOMAIN entries : entries[i] = entries[j] => i = j
    BY DEF Sound, Once, IsInjective
  <2> QED BY <2>1, <2>2
<1>4. IsFiniteSet(ready) /\ IsFiniteSet(must) /\ IsFiniteSet(may)
  <2>1. ready \subseteq Fds /\ IsFiniteSet(Fds)
    BY SocketsAssumption, FS_Interval DEF IsOpen, Fds
  <2>2. must \subseteq 1..Len(entries) /\ may \subseteq 1..Len(entries)
    BY <1>1
  <2>3. IsFiniteSet(1..Len(entries))
    <3>1. 1 \in Int /\ Len(entries) \in Int
      BY <1>1
    <3> QED BY <3>1, FS_Interval
  <2> HIDE DEF must, may
  <2> QED BY <2>1, <2>2, <2>3, FS_Subset
<1>5. Cardinality(must) <= Cardinality(ready)
  <2>1. \A i \in must : Handle(entries[i]) \in ready
    <3> TAKE i \in must
    <3>1. Handle(entries[i]) \in Watched /\ Readable(Handle(entries[i])) = {TRUE}
      BY <1>2
    <3>2. (Handle(entries[i]) \in ready) \in {TRUE}
      BY <3>1
    <3> QED BY <3>2
  <2>2. f \in [must -> ready] /\ \A i, j \in must : f[i] = f[j] => i = j
    BY <1>3, <2>1
  <2> HIDE DEF f, must
  <2>3. f \in Injection(must, ready)
    BY <2>2 DEF Injection, IsInjective
  <2> QED BY <1>4, <2>3, FS_Injection
<1>6. Cardinality(ready) <= Cardinality(may)
  <2>1. \A fd \in ready : \E i \in may : Handle(entries[i]) = fd
    <3> TAKE fd \in ready
    <3>1. PICK s \in Range(entries) : fd = FdBit(s)
      BY DEF Watched
    <3>2. PICK i \in DOMAIN entries : entries[i] = s
      BY <3>1 DEF Range
    <3>3. (fd \in ready) \in Readable(fd)
      OBVIOUS
    <3>4. TRUE \in Readable(fd)
      <4>1. (fd \in ready) = TRUE
        OBVIOUS
      <4> QED BY <3>3, <4>1
    <3>5. Readable(fd) \in {{TRUE}, BOOLEAN}
      BY <3>4 DEF Readable
    <3>6. FdBit(entries[i]) = fd /\ Handle(entries[i]) = fd
      BY <1>2, <3>1, <3>2
    <3>7. i \in may
      BY <3>5, <3>6
    <3> QED BY <3>6, <3>7
  <2>2. \A fd \in ready : g[fd] \in may /\ Handle(entries[g[fd]]) = fd
    <3> HIDE DEF may
    <3> QED BY <2>1
  <2>3. g \in [ready -> may]
    <3> HIDE DEF may
    <3> QED BY <2>1
  <2> HIDE DEF g, may
  <2>4. \A fd, fe \in ready : g[fd] = g[fe] => fd = fe
    BY <2>2
  <2>5. g \in Injection(ready, may)
    BY <2>3, <2>4 DEF Injection, IsInjective
  <2> QED BY <1>4, <2>5, FS_Injection
<1>7. Ready({{TRUE}}) = Cardinality(must) /\ Ready({{TRUE}, BOOLEAN}) = Cardinality(may)
  BY DEF Ready
<1>8. Cardinality(must) \in Nat /\ Cardinality(ready) \in Nat /\ Cardinality(may) \in Nat
  BY <1>4, FS_CardinalityType
<1> HIDE DEF must, may
<1> QED BY <1>5, <1>6, <1>7, <1>8

LEMMA NextPollCounts == PollInv /\ PollCounts /\ [PNext]_pvars => PollCounts'
<1> SUFFICES ASSUME PollInv, PollCounts, [PNext]_pvars PROVE PollCounts'
  OBVIOUS
<1>1. CASE polled' = {}
  BY <1>1 DEF PollCounts
<1>2. CASE polled' = {-1}
  BY <1>2 DEF PollCounts
<1>3. CASE SelectReturns /\ UNCHANGED <<fdt, sock, entries>>
  <2>1. PICK ready \in SUBSET Watched :
          /\ \A fd \in Watched : IsOpen(fd) /\ (fd \in ready) \in Readable(fd)
          /\ polled' = {Cardinality(ready)}
    BY <1>3 DEF SelectReturns
  <2>2. Sound' <=> Sound
    BY <1>3 DEF Sound, Once, Handle
  <2>3. \A answers : Ready(answers)' = Ready(answers)
    BY <1>3 DEF Ready, Readable, FdBit, Handle
  <2>4. Sound => Cardinality(ready) \in Ready({{TRUE}}) .. Ready({{TRUE}, BOOLEAN})
    BY <2>1, CountsReady
  <2> QED BY <2>1, <2>2, <2>3, <2>4 DEF PollCounts
<1>4. CASE UNCHANGED pvars
  BY <1>4 DEF pvars, PollCounts, Sound, Once, Ready, Readable, FdBit, Handle
<1> QED BY <1>1, <1>2, <1>3, <1>4 DEF PNext, Poll, SelectFails

\* When every entry is an open socket of its own, poll counts each socket that
\* must be ready and none that cannot be, for any number of them.
THEOREM PollCountsReady == PSpec => []PollCounts
<1>1. PInit => PollCounts
  BY DEF PInit, PollCounts
<1> QED BY <1>1, NextPollCounts, PollSetInvariant, PTL DEF PSpec

-----------------------------------------------------------------------------
(* The refinement of PollRegistry.                                         *)
LEMMA RangeAppended ==
  ASSUME NEW S, NEW seq \in Seq(S), NEW s \in S
  PROVE  Range(Append(seq, s)) = Range(seq) \cup {s}
<1> DEFINE L == Len(seq)
           longer == Append(seq, s)
<1>1. /\ L \in Nat /\ DOMAIN seq = 1..L
      /\ DOMAIN longer = 1..L + 1 /\ longer[L + 1] = s
      /\ \A i \in 1..L : longer[i] = seq[i]
  BY LenProperties, AppendProperties
<1>2. Range(longer) = Range(seq) \cup {s}
  <2> HIDE DEF L, longer
  <2> QED BY <1>1 DEF Range
<1> QED BY <1>2

\* Where no structure has a second entry, the shift that closes the gap keeps
\* every other structure, and the removed one is gone.
LEMMA RangeRemoved ==
  ASSUME NEW S, NEW seq \in Seq(S), NEW s \in S, Contains(seq, s), IsInjective(seq)
  PROVE  Range(RemoveFirst(seq, s)) = Range(seq) \ {s}
<1> DEFINE L == Len(seq)
           shorter == RemoveFirst(seq, s)
<1>1. L \in Nat /\ DOMAIN seq = 1..L
  BY LenProperties
<1>2. PICK n \in 1..L :
        seq[n] = s /\ \A i \in 1..L - 1 : shorter[i] = IF i < n THEN seq[i] ELSE seq[i + 1]
  BY RemoveFirstShifts
<1>3. DOMAIN shorter = 1..L - 1
  BY RemoveFirstShifts, LenProperties
<1> HIDE DEF L, shorter
<1>4. ASSUME NEW i \in 1..L - 1 PROVE shorter[i] \in Range(seq) \ {s}
  <2> DEFINE j == IF i < n THEN i ELSE i + 1
  <2>1. j \in 1..L /\ j # n /\ shorter[i] = seq[j]
    BY <1>1, <1>2
  <2>2. seq[j] # s
    BY <1>1, <1>2, <2>1 DEF IsInjective
  <2> QED BY <1>1, <2>1, <2>2 DEF Range
<1>5. ASSUME NEW t \in Range(seq) \ {s} PROVE \E i \in 1..L - 1 : shorter[i] = t
  <2>1. PICK k \in 1..L : seq[k] = t
    BY <1>1 DEF Range
  <2>2. CASE k < n
    BY <1>1, <1>2, <2>1, <2>2
  <2>3. CASE k > n
    <3>1. k - 1 \in 1..L - 1 /\ ~(k - 1 < n) /\ (k - 1) + 1 = k
      BY <1>1, <2>3
    <3> QED BY <1>2, <2>1, <3>1
  <2> QED BY <1>1, <1>2, <2>1, <2>2, <2>3
<1>6. Range(shorter) = Range(seq) \ {s}
  BY <1>3, <1>4, <1>5 DEF Range
<1> QED BY <1>6 DEF shorter

\* Each call of the set is the action of the registry that it is named for.
LEMMA SetRefines ==
  ASSUME PollInv, SetNext, Once, ~AddsAgain
  PROVE  [Registry!RNext]_(Registry!rvars)
<1> entries \in Seq(Socks) /\ Len(entries) \in Nat /\ Room \in Nat /\ Len(entries) <= Room
  BY PollSetAssumption DEF PollInv, SetOK
<1>1. ASSUME NEW s \in Socks, NEW ret \in {0, -1}, PollAdd(s, ret)
      PROVE  Registry!RAdd(s) \/ UNCHANGED entries
  <2> SUFFICES ASSUME Len(entries) < Room, entries' = Append(entries, s)
               PROVE  Registry!RAdd(s)
    BY <1>1 DEF PollAdd
  <2>1. Range(entries') = Range(entries) \cup {s} /\ s \notin Range(entries)
    BY RangeAppended DEF AddsAgain
  <2>2. Room - Len(entries) > 0 /\ Room - Len(entries') = (Room - Len(entries)) - 1
    BY AppendProperties
  <2> QED BY <2>1, <2>2 DEF Registry!RAdd
<1>2. ASSUME NEW s \in Socks, NEW ret \in {0, -1}, PollRemove(s, ret)
      PROVE  Registry!RRemove(s) \/ UNCHANGED entries
  <2> SUFFICES ASSUME Contains(entries, s), entries' = RemoveFirst(entries, s)
               PROVE  Registry!RRemove(s)
    BY <1>2 DEF PollRemove
  <2>1. Range(entries') = Range(entries) \ {s}
    BY RangeRemoved DEF Once
  <2>2. s \in Range(entries)
    <3>1. DOMAIN entries = 1..Len(entries)
      BY LenProperties
    <3>2. PICK i \in 1..Len(entries) : entries[i] = s
      BY DEF Contains
    <3> QED BY <3>1, <3>2 DEF Range
  <2>3. Len(entries') = Len(entries) - 1
    BY RemoveFirstShifts
  <2>4. Room - Len(entries') = (Room - Len(entries)) + 1
    BY <2>3
  <2> QED BY <2>1, <2>2, <2>4 DEF Registry!RRemove
<1>3. ASSUME PollClear PROVE Registry!RClear
  BY <1>3 DEF PollClear, Registry!RClear, Range
<1>4. ASSUME UNCHANGED entries PROVE UNCHANGED Registry!rvars
  BY <1>4 DEF Registry!rvars
<1> QED BY <1>1, <1>2, <1>3, <1>4 DEF SetNext, Registry!RNext

\* The array with its first-match removal and its shift is a set of at most Room
\* structures, as long as none is added while it is in it, for arrays of any length:
\* one that is removed is monitored no more, and every other one still is.
THEOREM SetIsRegistry == PSpec => ImplementsRegistry
<1>1. PInit => Registry!RInit
  <2> SUFFICES ASSUME PInit PROVE Registry!RInit
    OBVIOUS
  <2>1. entries = <<>> /\ Len(entries) = 0 /\ Range(entries) = {}
    BY DEF PInit, Range
  <2> QED BY <2>1, PollSetAssumption DEF Registry!RInit
<1>2. PollInv /\ [PNext]_pvars => [Once /\ ~AddsAgain => [Registry!RNext]_(Registry!rvars)]_pvars
  <2> SUFFICES ASSUME PollInv, [PNext]_pvars, Once, ~AddsAgain PROVE [Registry!RNext]_(Registry!rvars)
    OBVIOUS
  <2>1. ASSUME UNCHANGED entries PROVE UNCHANGED Registry!rvars
    BY <2>1 DEF Registry!rvars
  <2> QED BY <2>1, SetRefines DEF PNext, Poll, pvars
<1> QED BY <1>1, <1>2, PollSetInvariant, PTL DEF PSpec, ImplementsRegistry

\* Being in a poll set changes nothing of who owns a descriptor: none is lost, and
\* none above 0 is closed but by the structure it was made for, whether that is
\* registered, registered twice or not at all.
THEOREM PollProgramsOwn == PSpec => [](HandlesOwned /\ NoLeak) /\ ReleasedByOwner
<1>1. PollInv => HandlesOwned /\ NoLeak
  BY DEF PollInv, IInv
<1>2. PollInv /\ [PNext]_pvars => [ReleaseStep]_svars
  <2> SUFFICES ASSUME PollInv, [PNext]_pvars PROVE [ReleaseStep]_svars
    OBVIOUS
  <2>1. CASE SocketNext
    BY <2>1, ReleaseKept DEF PollInv
  <2>2. CASE UNCHANGED <<fdt, sock>>
    BY <2>2 DEF ReleaseStep
  <2> QED BY <2>1, <2>2 DEF PNext, Poll, pvars, svars
<1> QED BY <1>1, <1>2, PollSetInvariant, PTL DEF PSpec, ReleasedByOwner, ReleaseStep

=============================================================================
