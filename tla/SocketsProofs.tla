--------------------------- MODULE SocketsProofs ---------------------------
(***************************************************************************)
(* Proofs about the socket layer: every structure's descriptor is its own, *)
(* for any set of structures, table size, ports and backlog.               *)
(***************************************************************************)
EXTENDS Sockets, TLAPS

\* The inductive invariant.  HandlesOwned alone is not inductive: creating a
\* descriptor must not leave the structure's previous one behind (NoLeak), and
\* closing one must not take it from another structure, which two structures
\* with the same handle above 0 would allow.
IInv == TypeOK /\ HandlesOwned /\ NoLeak

\* What a call does that neither makes nor closes a descriptor.
SameOwners ==
  /\ \A fd \in Fds : fdt'[fd].owner = fdt[fd].owner
  /\ \A s \in Socks : sock'[s].handle = sock[s].handle

-----------------------------------------------------------------------------
(* Types.                                                                  *)

LEMMA FileType ==
  ASSUME NEW o \in Socks \cup {Process, Nobody}, NEW k \in {"file", "stream", "dgram"},
         NEW f \in Families \cup {"none"}
  PROVE  File(o, k, f) \in Files
<1>1. 0 \in 0..Backlog
  BY SocketsAssumption
<1> QED
  BY <1>1 DEF File, Files, States

LEMMA InitType == Init => TypeOK
<1> SUFFICES ASSUME Init PROVE TypeOK
  OBVIOUS
<1>1. Free \in Files
  BY FileType DEF Free
<1>2. File(Process, "file", "none") \in Files
  BY FileType
<1>3. 0 \in Fds
  BY SocketsAssumption DEF Fds
<1> QED
  BY <1>1, <1>2, <1>3 DEF Init, TypeOK, NULL

LEMMA CreateType ==
  ASSUME TypeOK, NEW s \in Socks, NEW type, NEW family, NEW ret,
         SocketCreate(s, type, family, ret)
  PROVE  TypeOK'
<1>1. CASE ret = 0
  <2>1. family \in Families /\ SocketKind(type) \in {"stream", "dgram"} /\ errno' = errno
    BY <1>1 DEF SocketCreate, SocketKind
  <2>2. File(s, SocketKind(type), family) \in Files
    BY <2>1, FileType
  <2>3. PICK fd \in Fds :
          /\ fdt' = [fdt EXCEPT ![fd] = File(s, SocketKind(type), family)]
          /\ sock' = [sock EXCEPT ![s] = [handle |-> fd, blocking |-> TRUE]]
    BY <1>1 DEF SocketCreate
  <2> QED
    BY <2>1, <2>2, <2>3 DEF TypeOK
<1>2. CASE ret # 0
  <2>1. /\ fdt' = fdt /\ errno' = 1
        /\ sock' = [sock EXCEPT ![s] = [handle |-> -1, blocking |-> FALSE]]
    BY <1>2 DEF SocketCreate
  <2> QED
    BY <2>1 DEF TypeOK
<1> QED
  BY <1>1, <1>2

LEMMA CloseType ==
  ASSUME TypeOK, NEW s \in Socks, SocketClose(s)
  PROVE  TypeOK'
<1>1. Free \in Files
  BY FileType DEF Free
<1>2. 0 \in Fds
  BY SocketsAssumption DEF Fds
<1>3. fdt' \in [Fds -> Files] /\ errno' \in {0, 1}
  BY <1>1 DEF SocketClose, TypeOK
<1>4. sock' \in [Socks -> [handle : Fds \cup {-1}, blocking : BOOLEAN]]
  BY <1>2 DEF SocketClose, TypeOK, NULL
<1> QED
  BY <1>3, <1>4 DEF TypeOK

LEMMA SetBlockingType ==
  ASSUME TypeOK, NEW s \in Socks, NEW blocking \in BOOLEAN, SocketSetBlocking(s, blocking)
  PROVE  TypeOK' /\ SameOwners
<1>1. fdt' \in [Fds -> Files] /\ errno' \in {0, 1}
  <2>1. CASE IsOpen(Handle(s))
    <3>1. fdt' = [fdt EXCEPT ![Handle(s)] = [@ EXCEPT !.nonblock = ~blocking]]
      BY <2>1 DEF SocketSetBlocking
    <3>2. Handle(s) \in Fds /\ fdt[Handle(s)] \in Files
      BY <2>1 DEF IsOpen, TypeOK
    <3>3. [fdt[Handle(s)] EXCEPT !.nonblock = ~blocking] \in Files
      BY <3>2 DEF Files
    <3> QED
      BY <2>1, <3>1, <3>2, <3>3 DEF SocketSetBlocking, TypeOK
  <2>2. CASE ~IsOpen(Handle(s))
    BY <2>2 DEF SocketSetBlocking, TypeOK
  <2> QED
    BY <2>1, <2>2
<1>2. sock' \in [Socks -> [handle : Fds \cup {-1}, blocking : BOOLEAN]]
  BY DEF SocketSetBlocking, TypeOK
<1>3. SameOwners
  BY DEF SocketSetBlocking, TypeOK, SameOwners, Files, IsOpen
<1> QED
  BY <1>1, <1>2, <1>3 DEF TypeOK

\* One descriptor is given a new state and keeps its owner.
LEMMA UpdateOne ==
  ASSUME TypeOK, NEW fd \in Fds, NEW file \in Files, file.owner = fdt[fd].owner,
         fdt' = [fdt EXCEPT ![fd] = file], sock' = sock, errno' \in {0, 1}
  PROVE  TypeOK' /\ SameOwners
<1>1. fdt' \in [Fds -> Files]
  BY DEF TypeOK
<1>2. \A g \in Fds : fdt'[g].owner = fdt[g].owner
  BY DEF TypeOK
<1> QED
  BY <1>1, <1>2 DEF TypeOK, SameOwners

LEMMA UpdateNone ==
  ASSUME TypeOK, fdt' = fdt, sock' = sock, errno' \in {0, 1}
  PROVE  TypeOK' /\ SameOwners
BY DEF TypeOK, SameOwners

LEMMA DataType ==
  ASSUME TypeOK, NEW s \in Socks, NEW ret, SocketSend(s, ret) \/ SocketReceive(s, ret)
  PROVE  TypeOK' /\ SameOwners
<1>1. fdt' = fdt /\ sock' = sock /\ errno' \in {errno, 1}
  BY DEF SocketSend, SocketReceive
<1>2. errno' \in {0, 1}
  BY <1>1 DEF TypeOK
<1> QED
  BY <1>1, <1>2, UpdateNone

LEMMA BindType ==
  ASSUME TypeOK, NEW s \in Socks, NEW a \in Addrs, NEW ret, SocketBind(s, a, ret)
  PROVE  TypeOK' /\ SameOwners
<1> DEFINE fd == Handle(s)
<1>1. CASE NoFamily(a, ret)
  BY <1>1 DEF NoFamily, svars, TypeOK, SameOwners
<1>2. CASE ~NoFamily(a, ret) /\ ret = 0
  <2>1. PICK p \in Ports : fdt' = [fdt EXCEPT ![fd].port = p]
    BY <1>2 DEF SocketBind, BindPorts
  <2>2. fd \in Fds /\ sock' = sock /\ errno' = errno
    BY <1>2 DEF SocketBind, IsSocket, IsOpen
  <2>3. fdt[fd] \in Files /\ errno \in {0, 1}
    BY <2>2 DEF TypeOK
  <2>4. [fdt[fd] EXCEPT !.port = p] \in Files
    BY <2>3 DEF Files
  <2>5. [fdt[fd] EXCEPT !.port = p].owner = fdt[fd].owner
    BY <2>3 DEF Files
  <2>6. fdt' = [fdt EXCEPT ![fd] = [fdt[fd] EXCEPT !.port = p]]
    BY <2>1, <2>2 DEF TypeOK
  <2> QED
    BY <2>2, <2>3, <2>4, <2>5, <2>6, UpdateOne
<1>3. CASE ~NoFamily(a, ret) /\ ret # 0
  <2>1. fdt' = fdt /\ sock' = sock /\ errno' = 1
    BY <1>3 DEF SocketBind
  <2> QED
    BY <2>1, UpdateNone
<1> QED
  BY <1>1, <1>2, <1>3

LEMMA ListenType ==
  ASSUME TypeOK, NEW s \in Socks, NEW ret, SocketListen(s, ret)
  PROVE  TypeOK' /\ SameOwners
<1> DEFINE fd == Handle(s)
<1>1. CASE ret = 0
  <2>1. fd \in Fds /\ IsSocket(fd) /\ sock' = sock /\ errno' = errno
    BY <1>1 DEF SocketListen, ListenPorts, IsSocket, IsOpen
  <2>2. fdt[fd] \in Files /\ errno \in {0, 1}
    BY <2>1 DEF TypeOK
  <2>3. PICK p \in ListenPorts(fd) :
          fdt' = [fdt EXCEPT ![fd].state = "listening", ![fd].port = p]
    BY <1>1 DEF SocketListen
  <2>4. p \in Ports \cup {0}
    BY <2>1, <2>2, <2>3 DEF ListenPorts, BindPorts, Files
  <2> DEFINE file == [fdt[fd] EXCEPT !.state = "listening", !.port = p]
  <2>5. file \in Files /\ file.owner = fdt[fd].owner
    BY <2>2, <2>4 DEF Files, States
  <2>6. fdt' = [fdt EXCEPT ![fd] = file]
    BY <2>1, <2>3 DEF TypeOK
  <2> HIDE DEF file
  <2> QED
    BY <2>1, <2>2, <2>5, <2>6, UpdateOne
<1>2. CASE ret # 0
  <2>1. fdt' = fdt /\ sock' = sock /\ errno' = 1
    BY <1>2 DEF SocketListen
  <2> QED
    BY <2>1, UpdateNone
<1> QED
  BY <1>1, <1>2

\* A connection of fd is queued at a listening descriptor g with room.
LEMMA UpdateTwo ==
  ASSUME TypeOK, NEW fd \in Fds, NEW g \in Fds, NEW file \in Files,
         file.owner = fdt[fd].owner, file.pending = fdt[fd].pending, HasRoom(g),
         fdt' = [[fdt EXCEPT ![fd] = file] EXCEPT ![g].pending = @ + 1],
         sock' = sock, errno' \in {0, 1}
  PROVE  TypeOK' /\ SameOwners
<1> DEFINE mid == [fdt EXCEPT ![fd] = file]
           new == [mid[g] EXCEPT !.pending = mid[g].pending + 1]
<1>1. mid \in [Fds -> Files] /\ \A h \in Fds : mid[h].owner = fdt[h].owner
  BY DEF TypeOK
<1>2. mid[g] \in Files /\ mid[g].pending = fdt[g].pending
  BY DEF TypeOK
<1>3. new \in Files /\ new.owner = mid[g].owner
  BY <1>2, SocketsAssumption DEF HasRoom, Files
<1>4. fdt' = [mid EXCEPT ![g] = new]
  OBVIOUS
<1> HIDE DEF mid, new
<1>5. fdt' \in [Fds -> Files] /\ \A h \in Fds : fdt'[h].owner = mid[h].owner
  BY <1>1, <1>3, <1>4
<1> QED
  BY <1>1, <1>5 DEF TypeOK, SameOwners

LEMMA ConnectType ==
  ASSUME TypeOK, NEW s \in Socks, NEW a \in Addrs, NEW ret, SocketConnect(s, a, ret)
  PROVE  TypeOK' /\ SameOwners
<1> DEFINE fd == Handle(s)
           ok == IsSocket(fd) /\ fdt[fd].family = a.family
<1>1. CASE NoFamily(a, ret)
  BY <1>1 DEF NoFamily, svars, TypeOK, SameOwners
<1>2. CASE ~ok /\ sock' = sock /\ errno' = 1 /\ fdt' = fdt
  BY <1>2, UpdateNone
<1>3. ASSUME ok, sock' = sock,
             \/ ConnectDgram(fd, a, ret) \/ ConnectBlocking(fd, a, ret)
             \/ ConnectStart(fd, a, ret) \/ ConnectReport(fd, ret)
      PROVE  TypeOK' /\ SameOwners
  <2>1. fd \in Fds /\ fdt[fd] \in Files /\ errno \in {0, 1} /\ a.port \in Ports \cup {0}
    BY <1>3 DEF IsSocket, IsOpen, TypeOK, Addrs
  <2> DEFINE conn(st, p) == [fdt[fd] EXCEPT !.state = st, !.peer = p]
  <2>2. \A st \in States, p \in Ports \cup {0} :
          /\ conn(st, p) \in Files
          /\ conn(st, p).owner = fdt[fd].owner
          /\ conn(st, p).pending = fdt[fd].pending
    BY <2>1 DEF Files
  <2>3. \A st, p : [fdt EXCEPT ![fd].state = st, ![fd].peer = p]
                     = [fdt EXCEPT ![fd] = conn(st, p)]
    BY <2>1 DEF TypeOK
  <2>4. Connected(fd, a) = [fdt EXCEPT ![fd] = conn("connected", a.port)]
    BY <2>3 DEF Connected
  <2>5. {"idle", "connecting", "connected"} \subseteq States
    BY DEF States
  <2> HIDE DEF conn
  <2>6. CASE ConnectDgram(fd, a, ret)
    BY <1>3, <2>1, <2>2, <2>4, <2>5, <2>6, UpdateOne DEF ConnectDgram
  <2>7. CASE ConnectBlocking(fd, a, ret)
    <3>1. CASE fdt' = fdt /\ errno' = 1
      BY <1>3, <3>1, UpdateNone
    <3>2. CASE /\ \E g \in Fds : /\ HasRoom(g)
                                 /\ fdt' = [Connected(fd, a) EXCEPT ![g].pending = @ + 1]
               /\ errno' = errno
      <4>1. PICK g \in Fds : /\ HasRoom(g)
                             /\ fdt' = [Connected(fd, a) EXCEPT ![g].pending = @ + 1]
        BY <3>2
      <4> DEFINE file == conn("connected", a.port)
      <4>2. file \in Files /\ file.owner = fdt[fd].owner /\ file.pending = fdt[fd].pending
        BY <2>1, <2>2, <2>5
      <4>3. fdt' = [[fdt EXCEPT ![fd] = file] EXCEPT ![g].pending = @ + 1]
        BY <2>4, <4>1
      <4> HIDE DEF file
      <4> QED
        BY <1>3, <2>1, <3>2, <4>1, <4>2, <4>3, UpdateTwo
    <3> QED
      BY <2>7, <3>1, <3>2 DEF ConnectBlocking
  <2>8. CASE ConnectStart(fd, a, ret)
    <3> DEFINE file == conn("connecting", a.port)
    <3>1. fdt' = [fdt EXCEPT ![fd] = file] /\ errno' = 1
      BY <2>3, <2>8 DEF ConnectStart
    <3>2. file \in Files /\ file.owner = fdt[fd].owner
      BY <2>1, <2>2, <2>5
    <3> HIDE DEF file
    <3> QED
      BY <1>3, <2>1, <3>1, <3>2, UpdateOne
  <2>9. CASE ConnectReport(fd, ret)
    <3>1. CASE fdt' = fdt /\ errno' = 1
      BY <1>3, <3>1, UpdateNone
    <3>2. CASE fdt' = [fdt EXCEPT ![fd].state = "connected"] /\ errno' = errno
      <4>1. fdt' = [fdt EXCEPT ![fd] = conn("connected", fdt[fd].peer)]
        BY <2>1, <3>2 DEF conn, TypeOK, Files
      <4>2. fdt[fd].peer \in Ports \cup {0}
        BY <2>1 DEF Files
      <4> QED
        BY <1>3, <2>1, <2>2, <2>5, <3>2, <4>1, <4>2, UpdateOne
    <3>3. CASE fdt' = [fdt EXCEPT ![fd].state = "idle", ![fd].peer = 0] /\ errno' = 1
      <4> DEFINE file == conn("idle", 0)
      <4>1. fdt' = [fdt EXCEPT ![fd] = file]
        BY <2>3, <3>3
      <4>2. file \in Files /\ file.owner = fdt[fd].owner
        BY <2>2, <2>5
      <4> HIDE DEF file
      <4> QED
        BY <1>3, <2>1, <3>3, <4>1, <4>2, UpdateOne
    <3> QED
      BY <2>9, <3>1, <3>2, <3>3 DEF ConnectReport
  <2> QED
    BY <1>3, <2>6, <2>7, <2>8, <2>9
<1> QED
  BY <1>1, <1>2, <1>3 DEF SocketConnect

LEMMA ConnectDoneType ==
  ASSUME TypeOK, NEW fd \in Fds, ConnectDone(fd)
  PROVE  TypeOK' /\ SameOwners
<1>1. fdt[fd] \in Files /\ errno' \in {0, 1} /\ sock' = sock
  BY DEF ConnectDone, TypeOK
<1> DEFINE upd(st) == [fdt[fd] EXCEPT !.state = st]
<1>2. \A st \in States : /\ upd(st) \in Files
                         /\ upd(st).owner = fdt[fd].owner
                         /\ upd(st).pending = fdt[fd].pending
  BY <1>1 DEF Files
<1>3. \A st : [fdt EXCEPT ![fd].state = st] = [fdt EXCEPT ![fd] = upd(st)]
  BY DEF TypeOK
<1>4. {"established", "refused"} \subseteq States
  BY DEF States
<1> HIDE DEF upd
<1>5. CASE fdt' = [fdt EXCEPT ![fd].state = "refused"]
  <2> DEFINE file == upd("refused")
  <2>1. fdt' = [fdt EXCEPT ![fd] = file]
    BY <1>3, <1>5
  <2>2. file \in Files /\ file.owner = fdt[fd].owner
    BY <1>2, <1>4
  <2> HIDE DEF file
  <2> QED
    BY <1>1, <2>1, <2>2, UpdateOne
<1>6. CASE \E g \in Fds : /\ HasRoom(g)
                          /\ fdt' = [fdt EXCEPT ![fd].state = "established",
                                                ![g].pending = @ + 1]
  <2>1. PICK g \in Fds : /\ HasRoom(g)
                         /\ fdt' = [fdt EXCEPT ![fd].state = "established",
                                               ![g].pending = @ + 1]
    BY <1>6
  <2> DEFINE file == upd("established")
  <2> DEFINE mid == [fdt EXCEPT ![fd].state = "established"]
  <2>4. mid = [fdt EXCEPT ![fd] = file]
    BY <1>3
  <2>5. fdt' = [mid EXCEPT ![g].pending = @ + 1]
    BY <2>1
  <2> HIDE DEF mid
  <2>2. fdt' = [[fdt EXCEPT ![fd] = file] EXCEPT ![g].pending = @ + 1]
    BY <2>4, <2>5
  <2>3. file \in Files /\ file.owner = fdt[fd].owner /\ file.pending = fdt[fd].pending
    BY <1>2, <1>4
  <2> HIDE DEF file
  <2> QED
    BY <1>1, <2>1, <2>2, <2>3, UpdateTwo
<1> QED
  BY <1>5, <1>6 DEF ConnectDone

LEMMA AcceptType ==
  ASSUME TypeOK, NEW s \in Socks, NEW client \in Socks, NEW ret,
         SocketAccept(s, client, ret)
  PROVE  TypeOK'
<1> DEFINE fd == Handle(s)
<1>1. CASE ret = 0
  <2>1. fd \in Fds /\ fdt[fd] \in Files /\ fdt[fd].pending > 0 /\ errno' = errno
    BY <1>1 DEF SocketAccept, IsSocket, IsOpen, TypeOK
  <2> DEFINE file == [File(client, "stream", fdt[fd].family) EXCEPT
                        !.state = "connected", !.port = fdt[fd].port]
             less == [fdt[fd] EXCEPT !.pending = @ - 1]
  <2>2. PICK new \in Fds :
          /\ fdt' = [fdt EXCEPT ![fd].pending = @ - 1, ![new] = file]
          /\ sock' = [sock EXCEPT ![client].handle = new]
    BY <1>1 DEF SocketAccept
  <2>3. file \in Files
    <3>1. File(client, "stream", fdt[fd].family) \in Files
      BY <2>1, FileType DEF Files
    <3> QED
      BY <2>1, <3>1 DEF Files, States
  <2>4. less \in Files
    BY <2>1, SocketsAssumption DEF Files
  <2>5. fdt' = [[fdt EXCEPT ![fd] = less] EXCEPT ![new] = file]
    BY <2>2
  <2> HIDE DEF file, less
  <2>6. fdt' \in [Fds -> Files]
    BY <2>1, <2>3, <2>4, <2>5 DEF TypeOK
  <2>7. sock' \in [Socks -> [handle : Fds \cup {-1}, blocking : BOOLEAN]]
    BY <2>2 DEF TypeOK
  <2> QED
    BY <2>1, <2>6, <2>7 DEF TypeOK
<1>2. CASE ret # 0
  <2>1. fdt' = fdt /\ sock' = sock /\ errno' = 1
    BY <1>2 DEF SocketAccept
  <2> QED
    BY <2>1, UpdateNone
<1> QED
  BY <1>1, <1>2

-----------------------------------------------------------------------------
(* Owners.  Three calls make or close a descriptor.                        *)

\* Structure s gets descriptor new, which was free, and every other structure
\* keeps what it had.
LEMMA NewDescriptor ==
  ASSUME IInv, NEW s \in Socks, ~Holds(s), NEW new \in Fds, ~IsOpen(new),
         \A fd \in Fds : fdt'[fd].owner = IF fd = new THEN s ELSE fdt[fd].owner,
         \A t \in Socks : sock'[t].handle = IF t = s THEN new ELSE sock[t].handle
  PROVE  HandlesOwned' /\ NoLeak'
<1>1. ASSUME NEW t \in Socks, Handle(t)' > 0
      PROVE  fdt'[Handle(t)'].owner = t
  <2>1. CASE t = s
    BY <2>1 DEF Handle
  <2>2. CASE t # s
    <3>1. Handle(t)' = Handle(t) /\ Handle(t) > 0
      BY <1>1, <2>2 DEF Handle
    <3>2. Handle(t) \in Fds /\ fdt[Handle(t)].owner = t
      BY <3>1 DEF IInv, HandlesOwned, TypeOK, Handle, Fds
    <3>3. Handle(t) # new
      BY <3>2, SocketsAssumption DEF IsOpen
    <3> QED
      BY <3>1, <3>2, <3>3
  <2> QED
    BY <2>1, <2>2
<1>2. ASSUME NEW fd \in Fds, NEW t \in Socks, fdt'[fd].owner = t
      PROVE  Handle(t)' = fd
  <2>1. CASE fd = new
    BY <1>2, <2>1 DEF Handle
  <2>2. CASE fd # new
    BY <1>2, <2>2 DEF Holds, IInv, NoLeak, Handle
  <2> QED
    BY <2>1, <2>2
<1> QED
  BY <1>1, <1>2 DEF HandlesOwned, NoLeak

LEMMA CreateOwners ==
  ASSUME IInv, NEW s \in Socks, ~Holds(s), NEW type, NEW family, NEW ret,
         SocketCreate(s, type, family, ret)
  PROVE  HandlesOwned' /\ NoLeak'
<1>1. CASE ret = 0
  <2>1. PICK fd \in Fds :
          /\ ~IsOpen(fd)
          /\ fdt' = [fdt EXCEPT ![fd] = File(s, SocketKind(type), family)]
          /\ sock' = [sock EXCEPT ![s] = [handle |-> fd, blocking |-> TRUE]]
    BY <1>1 DEF SocketCreate, Lowest
  <2>2. File(s, SocketKind(type), family).owner = s
    BY DEF File
  <2> QED
    BY <2>1, <2>2, NewDescriptor DEF IInv, TypeOK
<1>2. CASE ret # 0
  <2>1. /\ fdt' = fdt
        /\ sock' = [sock EXCEPT ![s] = [handle |-> -1, blocking |-> FALSE]]
    BY <1>2 DEF SocketCreate
  <2> QED
    BY <2>1 DEF IInv, TypeOK, HandlesOwned, NoLeak, Holds, Handle
<1> QED
  BY <1>1, <1>2

LEMMA AcceptOwners ==
  ASSUME IInv, NEW s \in Socks, NEW client \in Socks, ~Holds(client), NEW ret,
         SocketAccept(s, client, ret)
  PROVE  HandlesOwned' /\ NoLeak'
<1> DEFINE fd == Handle(s)
<1>1. CASE ret = 0
  <2>1. fd \in Fds /\ fdt[fd] \in Files /\ IsOpen(fd)
    BY <1>1 DEF SocketAccept, IsSocket, IsOpen, IInv, TypeOK
  <2>2. PICK new \in Fds :
          /\ ~IsOpen(new)
          /\ fdt' = [fdt EXCEPT ![fd].pending = @ - 1,
                       ![new] = [File(client, "stream", fdt[fd].family) EXCEPT
                                   !.state = "connected", !.port = fdt[fd].port]]
          /\ sock' = [sock EXCEPT ![client].handle = new]
    BY <1>1 DEF SocketAccept, Lowest
  <2>3. \A g \in Fds : fdt'[g].owner = IF g = new THEN client ELSE fdt[g].owner
    BY <2>1, <2>2 DEF File, IInv, TypeOK, Files
  <2>4. \A t \in Socks : sock'[t].handle = IF t = client THEN new ELSE sock[t].handle
    BY <2>2 DEF IInv, TypeOK
  <2> QED
    BY <2>2, <2>3, <2>4, NewDescriptor
<1>2. CASE ret # 0
  BY <1>2 DEF SocketAccept, IInv, HandlesOwned, NoLeak, Handle
<1> QED
  BY <1>1, <1>2

LEMMA CloseOwners ==
  ASSUME IInv, NEW s \in Socks, SocketClose(s)
  PROVE  HandlesOwned' /\ NoLeak'
<1>1. \A t \in Socks : sock'[t].handle = IF t = s THEN NULL ELSE sock[t].handle
  BY DEF SocketClose, IInv, TypeOK
<1>2. \A fd \in Fds : fdt'[fd].owner = IF fd = Handle(s) THEN Nobody ELSE fdt[fd].owner
  <2>1. CASE IsOpen(Handle(s))
    BY <2>1 DEF SocketClose, Free, File, IInv, TypeOK
  <2>2. CASE ~IsOpen(Handle(s))
    BY <2>2 DEF SocketClose, IsOpen
  <2> QED
    BY <2>1, <2>2
<1>3. ASSUME NEW t \in Socks, Handle(t)' > 0
      PROVE  fdt'[Handle(t)'].owner = t
  <2>1. t # s /\ Handle(t)' = Handle(t)
    BY <1>1, <1>3 DEF Handle, NULL
  <2>2. Handle(t) \in Fds /\ fdt[Handle(t)].owner = t
    BY <1>3, <2>1 DEF IInv, HandlesOwned, TypeOK, Handle, Fds
  <2>3. Handle(t) # Handle(s)
    BY <1>3, <2>1, <2>2 DEF IInv, HandlesOwned
  <2> QED
    BY <1>2, <2>1, <2>2, <2>3
<1>4. ASSUME NEW fd \in Fds, NEW t \in Socks, fdt'[fd].owner = t
      PROVE  Handle(t)' = fd
  <2>1. fd # Handle(s) /\ fdt[fd].owner = t
    BY <1>2, <1>4, SocketsAssumption
  <2>2. Handle(t) = fd
    BY <2>1 DEF IInv, NoLeak
  <2> QED
    BY <1>1, <2>1, <2>2 DEF Handle
<1> QED
  BY <1>3, <1>4 DEF HandlesOwned, NoLeak

LEMMA ZeroKeeps ==
  ASSUME IInv, NEW s \in Socks, SocketZero(s)
  PROVE  IInv' /\ fdt' = fdt
<1>1. fdt' = fdt /\ errno' = errno /\ ~Holds(s)
  BY DEF SocketZero
<1>2. sock' \in [Socks -> [handle : Fds \cup {-1}, blocking : BOOLEAN]]
  BY SocketsAssumption DEF SocketZero, IInv, TypeOK, Fds, NULL
<1>3. \A t \in Socks : sock'[t].handle = IF t = s THEN NULL ELSE sock[t].handle
  BY DEF SocketZero, IInv, TypeOK
<1>4. HandlesOwned'
  BY <1>1, <1>3 DEF IInv, HandlesOwned, Handle, NULL
<1>5. NoLeak'
  BY <1>1, <1>3 DEF IInv, NoLeak, Handle, Holds
<1> QED
  BY <1>1, <1>2, <1>4, <1>5 DEF IInv, TypeOK

LEMMA SameOwnersKeep ==
  ASSUME IInv, SameOwners
  PROVE  HandlesOwned' /\ NoLeak'
BY DEF IInv, SameOwners, TypeOK, HandlesOwned, NoLeak, Handle, Fds

-----------------------------------------------------------------------------
(* The invariant is inductive.                                             *)

LEMMA InitIInv == Init => IInv
<1> SUFFICES ASSUME Init PROVE IInv
  OBVIOUS
<1>1. TypeOK
  BY InitType
<1>2. HandlesOwned
  BY DEF Init, HandlesOwned, Handle, NULL
<1>3. NoLeak
  BY SocketsAssumption DEF Init, NoLeak, File, Free, Fds
<1> QED
  BY <1>1, <1>2, <1>3 DEF IInv

LEMMA OpIInv ==
  ASSUME IInv, NEW s \in Socks, NEW ret \in {0, -1}, SocketOp(s, ret)
  PROVE  IInv'
<1> USE DEF IInv
<1>1. CASE \E type \in Types, family \in Families \cup {"none"} :
             ~Holds(s) /\ SocketCreate(s, type, family, ret)
  BY <1>1, CreateType, CreateOwners
<1>2. CASE \E a \in Addrs : SocketBind(s, a, ret)
  BY <1>2, BindType, SameOwnersKeep
<1>3. CASE \E a \in Addrs : SocketConnect(s, a, ret)
  BY <1>3, ConnectType, SameOwnersKeep
<1>4. CASE SocketListen(s, ret)
  BY <1>4, ListenType, SameOwnersKeep
<1>5. CASE \E client \in Socks : ~Holds(client) /\ SocketAccept(s, client, ret)
  BY <1>5, AcceptType, AcceptOwners
<1>6. CASE SocketSend(s, ret) \/ SocketReceive(s, ret)
  BY <1>6, DataType, SameOwnersKeep
<1> QED
  BY <1>1, <1>2, <1>3, <1>4, <1>5, <1>6 DEF SocketOp

LEMMA NextIInv == IInv /\ [SocketNext]_svars => IInv'
<1> SUFFICES ASSUME IInv, [SocketNext]_svars PROVE IInv'
  OBVIOUS
<1>1. CASE \E s \in Socks : SocketClose(s)
  BY <1>1, CloseType, CloseOwners DEF IInv
<1>6. CASE \E s \in Socks : SocketZero(s)
  BY <1>6, ZeroKeeps
<1>2. CASE \E s \in Socks, blocking \in BOOLEAN : SocketSetBlocking(s, blocking)
  BY <1>2, SetBlockingType, SameOwnersKeep DEF IInv
<1>3. CASE \E s \in Socks, ret \in {0, -1} : SocketOp(s, ret)
  BY <1>3, OpIInv
<1>4. CASE \E fd \in Fds : ConnectDone(fd)
  BY <1>4, ConnectDoneType, SameOwnersKeep DEF IInv
<1>5. CASE UNCHANGED svars
  BY <1>5 DEF svars, IInv, TypeOK, HandlesOwned, NoLeak, Handle
<1> QED
  BY <1>1, <1>2, <1>3, <1>4, <1>5, <1>6 DEF SocketNext

\* In every program over the socket layer the inductive invariant holds.
THEOREM SocketInvariant == SocketSpec => []IInv
BY InitIInv, NextIInv, PTL DEF SocketSpec

\* Every variable of the socket layer keeps its type (socket.c).
THEOREM SocketTypes == SocketSpec => []TypeOK
<1>1. IInv => TypeOK
  BY DEF IInv
<1> QED
  BY <1>1, SocketInvariant, PTL

\* A handle above 0 always names a descriptor made for its structure: however
\* often structures are closed, socket.c never works on another's through it.
THEOREM OwnHandles == SocketSpec => []HandlesOwned
<1>1. IInv => HandlesOwned
  BY DEF IInv
<1> QED
  BY <1>1, SocketInvariant, PTL

\* No descriptor that create or accept made is lost before it is closed.
THEOREM NoLostDescriptor == SocketSpec => []NoLeak
<1>1. IInv => NoLeak
  BY DEF IInv
<1> QED
  BY <1>1, SocketInvariant, PTL

-----------------------------------------------------------------------------
(* Descriptors above 0 are released by the close of their own structure.   *)

\* What ReleasedByOwner says of one step.
ReleaseStep ==
  \A fd \in Fds \ {0} :
    fdt[fd].owner \in Socks /\ fdt'[fd].owner # fdt[fd].owner =>
      /\ sock[fdt[fd].owner].handle = fd
      /\ sock'[fdt[fd].owner].handle = NULL

LEMMA CloseReleases ==
  ASSUME IInv, NEW s \in Socks, SocketClose(s)
  PROVE  ReleaseStep
<1> SUFFICES ASSUME NEW fd \in Fds \ {0}, fdt'[fd].owner # fdt[fd].owner
             PROVE  /\ fdt[fd].owner = s
                    /\ sock[s].handle = fd
                    /\ sock'[s].handle = NULL
  BY DEF ReleaseStep
<1>1. fd = Handle(s) /\ fd > 0
  <2>1. fd > 0
    BY SocketsAssumption DEF Fds
  <2>2. fd = Handle(s)
    BY DEF SocketClose, IInv, TypeOK
  <2> QED
    BY <2>1, <2>2
<1>2. fdt[fd].owner = s
  BY <1>1 DEF IInv, HandlesOwned
<1>3. sock'[s].handle = NULL
  BY DEF SocketClose, IInv, TypeOK
<1> QED
  BY <1>1, <1>2, <1>3 DEF Handle

LEMMA OpReleases ==
  ASSUME IInv, NEW s \in Socks, NEW ret \in {0, -1}, SocketOp(s, ret)
  PROVE  ReleaseStep
<1> SUFFICES ASSUME NEW fd \in Fds, fdt[fd].owner \in Socks
             PROVE  fdt'[fd].owner = fdt[fd].owner
  BY DEF ReleaseStep
<1>0. IsOpen(fd) /\ TypeOK
  BY SocketsAssumption DEF IsOpen, IInv
<1>1. CASE \E type \in Types, family \in Families \cup {"none"} :
             SocketCreate(s, type, family, ret)
  BY <1>0, <1>1 DEF SocketCreate, Lowest, TypeOK
<1>2. CASE \E a \in Addrs : SocketBind(s, a, ret)
  BY <1>0, <1>2, BindType DEF SameOwners
<1>3. CASE \E a \in Addrs : SocketConnect(s, a, ret)
  BY <1>0, <1>3, ConnectType DEF SameOwners
<1>4. CASE SocketListen(s, ret)
  BY <1>0, <1>4, ListenType DEF SameOwners
<1>5. ASSUME NEW client \in Socks, SocketAccept(s, client, ret)
      PROVE  fdt'[fd].owner = fdt[fd].owner
  <2>1. CASE ret = 0
    <3>1. PICK new \in Fds :
            /\ ~IsOpen(new)
            /\ fdt' = [fdt EXCEPT ![Handle(s)].pending = @ - 1,
                         ![new] = [File(client, "stream", fdt[Handle(s)].family) EXCEPT
                                     !.state = "connected", !.port = fdt[Handle(s)].port]]
      BY <1>5, <2>1 DEF SocketAccept, Lowest
    <3> QED
      BY <1>0, <3>1 DEF TypeOK, Files
  <2>2. CASE ret # 0
    BY <1>5, <2>2 DEF SocketAccept
  <2> QED
    BY <2>1, <2>2
<1>6. CASE SocketSend(s, ret) \/ SocketReceive(s, ret)
  BY <1>0, <1>6, DataType DEF SameOwners
<1> QED
  BY <1>1, <1>2, <1>3, <1>4, <1>5, <1>6 DEF SocketOp

LEMMA ReleaseKept == IInv /\ SocketNext => ReleaseStep
<1> SUFFICES ASSUME IInv, SocketNext PROVE ReleaseStep
  OBVIOUS
<1>1. CASE \E s \in Socks : SocketClose(s)
  BY <1>1, CloseReleases
<1>2. CASE \E s \in Socks : SocketZero(s)
  BY <1>2, ZeroKeeps DEF ReleaseStep
<1>3. CASE \E s \in Socks, blocking \in BOOLEAN : SocketSetBlocking(s, blocking)
  BY <1>3, SetBlockingType DEF SameOwners, ReleaseStep, IInv
<1>4. CASE \E s \in Socks, ret \in {0, -1} : SocketOp(s, ret)
  BY <1>4, OpReleases
<1>5. CASE \E fd \in Fds : ConnectDone(fd)
  BY <1>5, ConnectDoneType DEF SameOwners, ReleaseStep, IInv
<1> QED
  BY <1>1, <1>2, <1>3, <1>4, <1>5 DEF SocketNext

\* No call on one structure closes a descriptor above 0 of another.
THEOREM Released == SocketSpec => ReleasedByOwner
<1>1. IInv /\ [SocketNext]_svars => [ReleaseStep]_svars
  BY ReleaseKept
<1>2. SocketSpec => [][ReleaseStep]_svars
  BY <1>1, SocketInvariant, PTL DEF SocketSpec
<1> QED
  BY <1>2 DEF ReleasedByOwner, ReleaseStep

=============================================================================
