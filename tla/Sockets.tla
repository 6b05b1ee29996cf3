------------------------------- MODULE Sockets -------------------------------
(***************************************************************************)
(* The socket layer of fossil-network (code/logic/socket.c, POSIX build):  *)
(* socket structures (fossil_net_socket_t) over the descriptor table of    *)
(* one process.                                                            *)
(*                                                                         *)
(* An operation is an action with the value the C function returns as its  *)
(* last parameter, so that the client and server layers can compose it:    *)
(* SocketConnect(s, a, -1) is "the call fails", SocketConnect(s, a, 0) is  *)
(* "the call succeeds".  A call is atomic: on the state that callers       *)
(* share, the descriptor table, each makes at most one change (what accept *)
(* does to the status flags on its way is the subject of AcceptFlags).     *)
(*                                                                         *)
(* The table belongs to the operating system and is modelled from how      *)
(* socket.c uses it.  A descriptor remembers, as history, the structure it *)
(* was made for (its owner); no action reads that.                         *)
(***************************************************************************)
EXTENDS Integers

CONSTANTS
  Socks,    \* the socket structures of the program
  Families, \* the address families the host has, of ipv4 and ipv6
  MaxFd,    \* descriptors are 0..MaxFd; 0 is standard input at the start
  Ports,    \* the ports of the (one) host address
  Backlog,  \* how many connections a listening socket queues
  Process,  \* owner of the descriptors the process was started with
  Nobody    \* owner of a descriptor that is not in use

ASSUME SocketsAssumption ==
  /\ "none" \notin Families
  /\ MaxFd \in Nat
  /\ Ports \subseteq Nat \ {0}
  /\ Backlog \in Nat \ {0}
  /\ Process \notin Socks
  /\ Nobody \notin Socks
  /\ Process # Nobody

VARIABLES
  fdt,    \* the descriptor table: what each descriptor refers to
  sock,   \* the fields of each structure that some function reads back
  errno   \* 0, or 1 for any error code

svars == <<fdt, sock, errno>>

-----------------------------------------------------------------------------
Fds      == 0..MaxFd
\* fossil_net_address_t.  Family "none" is an address that failed to parse or
\* to resolve; port 0 asks bind for any port.
Addrs    == [family : Families \cup {"none"}, port : Ports \cup {0}]

\* What a descriptor refers to.  kind "file" is not a socket.  A stream
\* socket is connecting after a non-blocking connect, then established or
\* refused until the next call of connect reports it.
States == {"idle", "listening", "connecting", "established", "refused", "connected"}
Files  ==
  [owner : Socks \cup {Process, Nobody}, kind : {"file", "stream", "dgram"},
   family : Families \cup {"none"}, nonblock : BOOLEAN, state : States,
   port : Ports \cup {0}, peer : Ports \cup {0}, pending : 0..Backlog]

File(o, k, f) ==
  [owner |-> o, kind |-> k, family |-> f, nonblock |-> FALSE,
   state |-> "idle", port |-> 0, peer |-> 0, pending |-> 0]

Free     == File(Nobody, "file", "none")
IsOpen(fd)   == fd \in Fds /\ fdt[fd].owner # Nobody
IsSocket(fd) == IsOpen(fd) /\ fdt[fd].kind # "file"
Lowest(fd)   == /\ fd \in Fds
                /\ ~IsOpen(fd)
                /\ \A g \in Fds : ~IsOpen(g) => fd <= g
TableFull    == \A fd \in Fds : IsOpen(fd)

\* The NULL that close stores in a handle is descriptor 0.
NULL == 0
Handle(s) == sock[s].handle
Holds(s)  == \E fd \in Fds : fdt[fd].owner = s

\* The ports a bind to address a may give to descriptor fd.
BindPorts(fd, a) ==
  {p \in Ports : /\ a.port \in {0, p}
                 /\ \A g \in Fds : ~( /\ IsSocket(g)
                                      /\ fdt[g].kind = fdt[fd].kind
                                      /\ fdt[g].family = fdt[fd].family
                                      /\ fdt[g].port = p )}

\* g listens where a connect of fd to address a goes.
ListensAt(g, fd, a) ==
  /\ IsSocket(g) /\ fdt[g].state = "listening"
  /\ fdt[g].family = fdt[fd].family /\ fdt[g].port = a.port
HasRoom(g) == fdt[g].pending < Backlog

-----------------------------------------------------------------------------
\* Mutant: an unknown type is passed on as it is.
SocketKindUnchecked(type) ==
  CASE type = "udp" -> "dgram" [] type = "raw" -> "raw"
    [] type = "tcp" -> "stream" [] OTHER -> type

(* family_from_string and type_from_string: an unknown type is a stream,   *)
(* an unknown family is AF_UNSPEC, which socket() refuses.                 *)
SocketKind(type) == CASE type = "udp" -> "dgram" [] type = "raw" -> "raw" [] OTHER -> "stream"

\* socket() refuses a raw socket of protocol 0, the only one the library asks for.
SocketCreate(s, type, family, ret) ==
  \/ /\ ret = 0
     /\ SocketKind(type) # "raw" /\ family \in Families
     /\ \E fd \in Fds :
          /\ Lowest(fd)
          /\ fdt' = [fdt EXCEPT ![fd] = File(s, SocketKind(type), family)]
          /\ sock' = [sock EXCEPT ![s] = [handle |-> fd, blocking |-> TRUE]]
     /\ UNCHANGED errno
  \/ /\ ret = -1
     /\ SocketKind(type) = "raw" \/ family \notin Families \/ TableFull
     /\ sock' = [sock EXCEPT ![s] = [handle |-> -1, blocking |-> FALSE]]
     /\ errno' = 1
     /\ UNCHANGED fdt

\* Mutant: the handle is not reset.
SocketCloseKeepsHandle(s) ==
  /\ IF IsOpen(Handle(s))
     THEN fdt' = [fdt EXCEPT ![Handle(s)] = Free] /\ UNCHANGED errno
     ELSE errno' = 1 /\ UNCHANGED fdt
  /\ UNCHANGED sock

\* Always returns 0: the result of close() is not looked at.
SocketClose(s) ==
  /\ IF IsOpen(Handle(s))
     THEN fdt' = [fdt EXCEPT ![Handle(s)] = Free] /\ UNCHANGED errno
     ELSE errno' = 1 /\ UNCHANGED fdt
  /\ sock' = [sock EXCEPT ![s].handle = NULL]

\* Mutant: the mode is not recorded.
SocketSetBlockingUnrecorded(s, blocking) ==
  /\ IF IsOpen(Handle(s))
     THEN fdt' = [fdt EXCEPT ![Handle(s)].nonblock = ~blocking] /\ UNCHANGED errno
     ELSE errno' = 1 /\ UNCHANGED fdt
  /\ UNCHANGED sock

\* Always returns 0: the results of fcntl() are not looked at.
SocketSetBlocking(s, blocking) ==
  /\ IF IsOpen(Handle(s))
     THEN fdt' = [fdt EXCEPT ![Handle(s)].nonblock = ~blocking] /\ UNCHANGED errno
     ELSE errno' = 1 /\ UNCHANGED fdt
  /\ sock' = [sock EXCEPT ![s].blocking = blocking]

\* An address without a family fails before any system call: errno stays.
NoFamily(a, ret) == a.family = "none" /\ ret = -1 /\ UNCHANGED svars

SocketBind(s, a, ret) ==
  LET fd == Handle(s)
      ok == /\ IsSocket(fd) /\ fdt[fd].family = a.family
            /\ fdt[fd].port = 0 /\ fdt[fd].state = "idle"
            /\ BindPorts(fd, a) # {}
  IN \/ NoFamily(a, ret)
     \/ /\ a.family # "none"
        /\ UNCHANGED sock
        /\ \/ /\ ok /\ ret = 0
              /\ \E p \in BindPorts(fd, a) : fdt' = [fdt EXCEPT ![fd].port = p]
              /\ UNCHANGED errno
           \/ ~ok /\ ret = -1 /\ errno' = 1 /\ UNCHANGED fdt

\* listen() gives a port to a socket that has none.
ListenPorts(fd) ==
  IF ~IsSocket(fd) THEN {}
  ELSE IF fdt[fd].port # 0 THEN {fdt[fd].port}
  ELSE BindPorts(fd, [family |-> fdt[fd].family, port |-> 0])

SocketListen(s, ret) ==
  LET fd == Handle(s)
      ok == /\ ListenPorts(fd) # {} /\ fdt[fd].kind = "stream"
            /\ fdt[fd].state \in {"idle", "listening"}
  IN /\ UNCHANGED sock
     /\ \/ /\ ok /\ ret = 0
           /\ \E p \in ListenPorts(fd) :
                fdt' = [fdt EXCEPT ![fd].state = "listening", ![fd].port = p]
           /\ UNCHANGED errno
        \/ ~ok /\ ret = -1 /\ errno' = 1 /\ UNCHANGED fdt

\* Mutant: the new descriptor is not stored.
SocketAcceptForgets(server, client, ret) ==
  /\ ret = 0
  /\ IsSocket(Handle(server)) /\ fdt[Handle(server)].pending > 0
  /\ \E new \in Fds :
       /\ Lowest(new)
       /\ fdt' = [fdt EXCEPT ![Handle(server)].pending = @ - 1,
                    ![new] = File(client, "stream", fdt[Handle(server)].family)]
  /\ UNCHANGED <<sock, errno>>

\* accept is called non-blocking whatever the mode of the server, and fills in
\* only the handle of the client structure.
SocketAccept(server, client, ret) ==
  LET fd == Handle(server)
      ok == /\ IsSocket(fd) /\ fdt[fd].state = "listening"
            /\ fdt[fd].pending > 0 /\ ~TableFull
  IN \/ /\ ok /\ ret = 0
        /\ \E new \in Fds :
             /\ Lowest(new)
             /\ fdt' = [fdt EXCEPT ![fd].pending = @ - 1,
                          ![new] = [File(client, "stream", fdt[fd].family) EXCEPT
                                      !.state = "connected", !.port = fdt[fd].port]]
             /\ sock' = [sock EXCEPT ![client].handle = new]
        /\ UNCHANGED errno
     \/ ~ok /\ ret = -1 /\ errno' = 1 /\ UNCHANGED <<fdt, sock>>

(* Data, of which the model keeps only whether a call may succeed; Exchange *)
(* says what arrives.                                                      *)
HasPeer(fd) == IsSocket(fd) /\ fdt[fd].state \in {"established", "connected"}

SocketSend(s, ret) ==
  /\ UNCHANGED <<fdt, sock>>
  /\ \/ ret = 0 /\ HasPeer(Handle(s)) /\ UNCHANGED errno
     \/ ret = -1 /\ errno' = 1

SocketReceive(s, ret) ==
  LET fd == Handle(s)
  IN /\ UNCHANGED <<fdt, sock>>
     /\ \/ /\ ret = 0
           /\ HasPeer(fd) \/ (IsSocket(fd) /\ fdt[fd].kind = "dgram")
           /\ UNCHANGED errno
        \/ ret = -1 /\ errno' = 1

-----------------------------------------------------------------------------
(* connect.  A blocking connect of a stream waits for the connection, and  *)
(* gives up when nobody takes it; a non-blocking one fails with            *)
(* EINPROGRESS and leaves the connection to the kernel.                    *)
Connected(fd, a) == [fdt EXCEPT ![fd].state = "connected", ![fd].peer = a.port]

ConnectDgram(fd, a, ret) ==
  /\ fdt[fd].kind = "dgram"
  /\ ret = 0 /\ fdt' = Connected(fd, a) /\ UNCHANGED errno

ConnectBlocking(fd, a, ret) ==
  /\ fdt[fd].kind = "stream" /\ fdt[fd].state = "idle" /\ ~fdt[fd].nonblock
  /\ \/ /\ ret = 0
        /\ \E g \in Fds : /\ ListensAt(g, fd, a) /\ HasRoom(g)
                          /\ fdt' = [Connected(fd, a) EXCEPT ![g].pending = @ + 1]
        /\ UNCHANGED errno
     \/ /\ ret = -1
        /\ ~ \E g \in Fds : ListensAt(g, fd, a) /\ HasRoom(g)
        /\ errno' = 1 /\ UNCHANGED fdt

ConnectStart(fd, a, ret) ==
  /\ fdt[fd].kind = "stream" /\ fdt[fd].state = "idle" /\ fdt[fd].nonblock
  /\ fdt' = [fdt EXCEPT ![fd].state = "connecting", ![fd].peer = a.port]
  /\ ret = -1 /\ errno' = 1

\* The next connect reports what became of the one in progress, after waiting
\* for it if the socket has been made blocking since.  It ignores its address.
ConnectReport(fd, ret) ==
  /\ fdt[fd].kind = "stream"
  /\ \/ /\ fdt[fd].state = "established" /\ ret = 0
        /\ fdt' = [fdt EXCEPT ![fd].state = "connected"] /\ UNCHANGED errno
     \/ /\ fdt[fd].state = "refused" /\ ret = -1
        /\ fdt' = [fdt EXCEPT ![fd].state = "idle", ![fd].peer = 0] /\ errno' = 1
     \/ /\ \/ fdt[fd].state \in {"connected", "listening"}
           \/ fdt[fd].state = "connecting" /\ fdt[fd].nonblock
        /\ ret = -1 /\ errno' = 1 /\ UNCHANGED fdt

SocketConnect(s, a, ret) ==
  LET fd == Handle(s)
      ok == IsSocket(fd) /\ fdt[fd].family = a.family
  IN \/ NoFamily(a, ret)
     \/ /\ a.family # "none"
        /\ UNCHANGED sock
        /\ \/ ok /\ ConnectDgram(fd, a, ret)
           \/ ok /\ ConnectBlocking(fd, a, ret)
           \/ ok /\ ConnectStart(fd, a, ret)
           \/ ok /\ ConnectReport(fd, ret)
           \/ ~ok /\ ret = -1 /\ errno' = 1 /\ UNCHANGED fdt

\* The kernel finishes a connection in progress.
ConnectDone(fd) ==
  LET a == [family |-> fdt[fd].family, port |-> fdt[fd].peer]
  IN /\ IsSocket(fd) /\ fdt[fd].state = "connecting"
     /\ \/ \E g \in Fds : /\ ListensAt(g, fd, a) /\ HasRoom(g)
                          /\ fdt' = [fdt EXCEPT ![fd].state = "established",
                                                ![g].pending = @ + 1]
        \/ /\ ~ \E g \in Fds : ListensAt(g, fd, a) /\ HasRoom(g)
           /\ fdt' = [fdt EXCEPT ![fd].state = "refused"]
     /\ UNCHANGED <<sock, errno>>

-----------------------------------------------------------------------------
(* Programs that call the socket functions themselves.  A structure that   *)
(* holds a descriptor is not given another one, and a structure used with  *)
(* the socket functions has been through create, accept or zeroing.        *)
Types == {"tcp", "udp", "raw", "other"}

Init ==
  /\ fdt = [fd \in Fds |-> IF fd = 0 THEN File(Process, "file", "none") ELSE Free]
  /\ sock = [s \in Socks |-> [handle |-> NULL, blocking |-> FALSE]]
  /\ errno = 0

SocketOp(s, ret) ==
  \/ \E type \in Types, family \in Families \cup {"none"} :
       ~Holds(s) /\ SocketCreate(s, type, family, ret)
  \/ \E a \in Addrs : SocketBind(s, a, ret) \/ SocketConnect(s, a, ret)
  \/ SocketListen(s, ret)
  \/ SocketSend(s, ret)
  \/ SocketReceive(s, ret)
  \/ \E client \in Socks : ~Holds(client) /\ SocketAccept(s, client, ret)

\* A structure is cleared before its first use: the C++ Socket() does it, and C
\* programs with an initialiser.
SocketZero(s) ==
  /\ ~Holds(s)
  /\ sock' = [sock EXCEPT ![s] = [handle |-> NULL, blocking |-> FALSE]]
  /\ UNCHANGED <<fdt, errno>>

SocketNext ==
  \/ \E s \in Socks : SocketClose(s) \/ SocketZero(s)
  \/ \E s \in Socks, blocking \in BOOLEAN : SocketSetBlocking(s, blocking)
  \/ \E s \in Socks, ret \in {0, -1} : SocketOp(s, ret)
  \/ \E fd \in Fds : ConnectDone(fd)

SocketSpec == Init /\ [][SocketNext]_svars

-----------------------------------------------------------------------------
(* Properties.                                                             *)

\* Every variable has its type (the structures and the table of socket.c).
TypeOK ==
  /\ fdt \in [Fds -> Files]
  /\ sock \in [Socks -> [handle : Fds \cup {-1}, blocking : BOOLEAN]]
  /\ errno \in {0, 1}

\* A handle other than 0 names a descriptor that was made for its structure
\* and is still open, however often structures are closed: no operation of
\* socket.c ever works on another structure's descriptor through it.
HandlesOwned ==
  \A s \in Socks : Handle(s) > 0 => fdt[Handle(s)].owner = s

\* A descriptor made for a structure by create or accept can be reached from
\* that structure until it is closed: none is lost.
NoLeak ==
  \A fd \in Fds, s \in Socks : fdt[fd].owner = s => Handle(s) = fd

\* A descriptor other than 0 leaves the table only when the structure it was
\* made for is closed.
ReleasedByOwner ==
  [][\A fd \in Fds \ {0} :
       fdt[fd].owner \in Socks /\ fdt'[fd].owner # fdt[fd].owner =>
         /\ sock[fdt[fd].owner].handle = fd
         /\ sock'[fdt[fd].owner].handle = NULL]_svars

\* The same of every descriptor, 0 included: what "closes the underlying OS
\* socket handle and resets the structure" (socket.h:126) says of close.
CloseReleasesOwn ==
  [][\A fd \in Fds :
       fdt[fd].owner # Nobody /\ fdt'[fd].owner # fdt[fd].owner =>
         \E s \in Socks : fdt[fd].owner = s /\ sock[s].handle = fd]_svars

=============================================================================
