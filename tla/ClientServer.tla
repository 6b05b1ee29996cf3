---------------------------- MODULE ClientServer ----------------------------
(***************************************************************************)
(* The client and server objects of fossil-network (code/logic/client.c    *)
(* and server.c) over the socket layer, together with programs that hold   *)
(* socket structures of their own, as every caller of                      *)
(* fossil_net_server_accept must.                                          *)
(*                                                                         *)
(* A client or a server is named by its socket structure, so that          *)
(* sock[c] is the field sock of client c.  local_addr of a client is       *)
(* written by connect and read by nothing; it is left out.                 *)
(***************************************************************************)
EXTENDS Sockets

CONSTANTS
  Clients, Servers, Raws,   \* the structures, by the object they are part of
  RetrySame   \* callers retry an unfinished connect with its own address

ASSUME ClientServerAssumption ==
  /\ Socks = Clients \cup Servers \cup Raws
  /\ Clients \cap Servers = {} /\ Clients \cap Raws = {} /\ Servers \cap Raws = {}
  /\ RetrySame \in BOOLEAN

VARIABLES
  client,   \* fossil_net_client_t: connected, last_error and remote_addr
  server    \* fossil_net_server_t: addr, and how far create has come

vars == <<fdt, sock, errno, client, server>>

-----------------------------------------------------------------------------
NoAddr == [family |-> "none", port |-> 0]

FreshClient(live) ==
  [live |-> live, connected |-> FALSE, lastError |-> 0, remote |-> NoAddr]
Absent == [stage |-> "none", addr |-> NoAddr]

CSInit ==
  /\ Init
  /\ client = [c \in Clients |-> FreshClient(FALSE)]
  /\ server = [v \in Servers |-> Absent]

-----------------------------------------------------------------------------
(* client.c.  The record of the object is freed when create fails and when *)
(* it is destroyed.                                                        *)
ClientCreate(c, type, family) ==
  /\ ~client[c].live
  /\ type # "other" /\ family \in Families
  /\ \E ret \in {0, -1} :
       /\ SocketCreate(c, type, family, ret)
       /\ client' = [client EXCEPT ![c] = FreshClient(ret = 0)]
  /\ UNCHANGED server

ClientDestroy(c) ==
  /\ client[c].live
  /\ SocketClose(c)
  /\ client' = [client EXCEPT ![c] = FreshClient(FALSE)]
  /\ UNCHANGED server

Unfinished(s) == /\ IsSocket(Handle(s))
                 /\ fdt[Handle(s)].state \in {"connecting", "established", "refused"}

\* Mutant: remote_addr is stored before the result is looked at.
ClientConnectStoresFirst(c, a) ==
  /\ client[c].live
  /\ RetrySame /\ Unfinished(c) => a.port = fdt[Handle(c)].peer
  /\ \/ /\ SocketConnect(c, a, 0)
        /\ client' = [client EXCEPT ![c].connected = TRUE, ![c].remote = a]
     \/ /\ SocketConnect(c, a, -1)
        /\ client' = [client EXCEPT ![c].lastError = errno', ![c].remote = a]
  /\ UNCHANGED server

\* Mutant: last_error is the result of the call and not the error code.
ClientConnectStoresResult(c, a) ==
  /\ client[c].live
  /\ \E ret \in {0, -1} :
       /\ SocketConnect(c, a, ret)
       /\ client' = [client EXCEPT ![c].lastError = ret]
  /\ UNCHANGED server

ClientConnect(c, a) ==
  /\ client[c].live
  /\ RetrySame /\ Unfinished(c) => a.port = fdt[Handle(c)].peer
  /\ \/ /\ SocketConnect(c, a, 0)
        /\ client' = [client EXCEPT ![c].connected = TRUE, ![c].remote = a]
     \/ /\ SocketConnect(c, a, -1)
        /\ client' = [client EXCEPT ![c].lastError = errno']
  /\ UNCHANGED server

\* send and receive do not look at connected; they record a failure's errno.
ClientSend(c) ==
  /\ client[c].live
  /\ \/ SocketSend(c, 0) /\ UNCHANGED client
     \/ SocketSend(c, -1) /\ client' = [client EXCEPT ![c].lastError = errno']
  /\ UNCHANGED server

ClientReceive(c) ==
  /\ client[c].live
  /\ \/ SocketReceive(c, 0) /\ UNCHANGED client
     \/ SocketReceive(c, -1) /\ client' = [client EXCEPT ![c].lastError = errno']
  /\ UNCHANGED server

ClientDisconnect(c) ==
  /\ client[c].live
  /\ SocketClose(c)
  /\ client' = [client EXCEPT ![c].connected = FALSE]
  /\ UNCHANGED server

ClientSetBlocking(c, blocking) ==
  /\ client[c].live
  /\ SocketSetBlocking(c, blocking)
  /\ UNCHANGED <<client, server>>

-----------------------------------------------------------------------------
(* server.c.  create validates its strings, makes a socket and binds it,   *)
(* and undoes the first when the second fails; other threads run between   *)
(* these steps.  An address that parses brings its own family.             *)
ServerCreate(v, type, family, a) ==
  /\ server[v].stage = "none"
  /\ type # "other" /\ family \in Families /\ a.family # "none"
  /\ \E ret \in {0, -1} :
       /\ SocketCreate(v, type, family, ret)
       /\ server' = [server EXCEPT ![v] =
                       IF ret = 0 THEN [stage |-> "binding", addr |-> a] ELSE Absent]
  /\ UNCHANGED client

\* Mutant: the result of bind is not looked at.
ServerCreateBindUnchecked(v) ==
  /\ server[v].stage = "binding"
  /\ \E ret \in {0, -1} : SocketBind(v, server[v].addr, ret)
  /\ server' = [server EXCEPT ![v].stage = "live"]
  /\ UNCHANGED client

ServerCreateBind(v) ==
  /\ server[v].stage = "binding"
  /\ \/ /\ SocketBind(v, server[v].addr, 0)
        /\ server' = [server EXCEPT ![v].stage = "live"]
     \/ /\ SocketBind(v, server[v].addr, -1)
        /\ server' = [server EXCEPT ![v].stage = "closing"]
  /\ UNCHANGED client

\* Mutant: the structure is freed and its socket left open.
ServerReleaseOpen(v, stage) ==
  /\ server[v].stage = stage
  /\ server' = [server EXCEPT ![v] = Absent]
  /\ UNCHANGED <<fdt, sock, errno, client>>

\* What follows a failed bind, and all that destroy does.
ServerRelease(v, stage) ==
  /\ server[v].stage = stage
  /\ SocketClose(v)
  /\ server' = [server EXCEPT ![v] = Absent]
  /\ UNCHANGED client

ServerCreateFail(v) == ServerRelease(v, "closing")
ServerDestroy(v)    == ServerRelease(v, "live")

ServerListen(v) ==
  /\ server[v].stage = "live"
  /\ \E ret \in {0, -1} : SocketListen(v, ret)
  /\ UNCHANGED <<client, server>>

ServerAccept(v, r) ==
  /\ server[v].stage = "live"
  /\ ~Holds(r)
  /\ \E ret \in {0, -1} : SocketAccept(v, r, ret)
  /\ UNCHANGED <<client, server>>

ServerSetBlocking(v, blocking) ==
  /\ server[v].stage = "live"
  /\ SocketSetBlocking(v, blocking)
  /\ UNCHANGED <<client, server>>

-----------------------------------------------------------------------------
(* A program's own structures, which accept fills in.                      *)
RawClose(r) == SocketClose(r) /\ UNCHANGED <<client, server>>

RawSetBlocking(r, blocking) ==
  SocketSetBlocking(r, blocking) /\ UNCHANGED <<client, server>>

RawZero(r) == SocketZero(r) /\ UNCHANGED <<client, server>>

\* What a program does with a client, a server or a structure it has.
ClientUse(c) ==
  \/ \E a \in Addrs : ClientConnect(c, a)
  \/ \E blocking \in BOOLEAN : ClientSetBlocking(c, blocking)
  \/ ClientSend(c)
  \/ ClientReceive(c)
  \/ ClientDisconnect(c)

ServerUse(v) ==
  \/ ServerListen(v)
  \/ \E r \in Raws : ServerAccept(v, r)
  \/ \E blocking \in BOOLEAN : ServerSetBlocking(v, blocking)

RawUse(r) ==
  \/ RawClose(r)
  \/ RawZero(r)
  \/ \E blocking \in BOOLEAN : RawSetBlocking(r, blocking)

Kernel == \E fd \in Fds : ConnectDone(fd) /\ UNCHANGED <<client, server>>

\* What goes on whatever the clients and servers do.
Others == (\E r \in Raws : RawUse(r)) \/ Kernel

ClientNext(c) ==
  \/ \E type \in Types, family \in Families : ClientCreate(c, type, family)
  \/ ClientUse(c)
  \/ ClientDestroy(c)

ServerNext(v) ==
  \/ \E type \in Types, family \in Families, a \in Addrs : ServerCreate(v, type, family, a)
  \/ ServerCreateBind(v)
  \/ ServerCreateFail(v)
  \/ ServerUse(v)
  \/ ServerDestroy(v)

Next ==
  \/ \E c \in Clients : ClientNext(c)
  \/ \E v \in Servers : ServerNext(v)
  \/ Others

Spec == CSInit /\ [][Next]_vars

-----------------------------------------------------------------------------
(* Properties.                                                             *)

\* Every variable has its type (the structures of client.c and server.c).
CSTypeOK ==
  /\ TypeOK
  /\ client \in [Clients -> [live : BOOLEAN, connected : BOOLEAN, lastError : {0, 1},
                             remote : Addrs]]
  /\ server \in [Servers -> [stage : {"none", "binding", "closing", "live"}, addr : Addrs]]

\* Only an object that the program can still name has a descriptor: every
\* failing path of create, and destroy, close what create opened.
NoOrphan ==
  /\ \A c \in Clients : Holds(c) => client[c].live
  /\ \A v \in Servers : Holds(v) => server[v].stage # "none"

\* A connected client's remote_addr, which fossil_net_client_get_remote_address
\* returns, is the peer its descriptor has: client.h:111, "Get the remote
\* address the client is connected to."
RemoteMatchesKernel ==
  \A c \in Clients :
    client[c].connected /\ Handle(c) > 0 =>
      LET file == fdt[Handle(c)]
      IN /\ file.peer = client[c].remote.port
         /\ file.family = client[c].remote.family
         /\ file.state = "connected"

\* fossil_net_server_get_address returns what create was told: server.h:95, "Get
\* the local address the server is bound to."  When create was told a port, the
\* descriptor of the server is bound there, in that family, however the server
\* and the other objects are used afterwards.
AddressIsBound(v) ==
  LET file == fdt[Handle(v)]
  IN file.family = server[v].addr.family /\ file.port = server[v].addr.port

NamedPortBound ==
  \A v \in Servers :
    server[v].stage = "live" /\ Handle(v) > 0 /\ server[v].addr.port # 0 => AddressIsBound(v)

\* The same for every server, also one whose port was left to the system: its
\* recorded port stays 0 and no call reads the chosen one back.
ServerAddressIsBound ==
  \A v \in Servers : server[v].stage = "live" /\ Handle(v) > 0 => AddressIsBound(v)

\* The field blocking of a client or a server, which the Windows accept reads
\* to restore the mode, is the mode of the descriptor.
Agrees(s)  == sock[s].blocking = ~fdt[Handle(s)].nonblock
FlagsAgree == \A s \in Clients \cup Servers : Handle(s) > 0 => Agrees(s)

\* The client and server layers are a program that uses the socket layer.
ImplementsSockets == SocketSpec

=============================================================================
