------------------------- MODULE ClientServerProofs -------------------------
(***************************************************************************)
(* Proofs about the client and server layers: they use the socket layer as *)
(* SocketSpec says a program does, so what is proved of that holds of them,*)
(* and only an object the program can still name has a descriptor.         *)
(***************************************************************************)
EXTENDS ClientServer, SocketsProofs

\* NoOrphan is what makes the layers keep the callers' side of SocketSpec: an
\* object that is being created has no descriptor to lose.
CSInv == IInv /\ CSTypeOK /\ NoOrphan

-----------------------------------------------------------------------------
(* Who may newly hold a descriptor after a call of the socket layer.       *)

NoNewHolder(S) == \A t \in Socks \ S : Holds(t)' => Holds(t)

LEMMA HoldersSame == SameOwners => NoNewHolder({})
BY DEF SameOwners, NoNewHolder, Holds

LEMMA HoldersCreate ==
  ASSUME TypeOK, NEW s \in Socks, NEW type, NEW family, NEW ret,
         SocketCreate(s, type, family, ret)
  PROVE  /\ NoNewHolder({s})
         /\ ret # 0 => NoNewHolder({})
<1>1. CASE ret = 0
  BY <1>1 DEF SocketCreate, NoNewHolder, Holds, File, TypeOK
<1>2. CASE ret # 0
  BY <1>2 DEF SocketCreate, NoNewHolder, Holds
<1> QED
  BY <1>1, <1>2

LEMMA HoldersClose ==
  ASSUME IInv, NEW s \in Socks, SocketClose(s)
  PROVE  NoNewHolder({}) /\ ~Holds(s)'
<1>1. \A fd \in Fds : fdt'[fd].owner \in {fdt[fd].owner, Nobody}
  BY DEF SocketClose, Free, File, IInv, TypeOK
<1>2. NoNewHolder({})
  BY <1>1, SocketsAssumption DEF NoNewHolder, Holds
<1>3. ASSUME NEW fd \in Fds, fdt'[fd].owner = s PROVE FALSE
  <2>1. fdt[fd].owner = s /\ Handle(s) = fd
    BY <1>1, <1>3, SocketsAssumption DEF IInv, NoLeak
  <2>2. fdt' = [fdt EXCEPT ![fd] = Free]
    BY <2>1, SocketsAssumption DEF SocketClose, IsOpen
  <2> QED
    BY <1>3, <2>2, SocketsAssumption DEF Free, File, IInv, TypeOK
<1> QED
  BY <1>2, <1>3 DEF Holds

LEMMA HoldersAccept ==
  ASSUME TypeOK, NEW s \in Socks, NEW client1 \in Socks, NEW ret,
         SocketAccept(s, client1, ret)
  PROVE  NoNewHolder({client1})
<1>1. CASE ret = 0
  <2>1. PICK new \in Fds :
          fdt' = [fdt EXCEPT ![Handle(s)].pending = @ - 1,
                    ![new] = [File(client1, "stream", fdt[Handle(s)].family) EXCEPT
                                !.state = "connected", !.port = fdt[Handle(s)].port]]
    BY <1>1 DEF SocketAccept
  <2>2. \A fd \in Fds : fdt'[fd].owner \in {fdt[fd].owner, client1}
    BY <2>1 DEF File, TypeOK, Files
  <2> QED
    BY <2>2 DEF NoNewHolder, Holds
<1>2. CASE ret # 0
  BY <1>2 DEF SocketAccept, NoNewHolder, Holds
<1> QED
  BY <1>1, <1>2

-----------------------------------------------------------------------------
(* One lemma for each action: it is a step of the socket layer, and it     *)
(* keeps the objects' types and NoOrphan.                                  *)

LEMMA SockIs ==
  /\ Clients \subseteq Socks /\ Servers \subseteq Socks /\ Raws \subseteq Socks
  /\ \A c \in Clients : c \notin Servers /\ c \notin Raws
  /\ \A v \in Servers : v \notin Clients /\ v \notin Raws
BY ClientServerAssumption

\* What a call that makes descriptors for the structures in S alone says of the
\* objects that hold one afterwards.
LEMMA OldHolders ==
  ASSUME CSInv, NEW S, NoNewHolder(S)
  PROVE  /\ \A c \in Clients \ S : Holds(c)' => client[c].live
         /\ \A v \in Servers \ S : Holds(v)' => server[v].stage # "none"
<1>1. ASSUME NEW c \in Clients \ S, Holds(c)' PROVE client[c].live
  <2>1. c \in Socks \ S
    BY SockIs
  <2>2. Holds(c)
    BY <1>1, <2>1 DEF NoNewHolder
  <2> QED
    BY <2>2 DEF CSInv, NoOrphan
<1>2. ASSUME NEW v \in Servers \ S, Holds(v)' PROVE server[v].stage # "none"
  <2>1. v \in Socks \ S
    BY SockIs
  <2>2. Holds(v)
    BY <1>2, <2>1 DEF NoNewHolder
  <2> QED
    BY <2>2 DEF CSInv, NoOrphan
<1> QED
  BY <1>1, <1>2

LEMMA FreshClientType ==
  ASSUME NEW live \in BOOLEAN
  PROVE  FreshClient(live) \in [live : BOOLEAN, connected : BOOLEAN, lastError : {0, 1},
                                remote : Addrs]
BY DEF FreshClient, NoAddr, Addrs

LEMMA AbsentType ==
  Absent \in [stage : {"none", "binding", "closing", "live"}, addr : Addrs]
BY DEF Absent, NoAddr, Addrs

\* What is shown of every action.
StepOK == SocketNext /\ CSTypeOK' /\ NoOrphan'

LEMMA ClientCreateStep ==
  ASSUME CSInv, NEW c \in Clients, NEW type \in Types, NEW family \in Families,
         ClientCreate(c, type, family)
  PROVE  StepOK
<1>1. PICK ret \in {0, -1} :
        /\ SocketCreate(c, type, family, ret)
        /\ client' = [client EXCEPT ![c] = FreshClient(ret = 0)]
  BY DEF ClientCreate
<1>2. c \in Socks /\ ~Holds(c)
  BY SockIs DEF ClientCreate, CSInv, NoOrphan
<1>3. SocketNext
  BY <1>1, <1>2 DEF SocketNext, SocketOp
<1>4. TypeOK'
  BY <1>1, <1>2, CreateType DEF CSInv, IInv
<1>5. CSTypeOK'
  <2>1. (ret = 0) \in BOOLEAN
    OBVIOUS
  <2>2. FreshClient(ret = 0) \in [live : BOOLEAN, connected : BOOLEAN, lastError : {0, 1},
                                 remote : Addrs]
    BY <2>1, FreshClientType
  <2> QED
    BY <1>1, <1>4, <2>2 DEF CSInv, CSTypeOK, ClientCreate
<1>6. NoNewHolder({c}) /\ (ret # 0 => NoNewHolder({}))
  BY <1>1, <1>2, HoldersCreate DEF CSInv, IInv
<1>7. ASSUME NEW d \in Clients, Holds(d)' PROVE client'[d].live
  <2>1. CASE d = c
    <3>1. ret = 0
      BY <1>2, <1>6, <1>7, <2>1 DEF NoNewHolder
    <3>2. FreshClient(ret = 0).live
      BY <3>1 DEF FreshClient
    <3> QED
      BY <1>1, <2>1, <3>2 DEF CSInv, CSTypeOK
  <2>2. CASE d # c
    <3>1. client[d].live
      BY <1>6, <1>7, <2>2, OldHolders
    <3> QED
      BY <1>1, <2>2, <3>1 DEF CSInv, CSTypeOK
  <2> QED
    BY <2>1, <2>2
<1>8. \A v \in Servers : Holds(v)' => server'[v].stage # "none"
  <2>1. server' = server /\ c \notin Servers
    BY SockIs DEF ClientCreate
  <2> QED
    BY <1>6, <2>1, OldHolders
<1> QED
  BY <1>3, <1>5, <1>7, <1>8 DEF StepOK, NoOrphan

LEMMA ClientDestroyStep ==
  ASSUME CSInv, NEW c \in Clients, ClientDestroy(c)
  PROVE  StepOK
<1>1. c \in Socks /\ SocketClose(c)
  BY SockIs DEF ClientDestroy
<1>2. SocketNext
  BY <1>1 DEF SocketNext
<1>3. CSTypeOK'
  BY <1>1, CloseType, FreshClientType DEF CSInv, IInv, CSTypeOK, ClientDestroy
<1>4. NoNewHolder({}) /\ ~Holds(c)'
  BY <1>1, HoldersClose DEF CSInv
<1>5. NoOrphan'
  <2>1. server' = server /\ \A d \in Clients \ {c} : client'[d] = client[d]
    BY DEF ClientDestroy, CSInv, CSTypeOK
  <2> QED
    BY <1>4, <2>1, OldHolders DEF NoOrphan
<1> QED
  BY <1>2, <1>3, <1>5 DEF StepOK

LEMMA ClientDisconnectStep ==
  ASSUME CSInv, NEW c \in Clients, ClientDisconnect(c)
  PROVE  StepOK
<1>1. c \in Socks /\ SocketClose(c)
  BY SockIs DEF ClientDisconnect
<1>2. SocketNext
  BY <1>1 DEF SocketNext
<1>3. CSTypeOK'
  BY <1>1, CloseType DEF CSInv, IInv, CSTypeOK, ClientDisconnect
<1>4. NoNewHolder({})
  BY <1>1, HoldersClose DEF CSInv
<1>5. NoOrphan'
  BY <1>4, OldHolders DEF NoOrphan, CSInv, CSTypeOK, ClientDisconnect
<1> QED
  BY <1>2, <1>3, <1>5 DEF StepOK

LEMMA ClientConnectStep ==
  ASSUME CSInv, NEW c \in Clients, NEW a \in Addrs, ClientConnect(c, a)
  PROVE  StepOK
<1>1. PICK ret \in {0, -1} : SocketConnect(c, a, ret)
  BY DEF ClientConnect
<1>2. SocketNext
  BY <1>1, SockIs DEF SocketNext, SocketOp
<1>3. TypeOK' /\ NoNewHolder({})
  BY <1>1, SockIs, ConnectType, HoldersSame DEF CSInv, IInv
<1>4. /\ server' = server
      /\ \A d \in Clients : client'[d].live = client[d].live
  BY DEF ClientConnect, CSInv, CSTypeOK
<1>5. CSTypeOK'
  <2>1. errno' \in {0, 1}
    BY <1>3 DEF TypeOK
  <2>2. client' \in [Clients -> [live : BOOLEAN, connected : BOOLEAN, lastError : {0, 1},
                                remote : Addrs]]
    <3> DEFINE rec == client[c]
    <3>1. rec \in [live : BOOLEAN, connected : BOOLEAN, lastError : {0, 1},
                   remote : Addrs]
      BY DEF CSInv, CSTypeOK
    <3>2. CASE client' = [client EXCEPT ![c].connected = TRUE, ![c].remote = a]
      <4>1. client' = [client EXCEPT ![c] = [rec EXCEPT !.connected = TRUE, !.remote = a]]
        BY <3>2 DEF CSInv, CSTypeOK
      <4> QED
        BY <3>1, <4>1 DEF CSInv, CSTypeOK
    <3>3. CASE client' = [client EXCEPT ![c].lastError = errno']
      <4>1. client' = [client EXCEPT ![c] = [rec EXCEPT !.lastError = errno']]
        BY <3>3 DEF CSInv, CSTypeOK
      <4> QED
        BY <2>1, <3>1, <4>1 DEF CSInv, CSTypeOK
    <3> QED
      BY <3>2, <3>3 DEF ClientConnect
  <2> QED
    BY <1>3, <1>4, <2>2 DEF CSInv, CSTypeOK
<1>6. NoOrphan'
  BY <1>3, <1>4, OldHolders DEF NoOrphan
<1> QED
  BY <1>2, <1>5, <1>6 DEF StepOK

LEMMA ClientDataStep ==
  ASSUME CSInv, NEW c \in Clients, ClientSend(c) \/ ClientReceive(c)
  PROVE  StepOK
<1>1. PICK ret \in {0, -1} : SocketSend(c, ret) \/ SocketReceive(c, ret)
  BY DEF ClientSend, ClientReceive
<1>2. SocketNext
  BY <1>1, SockIs DEF SocketNext, SocketOp
<1>3. TypeOK' /\ NoNewHolder({})
  BY <1>1, SockIs, DataType, HoldersSame DEF CSInv, IInv
<1>4. server' = server /\ (client' = client \/ client' = [client EXCEPT ![c].lastError = errno'])
  BY DEF ClientSend, ClientReceive
<1>5. CSTypeOK'
  <2>1. errno' \in {0, 1}
    BY <1>3 DEF TypeOK
  <2>2. client[c] \in [live : BOOLEAN, connected : BOOLEAN, lastError : {0, 1}, remote : Addrs]
    BY DEF CSInv, CSTypeOK
  <2>3. [client[c] EXCEPT !.lastError = errno'] \in
          [live : BOOLEAN, connected : BOOLEAN, lastError : {0, 1}, remote : Addrs]
    BY <2>1, <2>2
  <2>4. client' = client \/ client' = [client EXCEPT ![c] = [client[c] EXCEPT !.lastError = errno']]
    BY <1>4
  <2> QED
    BY <1>3, <1>4, <2>3, <2>4 DEF CSInv, CSTypeOK
<1>6. NoOrphan'
  <2>1. \A d \in Clients : client'[d].live = client[d].live
    BY <1>4 DEF CSInv, CSTypeOK
  <2> QED
    BY <1>3, <1>4, <2>1, OldHolders DEF NoOrphan
<1> QED
  BY <1>2, <1>5, <1>6 DEF StepOK

\* The calls that leave both kinds of objects as they are.
LEMMA PlainStep ==
  ASSUME CSInv, SocketNext, TypeOK', UNCHANGED <<client, server>>,
         NoNewHolder(Raws)
  PROVE  StepOK
<1>1. CSTypeOK'
  BY DEF CSInv, CSTypeOK, Addrs
<1>2. NoOrphan'
  BY SockIs, OldHolders DEF NoOrphan
<1> QED
  BY <1>1, <1>2 DEF StepOK

LEMMA SetBlockingStep ==
  ASSUME CSInv, NEW s \in Socks, NEW blocking \in BOOLEAN,
         SocketSetBlocking(s, blocking), UNCHANGED <<client, server>>
  PROVE  StepOK
<1>1. SocketNext
  BY DEF SocketNext
<1>2. TypeOK' /\ NoNewHolder({})
  BY SetBlockingType, HoldersSame DEF CSInv, IInv
<1> QED
  BY <1>1, <1>2, PlainStep DEF NoNewHolder

LEMMA ServerCreateStep ==
  ASSUME CSInv, NEW v \in Servers, NEW type \in Types, NEW family \in Families,
         NEW a \in Addrs, ServerCreate(v, type, family, a)
  PROVE  StepOK
<1>1. PICK ret \in {0, -1} :
        /\ SocketCreate(v, type, family, ret)
        /\ server' = [server EXCEPT ![v] =
                        IF ret = 0 THEN [stage |-> "binding", addr |-> a] ELSE Absent]
  BY DEF ServerCreate
<1>2. v \in Socks /\ ~Holds(v)
  BY SockIs DEF ServerCreate, CSInv, NoOrphan
<1>3. SocketNext
  BY <1>1, <1>2 DEF SocketNext, SocketOp
<1>4. TypeOK'
  BY <1>1, <1>2, CreateType DEF CSInv, IInv
<1>5. CSTypeOK'
  BY <1>1, <1>4, AbsentType DEF CSInv, CSTypeOK, ServerCreate
<1>6. NoNewHolder({v}) /\ (ret # 0 => NoNewHolder({}))
  BY <1>1, <1>2, HoldersCreate DEF CSInv, IInv
<1>7. \A c \in Clients : Holds(c)' => client'[c].live
  <2>1. client' = client /\ v \notin Clients
    BY SockIs DEF ServerCreate
  <2> QED
    BY <1>6, <2>1, OldHolders
<1>8. ASSUME NEW w \in Servers, Holds(w)' PROVE server'[w].stage # "none"
  <2>1. CASE w = v
    <3>1. ret = 0
      BY <1>2, <1>6, <1>8, <2>1 DEF NoNewHolder
    <3> QED
      BY <1>1, <2>1, <3>1 DEF CSInv, CSTypeOK
  <2>2. CASE w # v
    <3>1. server[w].stage # "none"
      BY <1>6, <1>8, <2>2, OldHolders
    <3> QED
      BY <1>1, <2>2, <3>1 DEF CSInv, CSTypeOK
  <2> QED
    BY <2>1, <2>2
<1> QED
  BY <1>3, <1>5, <1>7, <1>8 DEF StepOK, NoOrphan

LEMMA ServerCreateBindStep ==
  ASSUME CSInv, NEW v \in Servers, ServerCreateBind(v)
  PROVE  StepOK
<1>1. server[v].addr \in Addrs
  BY DEF CSInv, CSTypeOK
<1>2. PICK ret \in {0, -1} : SocketBind(v, server[v].addr, ret)
  BY DEF ServerCreateBind
<1>3. SocketNext
  BY <1>1, <1>2, SockIs DEF SocketNext, SocketOp
<1>4. TypeOK' /\ NoNewHolder({})
  BY <1>1, <1>2, SockIs, BindType, HoldersSame DEF CSInv, IInv
<1>5. CSTypeOK'
  BY <1>4 DEF CSInv, CSTypeOK, ServerCreateBind
<1>6. NoOrphan'
  BY <1>4, OldHolders DEF NoOrphan, CSInv, CSTypeOK, ServerCreateBind
<1> QED
  BY <1>3, <1>5, <1>6 DEF StepOK

LEMMA ServerReleaseStep ==
  ASSUME CSInv, NEW v \in Servers, NEW stage, ServerRelease(v, stage)
  PROVE  StepOK
<1>1. v \in Socks /\ SocketClose(v)
  BY SockIs DEF ServerRelease
<1>2. SocketNext
  BY <1>1 DEF SocketNext
<1>3. CSTypeOK'
  BY <1>1, CloseType, AbsentType DEF CSInv, IInv, CSTypeOK, ServerRelease
<1>4. NoNewHolder({}) /\ ~Holds(v)'
  BY <1>1, HoldersClose DEF CSInv
<1>5. NoOrphan'
  BY <1>4, OldHolders DEF NoOrphan, CSInv, CSTypeOK, ServerRelease
<1> QED
  BY <1>2, <1>3, <1>5 DEF StepOK

LEMMA ClientUseStep ==
  ASSUME CSInv, NEW c \in Clients, ClientUse(c)
  PROVE  StepOK
<1>1. CASE \E a \in Addrs : ClientConnect(c, a)
  BY <1>1, ClientConnectStep
<1>2. CASE \E blocking \in BOOLEAN : ClientSetBlocking(c, blocking)
  BY <1>2, SockIs, SetBlockingStep DEF ClientSetBlocking
<1>3. CASE ClientSend(c) \/ ClientReceive(c)
  BY <1>3, ClientDataStep
<1>4. CASE ClientDisconnect(c)
  BY <1>4, ClientDisconnectStep
<1> QED
  BY <1>1, <1>2, <1>3, <1>4 DEF ClientUse

LEMMA ServerUseStep ==
  ASSUME CSInv, NEW v \in Servers, ServerUse(v)
  PROVE  StepOK
<1>1. CASE ServerListen(v)
  <2>1. PICK ret \in {0, -1} : SocketListen(v, ret)
    BY <1>1 DEF ServerListen
  <2>2. SocketNext
    BY <2>1, SockIs DEF SocketNext, SocketOp
  <2>3. TypeOK' /\ NoNewHolder(Raws)
    BY <2>1, SockIs, ListenType, HoldersSame DEF CSInv, IInv, NoNewHolder
  <2> QED
    BY <1>1, <2>2, <2>3, PlainStep DEF ServerListen
<1>2. CASE \E r \in Raws : ServerAccept(v, r)
  <2>1. PICK r \in Raws : ServerAccept(v, r)
    BY <1>2
  <2>2. PICK ret \in {0, -1} : SocketAccept(v, r, ret)
    BY <2>1 DEF ServerAccept
  <2>3. SocketNext
    BY <2>1, <2>2, SockIs DEF ServerAccept, SocketNext, SocketOp
  <2>4. TypeOK' /\ NoNewHolder(Raws)
    BY <2>2, SockIs, AcceptType, HoldersAccept DEF CSInv, IInv, NoNewHolder
  <2> QED
    BY <2>1, <2>3, <2>4, PlainStep DEF ServerAccept
<1>3. CASE \E blocking \in BOOLEAN : ServerSetBlocking(v, blocking)
  BY <1>3, SockIs, SetBlockingStep DEF ServerSetBlocking
<1> QED
  BY <1>1, <1>2, <1>3 DEF ServerUse

LEMMA RawUseStep ==
  ASSUME CSInv, NEW r \in Raws, RawUse(r)
  PROVE  StepOK
<1>1. CASE RawClose(r)
  <2>1. r \in Socks /\ SocketClose(r) /\ UNCHANGED <<client, server>>
    BY <1>1, SockIs DEF RawClose
  <2>2. SocketNext
    BY <2>1 DEF SocketNext
  <2>3. TypeOK' /\ NoNewHolder(Raws)
    BY <2>1, CloseType, HoldersClose DEF CSInv, IInv, NoNewHolder
  <2> QED
    BY <2>1, <2>2, <2>3, PlainStep
<1>2. CASE RawZero(r)
  <2>1. r \in Socks /\ SocketZero(r) /\ UNCHANGED <<client, server>>
    BY <1>2, SockIs DEF RawZero
  <2>2. SocketNext
    BY <2>1 DEF SocketNext
  <2>3. TypeOK' /\ NoNewHolder(Raws)
    BY <2>1, ZeroKeeps DEF CSInv, IInv, NoNewHolder, Holds
  <2> QED
    BY <2>1, <2>2, <2>3, PlainStep
<1>3. CASE \E blocking \in BOOLEAN : RawSetBlocking(r, blocking)
  BY <1>3, SockIs, SetBlockingStep DEF RawSetBlocking
<1> QED
  BY <1>1, <1>2, <1>3 DEF RawUse

LEMMA OthersStep ==
  ASSUME CSInv, Others
  PROVE  StepOK
<1>1. CASE \E r \in Raws : RawUse(r)
  BY <1>1, RawUseStep
<1>2. CASE Kernel
  <2>1. PICK fd \in Fds : ConnectDone(fd)
    BY <1>2 DEF Kernel
  <2>2. SocketNext
    BY <2>1 DEF SocketNext
  <2>3. TypeOK' /\ NoNewHolder(Raws)
    BY <2>1, ConnectDoneType, HoldersSame DEF CSInv, IInv, NoNewHolder
  <2> QED
    BY <1>2, <2>2, <2>3, PlainStep DEF Kernel
<1> QED
  BY <1>1, <1>2 DEF Others

LEMMA NextStep ==
  ASSUME CSInv, Next
  PROVE  StepOK
<1>1. CASE \E c \in Clients : ClientNext(c)
  <2>1. PICK c \in Clients : ClientNext(c)
    BY <1>1
  <2>2. CASE \E type \in Types, family \in Families : ClientCreate(c, type, family)
    BY <2>2, ClientCreateStep
  <2>3. CASE ClientUse(c)
    BY <2>3, ClientUseStep
  <2>4. CASE ClientDestroy(c)
    BY <2>4, ClientDestroyStep
  <2> QED
    BY <2>1, <2>2, <2>3, <2>4 DEF ClientNext
<1>2. CASE \E v \in Servers : ServerNext(v)
  <2>1. PICK v \in Servers : ServerNext(v)
    BY <1>2
  <2>2. CASE \E type \in Types, family \in Families, a \in Addrs :
               ServerCreate(v, type, family, a)
    BY <2>2, ServerCreateStep
  <2>3. CASE ServerCreateBind(v)
    BY <2>3, ServerCreateBindStep
  <2>4. CASE ServerCreateFail(v) \/ ServerDestroy(v)
    BY <2>4, ServerReleaseStep DEF ServerCreateFail, ServerDestroy
  <2>5. CASE ServerUse(v)
    BY <2>5, ServerUseStep
  <2> QED
    BY <2>1, <2>2, <2>3, <2>4, <2>5 DEF ServerNext
<1>3. CASE Others
  BY <1>3, OthersStep
<1> QED
  BY <1>1, <1>2, <1>3 DEF Next

-----------------------------------------------------------------------------
LEMMA InitCSInv == CSInit => CSInv
<1> SUFFICES ASSUME CSInit PROVE CSInv
  OBVIOUS
<1>1. IInv
  BY InitIInv DEF CSInit
<1>2. CSTypeOK
  BY <1>1, FreshClientType, AbsentType DEF CSInit, CSTypeOK, IInv
<1>3. NoOrphan
  BY SockIs, SocketsAssumption DEF CSInit, Init, NoOrphan, Holds, Free, File
<1> QED
  BY <1>1, <1>2, <1>3 DEF CSInv

LEMMA NextCSInv ==
  CSInv /\ [Next]_vars => CSInv' /\ [SocketNext]_svars
<1> SUFFICES ASSUME CSInv, [Next]_vars PROVE CSInv' /\ [SocketNext]_svars
  OBVIOUS
<1>1. CASE Next
  BY <1>1, NextStep, NextIInv DEF StepOK, CSInv
<1>2. CASE UNCHANGED vars
  BY <1>2 DEF vars, svars, CSInv, IInv, TypeOK, HandlesOwned, NoLeak, Handle,
              CSTypeOK, NoOrphan, Holds
<1> QED
  BY <1>1, <1>2

\* The inductive invariant of the client and server layers.
THEOREM CSInvariant == Spec => []CSInv
BY InitCSInv, NextCSInv, PTL DEF Spec

\* client.c and server.c only use the socket layer as SocketSpec allows: what
\* is proved of every such program is true of theirs.
THEOREM Implements == Spec => ImplementsSockets
<1>1. CSInit => Init
  BY DEF CSInit
<1> QED
  BY <1>1, CSInvariant, NextCSInv, PTL DEF Spec, SocketSpec, ImplementsSockets

\* Every failing path of client_create and server_create closes what it opened,
\* and destroy closes the rest: only a live object has a descriptor.
THEOREM NoOrphans == Spec => []NoOrphan
<1>1. CSInv => NoOrphan
  BY DEF CSInv
<1> QED
  BY <1>1, CSInvariant, PTL

\* A live handle of a client, a server or an accepted structure is its own, and
\* no call on one object closes the descriptor above 0 of another.
THEOREM CSOwnHandles == Spec => []HandlesOwned /\ ReleasedByOwner
BY Implements, OwnHandles, Released, PTL DEF ImplementsSockets

-----------------------------------------------------------------------------
(* What the objects record of their descriptors.  An operation on one      *)
(* structure leaves the descriptors of the others as they were.            *)

\* What is recorded of a descriptor: its owner and queue are not.
Kept(fd) ==
  /\ fdt'[fd].family = fdt[fd].family /\ fdt'[fd].nonblock = fdt[fd].nonblock
  /\ fdt'[fd].state = fdt[fd].state   /\ fdt'[fd].port = fdt[fd].port
  /\ fdt'[fd].peer = fdt[fd].peer

\* An operation on s works on the descriptor of s and on ones that were free,
\* and it writes the fields of no other structure.
OnlyOf(s) ==
  /\ \A fd \in Fds : IsOpen(fd) /\ fd # Handle(s) => Kept(fd)
  /\ \A t \in Socks \ {s} : sock'[t] = sock[t]

LEMMA CreateOnly ==
  ASSUME TypeOK, NEW s \in Socks, NEW type, NEW family, NEW ret, SocketCreate(s, type, family, ret)
  PROVE  /\ OnlyOf(s)
         /\ Handle(s)' > 0 => sock'[s].blocking = ~fdt'[Handle(s)'].nonblock
<1>1. CASE ret = 0
  <2>1. PICK fd \in Fds :
          /\ Lowest(fd)
          /\ fdt' = [fdt EXCEPT ![fd] = File(s, SocketKind(type), family)]
          /\ sock' = [sock EXCEPT ![s] = [handle |-> fd, blocking |-> TRUE]]
    BY <1>1 DEF SocketCreate
  <2>2. ~IsOpen(fd) /\ Handle(s)' = fd /\ sock'[s].blocking = TRUE
    BY <2>1 DEF Lowest, TypeOK, Handle
  <2>3. fdt'[fd].nonblock = FALSE
    BY <2>1 DEF TypeOK, File
  <2>4. OnlyOf(s)
    BY <2>1, <2>2 DEF OnlyOf, Kept, TypeOK
  <2> QED BY <2>2, <2>3, <2>4
<1>2. CASE ret # 0
  BY <1>2 DEF SocketCreate, OnlyOf, Kept, TypeOK, Handle
<1> QED BY <1>1, <1>2

LEMMA CloseOnly ==
  ASSUME TypeOK, NEW s \in Socks, SocketClose(s)
  PROVE  OnlyOf(s) /\ Handle(s)' = 0
BY DEF SocketClose, OnlyOf, Kept, TypeOK, Handle, NULL

LEMMA SetBlockingOnly ==
  ASSUME TypeOK, NEW s \in Socks, NEW blocking \in BOOLEAN, SocketSetBlocking(s, blocking)
  PROVE  /\ OnlyOf(s) /\ Handle(s)' = Handle(s)
         /\ IsOpen(Handle(s)) => /\ sock'[s].blocking = ~fdt'[Handle(s)].nonblock
                                 /\ fdt'[Handle(s)] = [fdt[Handle(s)] EXCEPT !.nonblock = ~blocking]
<1>1. sock[s] \in [handle : Fds \cup {-1}, blocking : BOOLEAN]
      /\ \A fd \in Fds : fdt[fd] \in Files
  BY DEF TypeOK
<1>2. sock' = [sock EXCEPT ![s] = [sock[s] EXCEPT !.blocking = blocking]]
  BY DEF SocketSetBlocking, TypeOK
<1>3. sock'[s].handle = sock[s].handle /\ sock'[s].blocking = blocking
      /\ \A t \in Socks \ {s} : sock'[t] = sock[t]
  BY <1>1, <1>2 DEF TypeOK
<1>4. CASE IsOpen(Handle(s))
  <2>1. fdt' = [fdt EXCEPT ![Handle(s)] = [fdt[Handle(s)] EXCEPT !.nonblock = ~blocking]]
        /\ Handle(s) \in Fds
    BY <1>4 DEF SocketSetBlocking, TypeOK, IsOpen
  <2>2. fdt'[Handle(s)] = [fdt[Handle(s)] EXCEPT !.nonblock = ~blocking]
        /\ \A fd \in Fds : fd # Handle(s) => fdt'[fd] = fdt[fd]
    BY <2>1 DEF TypeOK
  <2>3. fdt'[Handle(s)].nonblock = ~blocking
    BY <1>1, <2>1, <2>2 DEF Files
  <2> QED BY <1>3, <2>2, <2>3 DEF OnlyOf, Kept, Handle
<1>5. CASE ~IsOpen(Handle(s))
  BY <1>3, <1>5 DEF SocketSetBlocking, OnlyOf, Kept, Handle
<1> QED BY <1>4, <1>5

LEMMA BindOnly ==
  ASSUME TypeOK, NEW s \in Socks, NEW a \in Addrs, NEW ret \in {0, -1}, SocketBind(s, a, ret)
  PROVE  /\ OnlyOf(s) /\ sock' = sock
         /\ Handle(s) \in Fds => fdt'[Handle(s)].nonblock = fdt[Handle(s)].nonblock
         /\ ret = 0 => LET file == fdt'[Handle(s)]
                       IN file.family = a.family /\ file.port \in Ports /\ a.port \in {0, file.port}
<1>1. CASE ret = 0
  <2>1. PICK p \in BindPorts(Handle(s), a) : fdt' = [fdt EXCEPT ![Handle(s)].port = p]
    BY <1>1 DEF SocketBind, NoFamily
  <2>2. IsSocket(Handle(s)) /\ fdt[Handle(s)].family = a.family /\ sock' = sock /\ Handle(s) \in Fds
    BY <1>1 DEF SocketBind, NoFamily, IsSocket, IsOpen
  <2>3. fdt[Handle(s)] \in Files /\ p \in Ports /\ a.port \in {0, p}
    BY <2>1, <2>2 DEF TypeOK, BindPorts
  <2>4. fdt'[Handle(s)] = [fdt[Handle(s)] EXCEPT !.port = p]
        /\ \A fd \in Fds : fd # Handle(s) => fdt'[fd] = fdt[fd]
    BY <2>1, <2>2 DEF TypeOK
  <2>5. fdt'[Handle(s)].port = p /\ fdt'[Handle(s)].family = fdt[Handle(s)].family
        /\ fdt'[Handle(s)].nonblock = fdt[Handle(s)].nonblock
    BY <2>3, <2>4 DEF Files
  <2> QED BY <2>2, <2>3, <2>4, <2>5 DEF OnlyOf, Kept
<1>2. CASE ret # 0
  BY <1>2 DEF SocketBind, NoFamily, svars, OnlyOf, Kept
<1> QED BY <1>1, <1>2

LEMMA ListenOnly ==
  ASSUME TypeOK, NEW s \in Socks, NEW ret \in {0, -1}, SocketListen(s, ret)
  PROVE  /\ OnlyOf(s) /\ sock' = sock
         /\ Handle(s) \in Fds =>
              /\ fdt'[Handle(s)].nonblock = fdt[Handle(s)].nonblock
              /\ fdt'[Handle(s)].family = fdt[Handle(s)].family
              /\ fdt[Handle(s)].port # 0 => fdt'[Handle(s)].port = fdt[Handle(s)].port
<1>1. CASE ret = 0
  <2>1. PICK p \in ListenPorts(Handle(s)) :
          fdt' = [fdt EXCEPT ![Handle(s)].state = "listening", ![Handle(s)].port = p]
    BY <1>1 DEF SocketListen
  <2>2. IsSocket(Handle(s)) /\ sock' = sock /\ Handle(s) \in Fds
    BY <1>1, <2>1 DEF SocketListen, ListenPorts, IsSocket, IsOpen
  <2>3. fdt[Handle(s)] \in Files /\ (fdt[Handle(s)].port # 0 => p = fdt[Handle(s)].port)
    BY <2>1, <2>2 DEF TypeOK, ListenPorts
  <2>4. fdt'[Handle(s)] = [fdt[Handle(s)] EXCEPT !.state = "listening", !.port = p]
        /\ \A fd \in Fds : fd # Handle(s) => fdt'[fd] = fdt[fd]
    BY <2>1, <2>2 DEF TypeOK
  <2>5. fdt'[Handle(s)].port = p /\ fdt'[Handle(s)].family = fdt[Handle(s)].family
        /\ fdt'[Handle(s)].nonblock = fdt[Handle(s)].nonblock
    BY <2>3, <2>4 DEF Files
  <2> QED BY <2>2, <2>3, <2>4, <2>5 DEF OnlyOf, Kept
<1>2. CASE ret # 0
  BY <1>2 DEF SocketListen, OnlyOf, Kept
<1> QED BY <1>1, <1>2

\* accept takes from the queue of the listening descriptor and leaves the rest.
LEMMA AcceptOnly ==
  ASSUME TypeOK, NEW s \in Socks, NEW r \in Socks, NEW ret \in {0, -1}, SocketAccept(s, r, ret)
  PROVE  OnlyOf(r) /\ (IsOpen(Handle(r)) => Kept(Handle(r)))
<1>1. CASE ret = 0
  <2> DEFINE fd == Handle(s)
  <2>1. PICK new \in Fds :
          /\ Lowest(new)
          /\ fdt' = [fdt EXCEPT ![fd].pending = @ - 1,
                       ![new] = [File(r, "stream", fdt[fd].family) EXCEPT
                                   !.state = "connected", !.port = fdt[fd].port]]
          /\ sock' = [sock EXCEPT ![r].handle = new]
    BY <1>1 DEF SocketAccept
  <2>2. ~IsOpen(new) /\ fd \in Fds /\ fdt[fd] \in Files
    BY <1>1, <2>1 DEF SocketAccept, IsSocket, IsOpen, Lowest, TypeOK
  <2>3. \A g \in Fds \ {new} :
          fdt'[g] = IF g = fd THEN [fdt[fd] EXCEPT !.pending = @ - 1] ELSE fdt[g]
    BY <2>1, <2>2 DEF TypeOK
  <2>4. \A g \in Fds \ {new} : Kept(g)
    BY <2>2, <2>3 DEF Kept, Files
  <2>5. \A t \in Socks \ {r} : sock'[t] = sock[t]
    BY <2>1 DEF TypeOK
  <2> QED BY <2>2, <2>4, <2>5 DEF OnlyOf, IsOpen
<1>2. CASE ret # 0
  BY <1>2 DEF SocketAccept, OnlyOf, Kept
<1> QED BY <1>1, <1>2

LEMMA ConnectOnly ==
  ASSUME TypeOK, NEW s \in Socks, NEW a \in Addrs, NEW ret \in {0, -1}, SocketConnect(s, a, ret)
  PROVE  /\ OnlyOf(s) /\ sock' = sock
         /\ Handle(s) \in Fds => fdt'[Handle(s)].nonblock = fdt[Handle(s)].nonblock
         /\ ret = 0 =>
              LET file == fdt'[Handle(s)]
              IN /\ file.state = "connected" /\ file.family = a.family
                 /\ file.peer = a.port \/ (Unfinished(s) /\ file.peer = fdt[Handle(s)].peer)
         /\ ret # 0 /\ Handle(s) \in Fds /\ fdt[Handle(s)].state = "connected" => Kept(Handle(s))
<1> DEFINE fd == Handle(s)
<1>0. CASE UNCHANGED <<fdt, sock>> /\ ret # 0
  BY <1>0 DEF OnlyOf, Kept
<1>1. ASSUME ~(UNCHANGED <<fdt, sock>> /\ ret # 0)
      PROVE  /\ fd \in Fds /\ IsSocket(fd) /\ fdt[fd] \in Files /\ fdt[fd].family = a.family
             /\ sock' = sock
             /\ \/ ConnectDgram(fd, a, ret) \/ ConnectBlocking(fd, a, ret)
                \/ ConnectStart(fd, a, ret) \/ ConnectReport(fd, ret)
  BY <1>1 DEF SocketConnect, NoFamily, svars, IsSocket, IsOpen, TypeOK
<1>2. ASSUME fd \in Fds, IsSocket(fd), fdt[fd] \in Files, fdt[fd].family = a.family, sock' = sock,
             ConnectDgram(fd, a, ret)
      PROVE  /\ ret = 0 /\ \A g \in Fds \ {fd} : fdt'[g] = fdt[g]
             /\ fdt'[fd] = [fdt[fd] EXCEPT !.state = "connected", !.peer = a.port]
  BY <1>2 DEF ConnectDgram, Connected, TypeOK
<1>3. ASSUME fd \in Fds, IsSocket(fd), fdt[fd] \in Files, fdt[fd].family = a.family, sock' = sock,
             ConnectBlocking(fd, a, ret), ~(UNCHANGED <<fdt, sock>> /\ ret # 0)
      PROVE  /\ ret = 0 /\ \A g \in Fds \ {fd} : Kept(g)
             /\ fdt'[fd] = [fdt[fd] EXCEPT !.state = "connected", !.peer = a.port]
  <2>1. PICK g \in Fds : /\ ListensAt(g, fd, a)
                         /\ fdt' = [Connected(fd, a) EXCEPT ![g].pending = @ + 1]
    BY <1>3 DEF ConnectBlocking
  <2>2. g # fd /\ fdt[g] \in Files /\ ret = 0
    BY <1>3, <2>1 DEF ConnectBlocking, ListensAt, TypeOK
  <2>3. \A h \in Fds \ {fd} :
          fdt'[h] = IF h = g THEN [fdt[g] EXCEPT !.pending = @ + 1] ELSE fdt[h]
    BY <1>3, <2>1, <2>2 DEF Connected, TypeOK
  <2>4. fdt'[fd] = [fdt[fd] EXCEPT !.state = "connected", !.peer = a.port]
    BY <1>3, <2>1, <2>2 DEF Connected, TypeOK
  <2> QED BY <2>2, <2>3, <2>4 DEF Kept, Files
<1>4. ASSUME fd \in Fds, IsSocket(fd), fdt[fd] \in Files, sock' = sock, ConnectStart(fd, a, ret)
      PROVE  /\ ret # 0 /\ \A g \in Fds \ {fd} : fdt'[g] = fdt[g]
             /\ fdt'[fd] = [fdt[fd] EXCEPT !.state = "connecting", !.peer = a.port]
             /\ fdt[fd].state # "connected"
  BY <1>4 DEF ConnectStart, TypeOK
<1>5. ASSUME fd \in Fds, IsSocket(fd), fdt[fd] \in Files, sock' = sock, ConnectReport(fd, ret),
             ~(UNCHANGED <<fdt, sock>> /\ ret # 0)
      PROVE  /\ \A g \in Fds \ {fd} : fdt'[g] = fdt[g]
             /\ \/ /\ ret = 0 /\ Unfinished(s)
                   /\ fdt'[fd] = [fdt[fd] EXCEPT !.state = "connected"]
                \/ /\ ret # 0 /\ fdt[fd].state # "connected"
                   /\ fdt'[fd] = [fdt[fd] EXCEPT !.state = "idle", !.peer = 0]
  <2>1. CASE fdt[fd].state = "established" /\ ret = 0 /\ fdt' = [fdt EXCEPT ![fd].state = "connected"]
    BY <1>5, <2>1 DEF TypeOK, Unfinished
  <2>2. CASE /\ fdt[fd].state = "refused" /\ ret = -1
             /\ fdt' = [fdt EXCEPT ![fd].state = "idle", ![fd].peer = 0]
    <3>1. fdt'[fd] = [fdt[fd] EXCEPT !.state = "idle", !.peer = 0]
          /\ \A g \in Fds \ {fd} : fdt'[g] = fdt[g]
      BY <1>5, <2>2 DEF TypeOK
    <3>2. ret # 0 /\ fdt[fd].state # "connected"
      BY <2>2
    <3> QED BY <3>1, <3>2, Zenon
  <2>3. CASE ret = -1 /\ UNCHANGED fdt
    BY <1>5, <2>3
  <2> QED BY <1>5, <2>1, <2>2, <2>3 DEF ConnectReport
<1>6. CASE ~(UNCHANGED <<fdt, sock>> /\ ret # 0)
  <2>1. CASE ConnectDgram(fd, a, ret)
    BY <1>1, <1>2, <1>6, <2>1 DEF OnlyOf, Kept, Files
  <2>2. CASE ConnectBlocking(fd, a, ret)
    BY <1>1, <1>3, <1>6, <2>2 DEF OnlyOf, Files
  <2>3. CASE ConnectStart(fd, a, ret)
    BY <1>1, <1>4, <1>6, <2>3 DEF OnlyOf, Kept, Files
  <2>4. CASE ConnectReport(fd, ret)
    BY <1>1, <1>5, <1>6, <2>4 DEF OnlyOf, Kept, Files
  <2> QED BY <1>1, <1>6, <2>1, <2>2, <2>3, <2>4
<1> QED BY <1>0, <1>6

\* The kernel reports to a descriptor that is connecting, and to no other.
LEMMA ConnectDoneOnly ==
  ASSUME TypeOK, NEW fd \in Fds, ConnectDone(fd)
  PROVE  /\ sock' = sock
         /\ \A h \in Fds : /\ fdt'[h].nonblock = fdt[h].nonblock /\ fdt'[h].family = fdt[h].family
                           /\ fdt'[h].port = fdt[h].port
                           /\ fdt[h].state = "connected" => Kept(h)
<1> DEFINE a == [family |-> fdt[fd].family, port |-> fdt[fd].peer]
<1>0. sock' = sock /\ fdt[fd].state = "connecting" /\ fdt[fd] \in Files
  BY DEF ConnectDone, TypeOK
<1>1. CASE fdt' = [fdt EXCEPT ![fd].state = "refused"]
  <2>1. \A h \in Fds : fdt'[h] = IF h = fd THEN [fdt[fd] EXCEPT !.state = "refused"] ELSE fdt[h]
    BY <1>1 DEF TypeOK
  <2> QED BY <1>0, <2>1 DEF Kept, Files
<1>2. ASSUME NEW g \in Fds, ListensAt(g, fd, a),
             fdt' = [fdt EXCEPT ![fd].state = "established", ![g].pending = @ + 1]
      PROVE  \A h \in Fds : /\ fdt'[h].nonblock = fdt[h].nonblock /\ fdt'[h].family = fdt[h].family
                            /\ fdt'[h].port = fdt[h].port
                            /\ fdt[h].state = "connected" => Kept(h)
  <2>1. g # fd /\ fdt[g] \in Files
    BY <1>0, <1>2 DEF ListensAt, TypeOK
  <2>2. \A h \in Fds :
          fdt'[h] = IF h = fd THEN [fdt[fd] EXCEPT !.state = "established"]
                    ELSE IF h = g THEN [fdt[g] EXCEPT !.pending = @ + 1] ELSE fdt[h]
    BY <1>2, <2>1 DEF TypeOK
  <2> QED BY <1>0, <2>1, <2>2 DEF Kept, Files
<1> QED BY <1>0, <1>1, <1>2 DEF ConnectDone

LEMMA ZeroOnly ==
  ASSUME TypeOK, NEW s \in Socks, SocketZero(s)
  PROVE  OnlyOf(s)
BY DEF SocketZero, OnlyOf, Kept, TypeOK

PeerRecorded(c) ==
  LET file == fdt[Handle(c)]
  IN /\ file.peer = client[c].remote.port
     /\ file.family = client[c].remote.family
     /\ file.state = "connected"

BindingRecorded(v) ==
  LET file == fdt[Handle(v)]
  IN /\ file.port # 0
     /\ file.family = server[v].addr.family
     /\ server[v].addr.port \in {0, file.port}

ClientRecord(c) ==
  Handle(c) > 0 => Agrees(c) /\ (RetrySame /\ client[c].connected => PeerRecorded(c))

ServerRecord(v) ==
  Handle(v) > 0 => Agrees(v) /\ (server[v].stage = "live" => BindingRecorded(v))

\* What the objects record; it is inductive with CSInv, which tells the
\* descriptors of two objects apart.
Records == (\A c \in Clients : ClientRecord(c)) /\ (\A v \in Servers : ServerRecord(v))

LEMMA OwnHandle ==
  ASSUME CSInv, NEW t \in Socks, Handle(t) > 0
  PROVE  /\ Handle(t) \in Fds /\ IsOpen(Handle(t)) /\ fdt[Handle(t)] \in Files
         /\ \A x \in Socks \ {t} : Handle(x) # Handle(t)
<1>1. sock[t] \in [handle : Fds \cup {-1}, blocking : BOOLEAN]
  BY DEF CSInv, IInv, TypeOK
<1>2. Handle(t) \in Fds
  BY <1>1 DEF Handle
<1>3. fdt[Handle(t)].owner = t /\ \A x \in Socks : Handle(x) > 0 => fdt[Handle(x)].owner = x
  BY DEF CSInv, IInv, HandlesOwned
<1> QED BY <1>2, <1>3, SocketsAssumption DEF IsOpen, CSInv, IInv, TypeOK

LEMMA OtherRecords ==
  ASSUME CSInv, Records, NEW x \in Socks, OnlyOf(x)
  PROVE  /\ \A c \in Clients \ {x} : client'[c] = client[c] => ClientRecord(c)'
         /\ \A v \in Servers \ {x} : server'[v] = server[v] => ServerRecord(v)'
<1>1. ASSUME NEW t \in Socks \ {x}
      PROVE  /\ sock'[t] = sock[t] /\ Handle(t)' = Handle(t)
             /\ Handle(t) > 0 => Kept(Handle(t))
  BY <1>1, OwnHandle DEF OnlyOf, Handle
<1>2. ASSUME NEW c \in Clients \ {x}, client'[c] = client[c] PROVE ClientRecord(c)'
  BY <1>1, <1>2, SockIs DEF Records, ClientRecord, Agrees, PeerRecorded, Kept
<1>3. ASSUME NEW v \in Servers \ {x}, server'[v] = server[v] PROVE ServerRecord(v)'
  BY <1>1, <1>3, SockIs DEF Records, ServerRecord, Agrees, BindingRecorded, Kept
<1> QED BY <1>2, <1>3

\* It is enough to look at the object whose operation it is.
LEMMA ClientOnly ==
  ASSUME CSInv, Records, NEW c \in Clients, OnlyOf(c), UNCHANGED server,
         \A d \in Clients \ {c} : client'[d] = client[d], ClientRecord(c)'
  PROVE  Records'
BY OtherRecords, SockIs DEF Records

LEMMA ServerOnly ==
  ASSUME CSInv, Records, NEW v \in Servers, OnlyOf(v), UNCHANGED client,
         \A w \in Servers \ {v} : server'[w] = server[w], ServerRecord(v)'
  PROVE  Records'
BY OtherRecords, SockIs DEF Records

LEMMA ClientRecords ==
  ASSUME CSInv, Records, NEW c \in Clients, ClientNext(c)
  PROVE  Records'
<1>0. TypeOK /\ c \in Socks /\ DOMAIN client = Clients
  BY SockIs DEF CSInv, IInv, CSTypeOK
<1>1. ASSUME NEW type \in Types, NEW family \in Families, ClientCreate(c, type, family)
      PROVE  Records'
  <2>1. PICK ret \in {0, -1} : /\ SocketCreate(c, type, family, ret)
                               /\ client' = [client EXCEPT ![c] = FreshClient(ret = 0)]
    BY <1>1 DEF ClientCreate
  <2>2. client'[c].connected = FALSE /\ server' = server
        /\ \A d \in Clients \ {c} : client'[d] = client[d]
    BY <1>0, <1>1, <2>1 DEF FreshClient, ClientCreate
  <2>3. OnlyOf(c) /\ ClientRecord(c)'
    BY <1>0, <2>1, <2>2, CreateOnly DEF ClientRecord, Agrees
  <2> QED BY <2>2, <2>3, ClientOnly
<1>2. CASE ClientDestroy(c) \/ ClientDisconnect(c)
  <2>1. OnlyOf(c) /\ Handle(c)' = 0
    BY <1>0, <1>2, CloseOnly DEF ClientDestroy, ClientDisconnect
  <2>2. server' = server /\ \A d \in Clients \ {c} : client'[d] = client[d]
    BY <1>0, <1>2 DEF ClientDestroy, ClientDisconnect
  <2> QED BY <2>1, <2>2, ClientOnly DEF ClientRecord
<1>3. ASSUME NEW a \in Addrs, ClientConnect(c, a) PROVE Records'
  <2>1. server' = server /\ \A d \in Clients \ {c} : client'[d] = client[d]
    BY <1>0, <1>3 DEF ClientConnect
  <2>2. CASE SocketConnect(c, a, 0) /\ client' = [client EXCEPT ![c].connected = TRUE, ![c].remote = a]
    <3>1. /\ OnlyOf(c) /\ sock' = sock
          /\ Handle(c) \in Fds => fdt'[Handle(c)].nonblock = fdt[Handle(c)].nonblock
          /\ fdt'[Handle(c)].state = "connected" /\ fdt'[Handle(c)].family = a.family
          /\ fdt'[Handle(c)].peer = a.port
               \/ (Unfinished(c) /\ fdt'[Handle(c)].peer = fdt[Handle(c)].peer)
      BY <1>0, <2>2, ConnectOnly
    <3>2. RetrySame => fdt'[Handle(c)].peer = a.port
      BY <1>3, <3>1 DEF ClientConnect
    <3>3. client'[c].remote = a
      <4>1. client[c] \in [live : BOOLEAN, connected : BOOLEAN, lastError : {0, 1}, remote : Addrs]
        BY DEF CSInv, CSTypeOK
      <4>2. client'[c] = [client[c] EXCEPT !.connected = TRUE, !.remote = a]
        BY <1>0, <2>2
      <4> QED BY <4>1, <4>2
    <3>4. ClientRecord(c)'
      BY <1>0, <3>1, <3>2, <3>3, OwnHandle
         DEF Records, ClientRecord, Agrees, PeerRecorded, Handle
    <3> QED BY <2>1, <3>1, <3>4, ClientOnly
  <2>3. CASE SocketConnect(c, a, -1) /\ client' = [client EXCEPT ![c].lastError = errno']
    <3>1. /\ OnlyOf(c) /\ sock' = sock
          /\ Handle(c) \in Fds =>
               /\ fdt'[Handle(c)].nonblock = fdt[Handle(c)].nonblock
               /\ fdt[Handle(c)].state = "connected" => Kept(Handle(c))
      BY <1>0, <2>3, ConnectOnly
    <3>2. client'[c].connected = client[c].connected /\ client'[c].remote = client[c].remote
      BY <1>0, <2>3
    <3>3. ClientRecord(c)'
      BY <1>0, <3>1, <3>2, OwnHandle
         DEF Records, ClientRecord, Agrees, PeerRecorded, Handle, Kept
    <3> QED BY <2>1, <3>1, <3>3, ClientOnly
  <2> QED BY <1>3, <2>2, <2>3 DEF ClientConnect
<1>4. ASSUME NEW blocking \in BOOLEAN, ClientSetBlocking(c, blocking) PROVE Records'
  <2>1. /\ OnlyOf(c) /\ Handle(c)' = Handle(c)
        /\ IsOpen(Handle(c)) => /\ sock'[c].blocking = ~fdt'[Handle(c)].nonblock
                                /\ fdt'[Handle(c)] = [fdt[Handle(c)] EXCEPT !.nonblock = ~blocking]
    BY <1>0, <1>4, SetBlockingOnly DEF ClientSetBlocking
  <2>2. UNCHANGED <<client, server>>
    BY <1>4 DEF ClientSetBlocking
  <2>3. ClientRecord(c)'
    BY <1>0, <2>1, <2>2, OwnHandle DEF Records, ClientRecord, Agrees, PeerRecorded, Files
  <2> QED BY <2>1, <2>2, <2>3, ClientOnly
<1>5. CASE ClientSend(c) \/ ClientReceive(c)
  <2>1. UNCHANGED <<fdt, sock, server>>
    BY <1>5 DEF ClientSend, ClientReceive, SocketSend, SocketReceive
  <2>2. client' = client \/ client' = [client EXCEPT ![c].lastError = errno']
    BY <1>5 DEF ClientSend, ClientReceive
  <2>3. /\ client'[c].connected = client[c].connected /\ client'[c].remote = client[c].remote
        /\ \A d \in Clients \ {c} : client'[d] = client[d]
    <3>1. CASE client' = client
      BY <3>1
    <3>2. CASE client' = [client EXCEPT ![c].lastError = errno']
      BY <1>0, <3>2
    <3> QED BY <2>2, <3>1, <3>2
  <2>4. OnlyOf(c) /\ ClientRecord(c)'
    BY <2>1, <2>3 DEF OnlyOf, Kept, Records, ClientRecord, Agrees, PeerRecorded, Handle
  <2> QED BY <2>1, <2>3, <2>4, ClientOnly
<1> QED BY <1>1, <1>2, <1>3, <1>4, <1>5 DEF ClientNext, ClientUse

LEMMA ServerRecords ==
  ASSUME CSInv, Records, NEW v \in Servers, ServerNext(v)
  PROVE  Records'
<1>0. TypeOK /\ v \in Socks /\ DOMAIN server = Servers
      /\ server[v] \in [stage : {"none", "binding", "closing", "live"}, addr : Addrs]
  BY SockIs DEF CSInv, IInv, CSTypeOK
<1>1. ASSUME NEW type \in Types, NEW family \in Families, NEW a \in Addrs,
             ServerCreate(v, type, family, a)
      PROVE  Records'
  <2>1. PICK ret \in {0, -1} :
          /\ SocketCreate(v, type, family, ret)
          /\ server' = [server EXCEPT ![v] =
                          IF ret = 0 THEN [stage |-> "binding", addr |-> a] ELSE Absent]
    BY <1>1 DEF ServerCreate
  <2>2. server'[v].stage # "live" /\ client' = client
        /\ \A w \in Servers \ {v} : server'[w] = server[w]
    BY <1>0, <1>1, <2>1 DEF Absent, ServerCreate
  <2>3. OnlyOf(v) /\ ServerRecord(v)'
    BY <1>0, <2>1, <2>2, CreateOnly DEF ServerRecord, Agrees
  <2> QED BY <2>2, <2>3, ServerOnly
<1>2. CASE ServerCreateBind(v)
  <2>1. client' = client /\ \A w \in Servers \ {v} : server'[w] = server[w]
    BY <1>0, <1>2 DEF ServerCreateBind
  <2>2. PICK ret \in {0, -1} :
          /\ SocketBind(v, server[v].addr, ret)
          /\ server' = [server EXCEPT ![v].stage = IF ret = 0 THEN "live" ELSE "closing"]
    BY <1>2 DEF ServerCreateBind
  <2>3. server'[v].addr = server[v].addr /\ (server'[v].stage = "live" => ret = 0)
    BY <1>0, <2>2
  <2>4. /\ OnlyOf(v) /\ sock' = sock
        /\ Handle(v) \in Fds => fdt'[Handle(v)].nonblock = fdt[Handle(v)].nonblock
        /\ ret = 0 => /\ fdt'[Handle(v)].family = server[v].addr.family
                      /\ fdt'[Handle(v)].port \in Ports
                      /\ server[v].addr.port \in {0, fdt'[Handle(v)].port}
    BY <1>0, <2>2, BindOnly
  <2>5. ServerRecord(v)'
    BY <1>0, <2>3, <2>4, OwnHandle, SocketsAssumption
       DEF Records, ServerRecord, Agrees, BindingRecorded, Handle
  <2> QED BY <2>1, <2>4, <2>5, ServerOnly
<1>3. CASE ServerCreateFail(v) \/ ServerDestroy(v)
  <2>1. OnlyOf(v) /\ Handle(v)' = 0
    BY <1>0, <1>3, CloseOnly DEF ServerCreateFail, ServerDestroy, ServerRelease
  <2>2. client' = client /\ \A w \in Servers \ {v} : server'[w] = server[w]
    BY <1>0, <1>3 DEF ServerCreateFail, ServerDestroy, ServerRelease
  <2> QED BY <2>1, <2>2, ServerOnly DEF ServerRecord
<1>4. CASE ServerListen(v)
  <2>1. UNCHANGED <<client, server>> /\ \E ret \in {0, -1} : SocketListen(v, ret)
    BY <1>4 DEF ServerListen
  <2>2. /\ OnlyOf(v) /\ sock' = sock
        /\ Handle(v) \in Fds =>
             /\ fdt'[Handle(v)].nonblock = fdt[Handle(v)].nonblock
             /\ fdt'[Handle(v)].family = fdt[Handle(v)].family
             /\ fdt[Handle(v)].port # 0 => fdt'[Handle(v)].port = fdt[Handle(v)].port
    BY <1>0, <2>1, ListenOnly
  <2>3. ServerRecord(v)'
    BY <1>0, <2>1, <2>2, OwnHandle DEF Records, ServerRecord, Agrees, BindingRecorded, Handle
  <2> QED BY <2>1, <2>2, <2>3, ServerOnly
<1>5. ASSUME NEW r \in Raws, ServerAccept(v, r) PROVE Records'
  <2>1. UNCHANGED <<client, server>> /\ r \in Socks \ (Clients \cup Servers) /\ OnlyOf(r)
    BY <1>0, <1>5, SockIs, AcceptOnly DEF ServerAccept
  <2> QED BY <2>1, OtherRecords DEF Records
<1>6. ASSUME NEW blocking \in BOOLEAN, ServerSetBlocking(v, blocking) PROVE Records'
  <2>1. /\ OnlyOf(v) /\ Handle(v)' = Handle(v)
        /\ IsOpen(Handle(v)) => /\ sock'[v].blocking = ~fdt'[Handle(v)].nonblock
                                /\ fdt'[Handle(v)] = [fdt[Handle(v)] EXCEPT !.nonblock = ~blocking]
    BY <1>0, <1>6, SetBlockingOnly DEF ServerSetBlocking
  <2>2. UNCHANGED <<client, server>>
    BY <1>6 DEF ServerSetBlocking
  <2>3. ServerRecord(v)'
    BY <1>0, <2>1, <2>2, OwnHandle DEF Records, ServerRecord, Agrees, BindingRecorded, Files
  <2> QED BY <2>1, <2>2, <2>3, ServerOnly
<1> QED BY <1>1, <1>2, <1>3, <1>4, <1>5, <1>6 DEF ServerNext, ServerUse

LEMMA OthersRecords ==
  ASSUME CSInv, Records, Others
  PROVE  Records'
<1>0. TypeOK
  BY DEF CSInv, IInv
<1>1. ASSUME NEW r \in Raws, RawUse(r) PROVE Records'
  <2>1. UNCHANGED <<client, server>> /\ r \in Socks \ (Clients \cup Servers)
    BY <1>1, SockIs DEF RawUse, RawClose, RawZero, RawSetBlocking
  <2>2. OnlyOf(r)
    BY <1>0, <1>1, <2>1, CloseOnly, ZeroOnly, SetBlockingOnly
       DEF RawUse, RawClose, RawZero, RawSetBlocking
  <2> QED BY <2>1, <2>2, OtherRecords DEF Records
<1>2. CASE Kernel
  <2>1. PICK fd \in Fds : ConnectDone(fd) /\ UNCHANGED <<client, server>>
    BY <1>2 DEF Kernel
  <2>2. /\ sock' = sock
        /\ \A h \in Fds : /\ fdt'[h].nonblock = fdt[h].nonblock /\ fdt'[h].family = fdt[h].family
                          /\ fdt'[h].port = fdt[h].port
                          /\ fdt[h].state = "connected" => Kept(h)
    BY <1>0, <2>1, ConnectDoneOnly
  <2>3. \A t \in Socks : Handle(t) > 0 => Handle(t) \in Fds
    BY OwnHandle
  <2>4. ASSUME NEW c \in Clients PROVE ClientRecord(c)'
    BY <2>1, <2>2, <2>3, SockIs DEF Records, ClientRecord, Agrees, PeerRecorded, Kept, Handle
  <2>5. ASSUME NEW v \in Servers PROVE ServerRecord(v)'
    BY <2>1, <2>2, <2>3, SockIs DEF Records, ServerRecord, Agrees, BindingRecorded, Handle
  <2> QED BY <2>4, <2>5 DEF Records
<1> QED BY <1>1, <1>2 DEF Others

LEMMA RecordsKept == CSInv /\ Records /\ [Next]_vars => Records'
<1>1. ASSUME CSInv, Records, UNCHANGED vars PROVE Records'
  BY <1>1 DEF vars, Records, ClientRecord, ServerRecord, Agrees, PeerRecorded, BindingRecorded, Handle
<1> QED BY <1>1, ClientRecords, ServerRecords, OthersRecords DEF Next

LEMMA InitRecords == CSInit => Records
<1>1. CSInit => \A t \in Socks : ~(Handle(t) > 0)
  BY DEF CSInit, Init, Handle, NULL
<1> QED BY <1>1, SockIs DEF Records, ClientRecord, ServerRecord

LEMMA RecordsInvariant == Spec => []Records
BY InitRecords, RecordsKept, CSInvariant, PTL DEF Spec

\* The client and server layers keep their types, for any number of objects.
THEOREM CSTypes == Spec => []CSTypeOK
<1>1. CSInv => CSTypeOK
  BY DEF CSInv
<1> QED BY <1>1, CSInvariant, PTL

\* The mode that the field blocking tells (and the Windows accept restores) is
\* that of the descriptor, whatever other objects do with theirs.
THEOREM ModesAgree == Spec => []FlagsAgree
<1>1. Records => FlagsAgree
  BY DEF Records, ClientRecord, ServerRecord, FlagsAgree
<1> QED BY <1>1, RecordsInvariant, PTL

\* A live server that was created with a port is bound there, in the family that
\* get_address returns, from the end of server_create to destroy; one that was
\* created with port 0 is not covered (ServerAddressIsBound fails of it).
THEOREM ServersBound == Spec => []NamedPortBound
<1>1. Records => NamedPortBound
  BY DEF Records, ServerRecord, BindingRecorded, NamedPortBound, AddressIsBound
<1> QED BY <1>1, RecordsInvariant, PTL

\* remote_addr is the peer of a connected client's descriptor, when callers
\* retry an unfinished connect with its own address.
THEOREM RemoteRecorded == ASSUME RetrySame PROVE Spec => []RemoteMatchesKernel
<1>1. Records => RemoteMatchesKernel
  BY DEF Records, ClientRecord, PeerRecorded, RemoteMatchesKernel
<1> QED BY <1>1, RecordsInvariant, PTL

=============================================================================
