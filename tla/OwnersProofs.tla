---------------------------- MODULE OwnersProofs ----------------------------
(***************************************************************************)
(* Proofs about the C++ classes: for any number of objects, threads and C  *)
(* structures, the classes use the C layers as ClientServer says, and      *)
(* every live C object has exactly one owner.                              *)
(***************************************************************************)
EXTENDS Owners, ClientServerProofs

\* OneOwner, in the form that is inductive: handles are unique, and are exactly
\* the live objects; so for the constructors of Server, whose objects nobody
\* else touches while they run.
HandleTypes ==
  /\ handle \in [Objs -> Pointees \cup {Null, Gone}]
  /\ \A x \in Objs : handle[x] \in Clients => x \in ClientObjs
  /\ \A x \in Objs : handle[x] \in Servers => x \in ServerObjs
  /\ making \in [ServerObjs -> Servers \cup {Null}]

Unique ==
  /\ \A x, y \in Objs : handle[x] = handle[y] /\ handle[x] \in Pointees => x = y
  /\ \A x, y \in ServerObjs : making[x] = making[y] /\ making[x] \in Servers => x = y
  /\ \A y \in ServerObjs : making[y] \in Servers => handle[y] = Gone

Pointed(p) == \E x \in Objs : handle[x] = p
Made(v)    == \E y \in ServerObjs : making[y] = v

Exact ==
  /\ \A c \in Clients : client[c].live <=> Pointed(c)
  /\ \A v \in Servers : /\ server[v].stage = "live" <=> Pointed(v)
                        /\ server[v].stage \in {"binding", "closing"} <=> Made(v)

Owned == HandleTypes /\ Unique /\ Exact

-----------------------------------------------------------------------------
(* Pointers.                                                               *)

LEMMA Classes ==
  /\ \A c \in Clients : c \notin Servers /\ c # Null /\ c # Gone
  /\ \A v \in Servers : v \notin Clients /\ v # Null /\ v # Gone
  /\ \A x \in Objs : x \in ClientObjs <=> x \notin ServerObjs
  /\ Pointees = Clients \cup Servers /\ Null # Gone /\ Null \notin Pointees /\ Gone \notin Pointees
BY ClientServerAssumption, OwnersAssumption DEF Pointees, Objs

LEMMA OwnedIsOneOwner == CSTypeOK /\ Owned => OneOwner /\ OTypeOK
<1> SUFFICES ASSUME CSTypeOK, Owned PROVE OneOwner /\ OTypeOK
  OBVIOUS
<1>1. ASSUME NEW p \in Pointees, Pointed(p) PROVE \E x \in Objs : Holders(p) = {x}
  <2>1. PICK x \in Objs : handle[x] = p
    BY <1>1 DEF Pointed
  <2>2. Holders(p) = {x}
    BY <2>1 DEF Owned, Unique, Holders
  <2> QED
    BY <2>2
<1>2. ASSUME NEW p, ~Pointed(p) PROVE Holders(p) = {}
  BY <1>2 DEF Pointed, Holders
<1>3. ASSUME NEW v \in Servers, Made(v) PROVE \E y \in ServerObjs : Makers(v) = {y}
  <2>1. PICK y \in ServerObjs : making[y] = v
    BY <1>3 DEF Made
  <2>2. Makers(v) = {y}
    BY <2>1 DEF Owned, Unique, Makers
  <2> QED
    BY <2>2
<1>4. ASSUME NEW v, ~Made(v) PROVE Makers(v) = {}
  BY <1>4 DEF Made, Makers
<1>5. \A c \in Clients : IF client[c].live THEN \E x \in Objs : Holders(c) = {x}
                                           ELSE Holders(c) = {}
  BY <1>1, <1>2, Classes DEF Owned, Exact
<1>6. \A v \in Servers : server[v].stage \in {"none", "binding", "closing", "live"}
  BY DEF CSTypeOK
<1>7. OneOwner
  BY <1>1, <1>2, <1>3, <1>4, <1>5, <1>6, Classes DEF Owned, Exact, OneOwner
<1> QED
  BY <1>7 DEF OTypeOK, Owned, HandleTypes

\* What is changed when one handle is set to a pointer that is not a C object.
LEMMA Unpoint ==
  ASSUME Owned, NEW x \in Objs, NEW p \in {Null, Gone}, Point(x, p), making' = making,
         handle[x] = Gone => Constructible(x)
  PROVE  /\ HandleTypes' /\ Unique'
         /\ \A q \in Pointees : Pointed(q)' <=> Pointed(q) /\ handle[x] # q
<1>1. \A y \in Objs : handle'[y] = IF y = x THEN p ELSE handle[y]
  BY DEF Owned, HandleTypes, Point
<1>2. HandleTypes'
  <2>1. handle' \in [Objs -> Pointees \cup {Null, Gone}]
    BY DEF Owned, HandleTypes, Point
  <2> QED
    BY <1>1, <2>1, Classes DEF Owned, HandleTypes
<1>3. Unique'
  <2>1. \A y \in ServerObjs : making[y] \in Servers => handle'[y] = Gone
    BY <1>1, Classes DEF Owned, Unique, Constructible, Objs
  <2> QED
    BY <1>1, <2>1, Classes DEF Owned, Unique
<1>4. ASSUME NEW q \in Pointees PROVE Pointed(q)' <=> Pointed(q) /\ handle[x] # q
  BY <1>1, Classes DEF Owned, Unique, Pointed
<1> QED
  BY <1>2, <1>3, <1>4

\* A new C object is pointed to by one handle.
LEMMA PointNew ==
  ASSUME Owned, NEW x \in Objs, NEW p \in Pointees, Point(x, p), ~Pointed(p),
         handle[x] \notin Pointees, p \in Clients <=> x \in ClientObjs
  PROVE  /\ handle' \in [Objs -> Pointees \cup {Null, Gone}]
         /\ \A y \in Objs : /\ handle'[y] \in Clients => y \in ClientObjs
                            /\ handle'[y] \in Servers => y \in ServerObjs
         /\ \A y, z \in Objs : handle'[y] = handle'[z] /\ handle'[y] \in Pointees => y = z
         /\ \A q \in Pointees : Pointed(q)' <=> Pointed(q) \/ q = p
         /\ \A y \in Objs \ {x} : handle'[y] = handle[y]
<1>1. \A y \in Objs : handle'[y] = IF y = x THEN p ELSE handle[y]
  BY DEF Owned, HandleTypes, Point
<1>2. handle' \in [Objs -> Pointees \cup {Null, Gone}]
  BY DEF Owned, HandleTypes, Point
<1>3. ASSUME NEW y \in Objs
      PROVE  /\ handle'[y] \in Clients => y \in ClientObjs
             /\ handle'[y] \in Servers => y \in ServerObjs
  BY <1>1, Classes DEF Owned, HandleTypes
<1>4. \A y, z \in Objs : handle'[y] = handle'[z] /\ handle'[y] \in Pointees => y = z
  BY <1>1 DEF Owned, Unique, Pointed
<1>5. ASSUME NEW q \in Pointees PROVE Pointed(q)' <=> Pointed(q) \/ q = p
  BY <1>1 DEF Pointed
<1> QED
  BY <1>1, <1>2, <1>3, <1>4, <1>5

\* A pointer that moves from one handle to another stays unique.
LEMMA PointMove ==
  ASSUME Owned, NEW x \in Objs, NEW y \in Objs, x # y, SameClass(x, y), making' = making,
         handle' = [handle EXCEPT ![x] = handle[y], ![y] = Null], handle[y] # Gone,
         handle[x] = Gone => Constructible(x)
  PROVE  /\ HandleTypes' /\ Unique'
         /\ \A q \in Pointees : Pointed(q)' <=> Pointed(q) /\ handle[x] # q
<1>1. \A z \in Objs : handle'[z] = IF z = y THEN Null ELSE IF z = x THEN handle[y] ELSE handle[z]
  BY DEF Owned, HandleTypes
<1>2. HandleTypes'
  <2>1. handle' \in [Objs -> Pointees \cup {Null, Gone}]
    BY DEF Owned, HandleTypes
  <2> QED
    BY <1>1, <2>1, Classes DEF Owned, HandleTypes, SameClass
<1>3. Unique'
  <2>1. ASSUME NEW u \in Objs, NEW z \in Objs, handle'[u] = handle'[z], handle'[u] \in Pointees
        PROVE  u = z
    <3>1. u # y /\ z # y
      BY <1>1, <2>1, Classes
    <3>2. handle'[u] = handle[IF u = x THEN y ELSE u] /\ handle'[z] = handle[IF z = x THEN y ELSE z]
      BY <1>1, <3>1
    <3> QED
      BY <2>1, <3>1, <3>2 DEF Owned, Unique
  <2>2. \A z \in ServerObjs : making[z] \in Servers => handle'[z] = Gone
    BY <1>1, Classes DEF Owned, Unique, Constructible, Objs
  <2> QED
    BY <2>1, <2>2 DEF Owned, Unique
<1>4. ASSUME NEW q \in Pointees PROVE Pointed(q)' <=> Pointed(q) /\ handle[x] # q
  BY <1>1, Classes DEF Owned, Unique, Pointed
<1> QED
  BY <1>2, <1>3, <1>4
-----------------------------------------------------------------------------
(* What the calls on the C objects do to the objects there are.            *)

Live(c)  == client[c].live
Stage(v) == server[v].stage

SameObjects ==
  /\ \A c \in Clients : Live(c)' = Live(c)
  /\ \A v \in Servers : Stage(v)' = Stage(v)

LEMMA UseObjects ==
  ASSUME CSTypeOK,
         \/ \E c \in Clients : ClientUse(c)
         \/ \E v \in Servers : ServerUse(v)
         \/ Others
         \/ UNCHANGED vars
  PROVE  SameObjects
<1>1. ASSUME NEW c \in Clients, ClientUse(c) PROVE SameObjects
  <2>1. server' = server
    BY <1>1 DEF ClientUse, ClientConnect, ClientSetBlocking, ClientSend, ClientReceive,
                ClientDisconnect
  <2>2. ASSUME NEW d \in Clients PROVE client'[d].live = client[d].live
    <3>1. client[d] \in [live : BOOLEAN, connected : BOOLEAN, lastError : {0, 1}, remote : Addrs]
      BY DEF CSTypeOK
    <3>2. CASE (\E a \in Addrs : ClientConnect(c, a)) \/ ClientDisconnect(c)
      BY <3>1, <3>2 DEF ClientConnect, ClientDisconnect, CSTypeOK
    <3>3. CASE ClientSend(c) \/ ClientReceive(c)
      BY <3>1, <3>3 DEF ClientSend, ClientReceive, CSTypeOK
    <3>4. CASE \E blocking \in BOOLEAN : ClientSetBlocking(c, blocking)
      BY <3>4 DEF ClientSetBlocking
    <3> QED
      BY <1>1, <3>2, <3>3, <3>4 DEF ClientUse
  <2> QED
    BY <2>1, <2>2 DEF SameObjects, Live, Stage
<1>2. ASSUME NEW v \in Servers, ServerUse(v) PROVE SameObjects
  BY <1>2 DEF ServerUse, ServerListen, ServerAccept, ServerSetBlocking, SameObjects, Live, Stage
<1>3. CASE Others
  BY <1>3 DEF Others, RawUse, RawClose, RawZero, RawSetBlocking, Kernel, SameObjects, Live, Stage
<1>4. CASE UNCHANGED vars
  BY <1>4 DEF vars, SameObjects, Live, Stage
<1> QED
  BY <1>1, <1>2, <1>3, <1>4

\* Release of a pointer ends exactly the object it points to.
LEMMA ReleaseObjects ==
  ASSUME CSTypeOK, NEW p, Release(p)
  PROVE  /\ \A c \in Clients : Live(c)' <=> Live(c) /\ c # p
         /\ \A v \in Servers : Stage(v)' = IF v = p THEN "none" ELSE Stage(v)
         /\ p \in Servers => Stage(p) = "live"
<1>1. CASE p \in Clients /\ ClientDestroy(p)
  <2>1. server' = server /\ client' = [client EXCEPT ![p] = FreshClient(FALSE)]
    BY <1>1 DEF ClientDestroy
  <2>2. \A c \in Clients : client'[c].live = IF c = p THEN FALSE ELSE client[c].live
    BY <2>1 DEF FreshClient, CSTypeOK
  <2>3. \A c \in Clients : Live(c)' <=> Live(c) /\ c # p
    BY <2>2 DEF Live
  <2> QED
    BY <1>1, <2>1, <2>3, Classes DEF Stage
<1>2. CASE p \in Servers /\ ServerDestroy(p)
  <2>1. client' = client /\ server' = [server EXCEPT ![p] = Absent] /\ Stage(p) = "live"
    BY <1>2 DEF ServerDestroy, ServerRelease, Stage
  <2>2. \A v \in Servers : Stage(v)' = IF v = p THEN "none" ELSE Stage(v)
    BY <2>1 DEF Absent, CSTypeOK, Stage
  <2> QED
    BY <1>2, <2>1, <2>2, Classes DEF Live
<1>3. CASE p = Null /\ UNCHANGED vars
  BY <1>3, Classes DEF vars, Live, Stage
<1> QED
  BY <1>1, <1>2, <1>3 DEF Release

-----------------------------------------------------------------------------
(* One lemma for each action.                                              *)

LEMMA UseKeeps ==
  ASSUME Owned, SameObjects, UNCHANGED <<handle, making>>
  PROVE  Owned'
<1>1. HandleTypes' /\ Unique'
  BY DEF Owned, HandleTypes, Unique
<1>2. Exact'
  BY DEF Owned, Exact, SameObjects, Live, Stage, Pointed, Made
<1> QED
  BY <1>1, <1>2 DEF Owned

\* A handle loses what it pointed to, and that object ends.
LEMMA ReleaseKeeps ==
  ASSUME CSTypeOK, Owned, NEW x \in Objs, Release(handle[x]), making' = making,
         HandleTypes', Unique',
         \A q \in Pointees : Pointed(q)' <=> Pointed(q) /\ handle[x] # q
  PROVE  Owned'
<1> DEFINE p == handle[x]
<1>1. /\ \A c \in Clients : Live(c)' <=> Live(c) /\ c # p
      /\ \A v \in Servers : Stage(v)' = IF v = p THEN "none" ELSE Stage(v)
      /\ p \in Servers => Stage(p) = "live"
  BY ReleaseObjects
<1>2. \A v \in Servers : Made(v)' = Made(v)
  BY DEF Made
<1>3. ASSUME NEW c \in Clients PROVE Live(c)' <=> Pointed(c)'
  BY <1>1, Classes DEF Owned, Exact, Live
<1>4. ASSUME NEW v \in Servers
      PROVE  /\ Stage(v)' = "live" <=> Pointed(v)'
             /\ Stage(v)' \in {"binding", "closing"} <=> Made(v)'
  BY <1>1, <1>2, Classes DEF Owned, Exact, Stage
<1>5. Exact'
  BY <1>3, <1>4 DEF Exact, Live, Stage
<1> QED
  BY <1>5 DEF Owned

LEMMA DestructKeeps ==
  ASSUME CSTypeOK, Owned, NEW x \in Objs, Destruct(x)
  PROVE  Owned'
BY Unpoint, ReleaseKeeps DEF Destruct

LEMMA MoveAssignKeeps ==
  ASSUME CSTypeOK, Owned, NEW x \in Objs, NEW y \in Objs, MoveAssign(x, y)
  PROVE  Owned'
BY PointMove, ReleaseKeeps DEF MoveAssign

LEMMA MoveConstructKeeps ==
  ASSUME CSTypeOK, Owned, NEW x \in Objs, NEW y \in Objs, MoveConstruct(x, y)
  PROVE  Owned'
<1>1. x # y /\ handle[x] = Gone /\ making' = making /\ UNCHANGED vars
  BY DEF MoveConstruct, Constructible
<1>4. Constructible(x)
  BY DEF MoveConstruct
<1>2. HandleTypes' /\ Unique' /\ \A q \in Pointees : Pointed(q)' <=> Pointed(q)
  BY <1>1, <1>4, PointMove, Classes DEF MoveConstruct
<1>3. Exact'
  BY <1>1, <1>2, Classes DEF Owned, Exact, vars, Made
<1> QED
  BY <1>2, <1>3 DEF Owned

LEMMA ConstructNullKeeps ==
  ASSUME CSTypeOK, Owned, NEW x \in Objs, ConstructNull(x)
  PROVE  Owned'
<1>1. handle[x] = Gone /\ making' = making /\ UNCHANGED vars
  BY DEF ConstructNull, Constructible
<1>4. Constructible(x)
  BY DEF ConstructNull
<1>2. HandleTypes' /\ Unique' /\ \A q \in Pointees : Pointed(q)' <=> Pointed(q)
  BY <1>1, <1>4, Unpoint, Classes DEF ConstructNull
<1>3. Exact'
  BY <1>1, <1>2, Classes DEF Owned, Exact, vars, Made
<1> QED
  BY <1>2, <1>3 DEF Owned

LEMMA ClientConstructKeeps ==
  ASSUME CSTypeOK, Owned, NEW x \in ClientObjs, ClientConstruct(x)
  PROVE  Owned'
<1>0. x \in Objs /\ x \notin ServerObjs /\ handle[x] = Gone /\ making' = making
  BY Classes DEF Objs, ClientConstruct, Constructible
<1>1. PICK c \in Clients :
        /\ \E type \in Types, family \in Families : ClientCreate(c, type, family)
        /\ Point(x, IF client'[c].live THEN c ELSE Null)
  BY DEF ClientConstruct
<1>2. /\ ~Live(c) /\ server' = server
      /\ \A d \in Clients \ {c} : Live(d)' = Live(d)
  BY <1>1 DEF ClientCreate, CSTypeOK, Live
<1>3. Live(c)' \in BOOLEAN
  BY <1>1 DEF ClientCreate, FreshClient, CSTypeOK, Live
<1>4. \A v \in Servers : Stage(v)' = Stage(v) /\ Made(v)' = Made(v)
  BY <1>0, <1>2 DEF Stage, Made
<1>5. ~Pointed(c)
  BY <1>2 DEF Owned, Exact, Live
<1>6. CASE Live(c)'
  <2>0. Point(x, c)
    BY <1>1, <1>6 DEF Live
  <2>3. /\ handle' \in [Objs -> Pointees \cup {Null, Gone}]
        /\ \A y \in Objs : /\ handle'[y] \in Clients => y \in ClientObjs
                           /\ handle'[y] \in Servers => y \in ServerObjs
        /\ \A y, z \in Objs : handle'[y] = handle'[z] /\ handle'[y] \in Pointees => y = z
        /\ \A q \in Pointees : Pointed(q)' <=> Pointed(q) \/ q = c
        /\ \A y \in Objs \ {x} : handle'[y] = handle[y]
    <3>1. c \in Pointees /\ handle[x] \notin Pointees
      BY <1>0, Classes
    <3> QED
      BY <1>0, <1>5, <2>0, <3>1, PointNew
  <2>1. /\ HandleTypes' /\ Unique'
        /\ \A q \in Pointees : Pointed(q)' <=> Pointed(q) \/ q = c
    BY <1>0, <2>3 DEF Owned, HandleTypes, Unique, Objs
  <2>2. Exact'
    BY <1>2, <1>3, <1>4, <1>6, <2>1, Classes DEF Owned, Exact, Live, Stage
  <2> QED
    BY <2>1, <2>2 DEF Owned
<1>7. CASE ~Live(c)'
  <2>1. /\ HandleTypes' /\ Unique'
        /\ \A q \in Pointees : Pointed(q)' <=> Pointed(q)
    BY <1>0, <1>1, <1>7, Unpoint, Classes DEF Live, ClientConstruct
  <2>2. Exact'
    BY <1>2, <1>4, <1>5, <1>7, <2>1, Classes DEF Owned, Exact, Live, Stage
  <2> QED
    BY <2>1, <2>2 DEF Owned
<1> QED
  BY <1>6, <1>7

LEMMA ServerConstructKeeps ==
  ASSUME CSTypeOK, Owned, NEW y \in ServerObjs, ServerConstruct(y)
  PROVE  Owned'
<1>0. y \in Objs /\ handle[y] = Gone /\ making[y] = Null
  BY DEF Objs, ServerConstruct, Constructible
<1>1. PICK v \in Servers :
        /\ \E type \in Types, family \in Families, a \in Addrs : ServerCreate(v, type, family, a)
        /\ IF server'[v].stage = "binding"
           THEN making' = [making EXCEPT ![y] = v] /\ UNCHANGED handle
           ELSE Point(y, Null) /\ UNCHANGED making
  BY DEF ServerConstruct
<1>2. /\ Stage(v) = "none" /\ client' = client /\ Stage(v)' \in {"none", "binding"}
      /\ \A w \in Servers \ {v} : Stage(w)' = Stage(w)
  BY <1>1 DEF ServerCreate, Absent, CSTypeOK, Stage
<1>3. ~Pointed(v) /\ ~Made(v)
  BY <1>2 DEF Owned, Exact, Stage
<1>4. CASE Stage(v)' = "binding"
  <2>1. /\ making' = [making EXCEPT ![y] = v] /\ handle' = handle
        /\ \A z \in ServerObjs : making'[z] = IF z = y THEN v ELSE making[z]
    BY <1>1, <1>4 DEF Stage, Owned, HandleTypes
  <2>2. HandleTypes' /\ Unique'
    BY <1>0, <1>3, <2>1 DEF Owned, HandleTypes, Unique, Made
  <2>3. \A w \in Servers : Made(w)' <=> Made(w) \/ w = v
    BY <1>0, <2>1, Classes DEF Made
  <2>4. \A q \in Pointees : Pointed(q)' <=> Pointed(q)
    BY <2>1 DEF Pointed
  <2>5. Exact'
    BY <1>2, <1>3, <1>4, <2>3, <2>4, Classes DEF Owned, Exact, Stage
  <2> QED
    BY <2>2, <2>5 DEF Owned
<1>5. CASE Stage(v)' = "none"
  <2>1. Point(y, Null) /\ making' = making
    BY <1>1, <1>5 DEF Stage
  <2>2. /\ HandleTypes' /\ Unique'
        /\ \A q \in Pointees : Pointed(q)' <=> Pointed(q)
    BY <1>0, <2>1, Unpoint, Classes DEF ServerConstruct
  <2>3. Exact'
    BY <1>2, <1>5, <2>1, <2>2, Classes DEF Owned, Exact, Stage, Made
  <2> QED
    BY <2>2, <2>3 DEF Owned
<1> QED
  BY <1>2, <1>4, <1>5

\* A constructor lets go of the object it was making.
LEMMA MakingEnds ==
  ASSUME Owned, NEW y \in ServerObjs, NEW v \in Servers, making[y] = v,
         making' = [making EXCEPT ![y] = Null]
  PROVE  /\ making' \in [ServerObjs -> Servers \cup {Null}]
         /\ \A z, u \in ServerObjs : making'[z] = making'[u] /\ making'[z] \in Servers => z = u
         /\ \A w \in Servers : Made(w)' <=> Made(w) /\ w # v
<1>1. \A z \in ServerObjs : making'[z] = IF z = y THEN Null ELSE making[z]
  BY DEF Owned, HandleTypes
<1>2. making' \in [ServerObjs -> Servers \cup {Null}]
  BY DEF Owned, HandleTypes
<1>3. \A z, u \in ServerObjs : making'[z] = making'[u] /\ making'[z] \in Servers => z = u
  BY <1>1, Classes DEF Owned, Unique
<1>4. ASSUME NEW w \in Servers PROVE Made(w)' <=> Made(w) /\ w # v
  BY <1>1, Classes DEF Owned, Unique, Made
<1> QED
  BY <1>2, <1>3, <1>4

LEMMA ServerConstructBindKeeps ==
  ASSUME CSTypeOK, Owned, NEW y \in ServerObjs, ServerConstructBind(y)
  PROVE  Owned'
<1>9. PICK v \in Servers : making[y] = v
  BY DEF ServerConstructBind, Owned, HandleTypes
<1>0. y \in Objs /\ v \in Servers /\ making[y] = v
  BY <1>9 DEF Objs
<1>1. /\ Stage(v) = "binding" /\ client' = client /\ Stage(v)' \in {"live", "closing"}
      /\ \A w \in Servers \ {v} : Stage(w)' = Stage(w)
  BY <1>0 DEF ServerConstructBind, ServerCreateBind, CSTypeOK, Stage
<1>2. ~Pointed(v) /\ Made(v)
  BY <1>0, <1>1 DEF Owned, Exact, Stage
<1>3. CASE Stage(v)' = "live"
  <2>1. Point(y, v) /\ making' = [making EXCEPT ![y] = Null]
    BY <1>0, <1>3 DEF ServerConstructBind, Stage
  <2>2. handle[y] \notin Pointees /\ v \in Pointees /\ (v \in Clients <=> y \in ClientObjs)
    BY <1>0, Classes DEF Owned, Unique
  <2>6. /\ handle' \in [Objs -> Pointees \cup {Null, Gone}]
        /\ \A x \in Objs : /\ handle'[x] \in Clients => x \in ClientObjs
                           /\ handle'[x] \in Servers => x \in ServerObjs
        /\ \A x, z \in Objs : handle'[x] = handle'[z] /\ handle'[x] \in Pointees => x = z
        /\ \A q \in Pointees : Pointed(q)' <=> Pointed(q) \/ q = v
        /\ \A x \in Objs \ {y} : handle'[x] = handle[x]
    BY <1>0, <1>2, <2>1, <2>2, PointNew
  <2>7. /\ making' \in [ServerObjs -> Servers \cup {Null}]
        /\ \A z, u \in ServerObjs : making'[z] = making'[u] /\ making'[z] \in Servers => z = u
    BY <1>0, <2>1, MakingEnds
  <2>8. \A z \in ServerObjs : making'[z] \in Servers => handle'[z] = Gone
    BY <2>1, <2>6, Classes DEF Owned, HandleTypes, Unique, Objs
  <2>3. /\ HandleTypes' /\ Unique'
        /\ \A q \in Pointees : Pointed(q)' <=> Pointed(q) \/ q = v
    BY <2>6, <2>7, <2>8 DEF HandleTypes, Unique
  <2>4. \A w \in Servers : Made(w)' <=> Made(w) /\ w # v
    BY <1>0, <2>1, MakingEnds
  <2>5. Exact'
    BY <1>0, <1>1, <1>3, <2>3, <2>4, Classes DEF Owned, Exact, Stage
  <2> QED
    BY <2>3, <2>5 DEF Owned
<1>4. CASE Stage(v)' = "closing"
  <2>1. handle' = handle /\ making' = making
    BY <1>0, <1>4 DEF ServerConstructBind, Stage
  <2>2. HandleTypes' /\ Unique'
    BY <2>1 DEF Owned, HandleTypes, Unique
  <2>3. Exact'
    BY <1>0, <1>1, <1>2, <1>4, <2>1, Classes DEF Owned, Exact, Stage, Made, Pointed
  <2> QED
    BY <2>2, <2>3 DEF Owned
<1> QED
  BY <1>1, <1>3, <1>4

LEMMA ServerConstructFailKeeps ==
  ASSUME CSTypeOK, Owned, NEW y \in ServerObjs, ServerConstructFail(y)
  PROVE  Owned'
<1>9. PICK v \in Servers : making[y] = v
  BY DEF ServerConstructFail, Owned, HandleTypes
<1>0. y \in Objs /\ v \in Servers /\ making[y] = v
  BY <1>9 DEF Objs
<1>1. /\ Stage(v) = "closing" /\ client' = client /\ Stage(v)' = "none"
      /\ \A w \in Servers \ {v} : Stage(w)' = Stage(w)
  BY <1>0 DEF ServerConstructFail, ServerCreateFail, ServerRelease, Absent, CSTypeOK, Stage
<1>2. Point(y, Null) /\ making' = [making EXCEPT ![y] = Null]
  BY DEF ServerConstructFail
<1>3. /\ making' \in [ServerObjs -> Servers \cup {Null}]
      /\ \A z, u \in ServerObjs : making'[z] = making'[u] /\ making'[z] \in Servers => z = u
      /\ \A w \in Servers : Made(w)' <=> Made(w) /\ w # v
  BY <1>0, <1>2, MakingEnds
<1>4. \A x \in Objs : handle'[x] = IF x = y THEN Null ELSE handle[x]
  BY <1>2 DEF Owned, HandleTypes, Point
<1>5. HandleTypes'
  <2>1. handle' \in [Objs -> Pointees \cup {Null, Gone}]
    BY <1>2 DEF Owned, HandleTypes, Point
  <2> QED
    BY <1>3, <1>4, <2>1, Classes DEF Owned, HandleTypes
<1>6. Unique'
  <2>1. \A z \in ServerObjs : making'[z] \in Servers => handle'[z] = Gone
    BY <1>2, <1>4, Classes DEF Owned, HandleTypes, Unique, Objs
  <2> QED
    BY <1>3, <1>4, <2>1, Classes DEF Owned, Unique
<1>7. \A q \in Pointees : Pointed(q)' <=> Pointed(q)
  BY <1>0, <1>4, Classes DEF Owned, Unique, Pointed
<1>8. Exact'
  BY <1>0, <1>1, <1>3, <1>7, Classes DEF Owned, Exact, Stage
<1> QED
  BY <1>5, <1>6, <1>8 DEF Owned

-----------------------------------------------------------------------------
(* The classes are a program over the C layers.                            *)

LEMMA ReleaseUses == ASSUME NEW p, Release(p) PROVE [Next]_vars
<1>1. CASE p \in Clients /\ ClientDestroy(p)
  BY <1>1 DEF Next, ClientNext
<1>2. CASE p \in Servers /\ ServerDestroy(p)
  BY <1>2 DEF Next, ServerNext
<1> QED
  BY <1>1, <1>2 DEF Release

LEMMA ObjStep ==
  ASSUME CSTypeOK, Owned, NEW x \in Objs, ObjNext(x)
  PROVE  Owned' /\ [Next]_vars
<1>1. CASE ConstructNull(x)
  BY <1>1, ConstructNullKeeps DEF ConstructNull
<1>2. CASE Destruct(x)
  BY <1>2, DestructKeeps, ReleaseUses DEF Destruct
<1>3. CASE \E other \in Objs : MoveConstruct(x, other)
  BY <1>3, MoveConstructKeeps DEF MoveConstruct
<1>4. CASE \E other \in Objs : MoveAssign(x, other)
  BY <1>4, MoveAssignKeeps, ReleaseUses DEF MoveAssign
<1> QED
  BY <1>1, <1>2, <1>3, <1>4 DEF ObjNext

LEMMA ClientObjStep ==
  ASSUME CSTypeOK, Owned, NEW x \in ClientObjs, ClientConstruct(x) \/ ClientMethod(x)
  PROVE  Owned' /\ [Next]_vars
<1>1. CASE ClientConstruct(x)
  <2>1. Next
    BY <1>1 DEF ClientConstruct, Next, ClientNext
  <2> QED
    BY <1>1, <2>1, ClientConstructKeeps
<1>2. CASE ClientMethod(x)
  <2>1. SameObjects /\ Next
    BY <1>2, UseObjects DEF ClientMethod, Next, ClientNext
  <2> QED
    BY <1>2, <2>1, UseKeeps DEF ClientMethod
<1> QED
  BY <1>1, <1>2

LEMMA ServerObjStep ==
  ASSUME CSTypeOK, Owned, NEW y \in ServerObjs, ServerObjNext(y)
  PROVE  Owned' /\ [Next]_vars
<1>1. CASE ServerConstruct(y)
  <2>1. Next
    BY <1>1 DEF ServerConstruct, Next, ServerNext
  <2> QED
    BY <1>1, <2>1, ServerConstructKeeps
<1>2. CASE ServerConstructBind(y)
  <2>1. making[y] \in Servers
    BY <1>2 DEF ServerConstructBind, Owned, HandleTypes
  <2>2. Next
    BY <1>2, <2>1 DEF ServerConstructBind, Next, ServerNext
  <2> QED
    BY <1>2, <2>2, ServerConstructBindKeeps
<1>3. CASE ServerConstructFail(y)
  <2>1. making[y] \in Servers
    BY <1>3 DEF ServerConstructFail, Owned, HandleTypes
  <2>2. Next
    BY <1>3, <2>1 DEF ServerConstructFail, Next, ServerNext
  <2> QED
    BY <1>3, <2>2, ServerConstructFailKeeps
<1>4. CASE ServerMethod(y)
  <2>1. SameObjects /\ Next
    BY <1>4, UseObjects DEF ServerMethod, Next, ServerNext
  <2> QED
    BY <1>4, <2>1, UseKeeps DEF ServerMethod
<1> QED
  BY <1>1, <1>2, <1>3, <1>4 DEF ServerObjNext

LEMMA OwnedStep ==
  CSTypeOK /\ Owned /\ [ONext]_ovars => Owned' /\ [Next]_vars
<1> SUFFICES ASSUME CSTypeOK, Owned, [ONext]_ovars PROVE Owned' /\ [Next]_vars
  OBVIOUS
<1>1. CASE \E x \in Objs : ObjNext(x)
  BY <1>1, ObjStep
<1>2. CASE \E x \in ClientObjs : ClientConstruct(x) \/ ClientMethod(x)
  BY <1>2, ClientObjStep
<1>3. CASE \E y \in ServerObjs : ServerObjNext(y)
  BY <1>3, ServerObjStep
<1>4. CASE Others /\ UNCHANGED <<handle, making>>
  BY <1>4, UseObjects, UseKeeps DEF Next
<1>5. CASE UNCHANGED ovars
  <2>1. UNCHANGED vars /\ UNCHANGED <<handle, making>>
    BY <1>5 DEF ovars, vars
  <2> QED
    BY <2>1, UseObjects, UseKeeps
<1> QED
  BY <1>1, <1>2, <1>3, <1>4, <1>5 DEF ONext

LEMMA InitOwned == OInit => CSInit /\ Owned
<1> SUFFICES ASSUME OInit PROVE CSInit /\ Owned
  OBVIOUS
<1>1. HandleTypes /\ Unique
  BY Classes DEF OInit, HandleTypes, Unique
<1>2. \A c \in Clients : ~client[c].live
  BY DEF OInit, CSInit, FreshClient
<1>3. \A v \in Servers : server[v].stage = "none"
  BY DEF OInit, CSInit, Absent
<1>4. Exact
  BY <1>2, <1>3, Classes DEF OInit, Exact, Pointed, Made
<1> QED
  BY <1>1, <1>4 DEF OInit, Owned

LEMMA CSInvTypes == CSInv => CSTypeOK
BY DEF CSInv

\* The inductive invariant of the classes, with that of the layers under them.
THEOREM OwnersInvariant == OSpec => [](CSInv /\ Owned)
<1>1. OInit => CSInv /\ Owned
  BY InitOwned, InitCSInv
<1>2. CSInv /\ Owned /\ [ONext]_ovars => CSInv' /\ Owned'
  BY OwnedStep, NextCSInv, CSInvTypes
<1> QED
  BY <1>1, <1>2, PTL DEF OSpec

\* Client and Server only use client.c and server.c as any C program does: what
\* is proved of those programs is true of theirs.
THEOREM ClassesUseLayers == OSpec => ImplementsLayers
<1>1. OInit => CSInit
  BY InitOwned
<1>2. CSInv /\ Owned /\ [ONext]_ovars => [Next]_vars
  BY OwnedStep, CSInvTypes
<1> QED
  BY <1>1, <1>2, OwnersInvariant, PTL DEF OSpec, Spec, ImplementsLayers

\* Through every construction, move, assignment and destruction, each live C
\* object has exactly one owner and no handle dangles (client.h, server.h).
THEOREM Ownership == OSpec => []OneOwner
<1>1. CSInv /\ Owned => OneOwner
  BY OwnedIsOneOwner, CSInvTypes
<1> QED
  BY <1>1, OwnersInvariant, PTL

\* Every variable of the classes keeps its type.
THEOREM OwnersTypes == OSpec => []OTypeOK
<1>1. CSInv /\ Owned => OTypeOK
  BY OwnedIsOneOwner, CSInvTypes
<1> QED
  BY <1>1, OwnersInvariant, PTL

\* Once every Client and Server has been destroyed, no descriptor of theirs is
\* left open.
THEOREM AllReturned == OSpec => []NothingLeft
<1>1. CSInv /\ Owned => NothingLeft
  <2> SUFFICES ASSUME CSInv, Owned, \A x \in Objs : handle[x] = Gone,
                      \A y \in ServerObjs : making[y] = Null, NEW p \in Pointees
               PROVE  ~Holds(p)
    BY DEF NothingLeft
  <2>1. \A q \in Pointees : ~Pointed(q) /\ ~Made(q)
    BY Classes DEF Pointed, Made
  <2>2. CASE p \in Clients
    BY <2>1, <2>2, Classes DEF Owned, Exact, CSInv, NoOrphan
  <2>3. CASE p \in Servers
    <3>1. server[p].stage \in {"none", "binding", "closing", "live"}
      BY <2>3 DEF CSInv, CSTypeOK
    <3>2. server[p].stage = "none"
      BY <2>1, <2>3, <3>1, Classes DEF Owned, Exact
    <3> QED
      BY <2>3, <3>2 DEF CSInv, NoOrphan
  <2> QED
    BY <2>2, <2>3, Classes
<1> QED
  BY <1>1, OwnersInvariant, PTL

\* Objects own their descriptors: a moved, assigned or destroyed object closes
\* that of no other, and what each C object records of its descriptor stays true
\* (the blocking field, the address of a server with a port of its own), whatever is done through it.
THEOREM ClassesOwnDescriptors ==
  OSpec => [](NoOrphan /\ HandlesOwned /\ FlagsAgree /\ NamedPortBound) /\ ReleasedByOwner
<1>1. OSpec => Spec
  BY ClassesUseLayers DEF ImplementsLayers
<1> QED
  BY <1>1, NoOrphans, CSOwnHandles, ModesAgree, ServersBound, PTL

\* So does remote_addr of a Client, when a connect that is not finished is
\* called again with its own address.
THEOREM ClassesRecordRemote == ASSUME RetrySame PROVE OSpec => []RemoteMatchesKernel
<1>1. OSpec => Spec
  BY ClassesUseLayers DEF ImplementsLayers
<1> QED
  BY <1>1, RemoteRecorded, PTL

=============================================================================
