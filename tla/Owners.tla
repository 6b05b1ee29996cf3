------------------------------- MODULE Owners -------------------------------
(***************************************************************************)
(* The C++ classes Client and Server (fossil/network/client.h, server.h):  *)
(* an object owns the C object its handle points to, and can be moved but  *)
(* not copied.  Several threads use objects of their own; the steps of a   *)
(* Server's constructor are those of fossil_net_server_create.             *)
(*                                                                         *)
(* A method of an object whose handle is nullptr fails and changes         *)
(* nothing, as every function of client.c and server.c does with NULL.     *)
(***************************************************************************)
EXTENDS ClientServer

CONSTANTS
  ClientObjs, ServerObjs,   \* the C++ objects of class Client and Server
  Null,                     \* nullptr
  Gone                      \* not yet constructed, or destroyed

Objs     == ClientObjs \cup ServerObjs
Pointees == Clients \cup Servers

ASSUME OwnersAssumption ==
  /\ ClientObjs \cap ServerObjs = {}
  /\ Null \notin Pointees /\ Gone \notin Pointees /\ Null # Gone

VARIABLES
  handle,   \* handle_ of each Client, server_ of each Server
  making    \* the C object that a Server's constructor is making

ovars == <<fdt, sock, errno, client, server, handle, making>>

OInit ==
  /\ CSInit
  /\ handle = [x \in Objs |-> Gone]
  /\ making = [y \in ServerObjs |-> Null]

Point(x, p) == handle' = [handle EXCEPT ![x] = p]

-----------------------------------------------------------------------------
(* Constructors.  create returns NULL for strings it does not know and     *)
(* when it has no memory, before it has changed anything.                  *)
Constructible(x) == /\ handle[x] = Gone
                    /\ x \in ServerObjs => making[x] = Null

ConstructNull(x) == Constructible(x) /\ Point(x, Null) /\ UNCHANGED <<vars, making>>

ClientConstruct(x) ==
  /\ Constructible(x)
  /\ \E c \in Clients, type \in Types, family \in Families :
       /\ ClientCreate(c, type, family)
       /\ Point(x, IF client'[c].live THEN c ELSE Null)
  /\ UNCHANGED making

ServerConstruct(y) ==
  /\ Constructible(y)
  /\ \E v \in Servers, type \in Types, family \in Families, a \in Addrs :
       /\ ServerCreate(v, type, family, a)
       /\ IF server'[v].stage = "binding"
          THEN making' = [making EXCEPT ![y] = v] /\ UNCHANGED handle
          ELSE Point(y, Null) /\ UNCHANGED making

ServerConstructBind(y) ==
  /\ making[y] # Null
  /\ ServerCreateBind(making[y])
  /\ IF server'[making[y]].stage = "live"
     THEN Point(y, making[y]) /\ making' = [making EXCEPT ![y] = Null]
     ELSE UNCHANGED <<handle, making>>

ServerConstructFail(y) ==
  /\ making[y] # Null
  /\ ServerCreateFail(making[y])
  /\ Point(y, Null) /\ making' = [making EXCEPT ![y] = Null]

-----------------------------------------------------------------------------
(* Destructor and moves, alike in the two classes.                         *)
Release(p) ==
  \/ p \in Clients /\ ClientDestroy(p)
  \/ p \in Servers /\ ServerDestroy(p)
  \/ p = Null /\ UNCHANGED vars

Destruct(x) ==
  /\ handle[x] # Gone
  /\ Release(handle[x])
  /\ Point(x, Gone)
  /\ UNCHANGED making

SameClass(x, other) == x \in ClientObjs <=> other \in ClientObjs

\* Mutant: the source keeps its pointer.
MoveConstructCopies(x, other) ==
  /\ SameClass(x, other) /\ Constructible(x) /\ handle[other] # Gone
  /\ Point(x, handle[other])
  /\ UNCHANGED <<vars, making>>

MoveConstruct(x, other) ==
  /\ SameClass(x, other) /\ Constructible(x) /\ handle[other] # Gone
  /\ handle' = [handle EXCEPT ![x] = handle[other], ![other] = Null]
  /\ UNCHANGED <<vars, making>>

\* Mutant: what the target owned is forgotten.
MoveAssignForgets(x, other) ==
  /\ SameClass(x, other) /\ x # other
  /\ handle[x] # Gone /\ handle[other] # Gone
  /\ handle' = [handle EXCEPT ![x] = handle[other], ![other] = Null]
  /\ UNCHANGED <<vars, making>>

\* Assigning an object to itself changes nothing.
MoveAssign(x, other) ==
  /\ SameClass(x, other) /\ x # other
  /\ handle[x] # Gone /\ handle[other] # Gone
  /\ Release(handle[x])
  /\ handle' = [handle EXCEPT ![x] = handle[other], ![other] = Null]
  /\ UNCHANGED making

-----------------------------------------------------------------------------
(* Methods.                                                                *)
ClientMethod(x) ==
  handle[x] \in Clients /\ ClientUse(handle[x]) /\ UNCHANGED <<handle, making>>

ServerMethod(y) ==
  handle[y] \in Servers /\ ServerUse(handle[y]) /\ UNCHANGED <<handle, making>>

-----------------------------------------------------------------------------
ObjNext(x) ==
  \/ ConstructNull(x)
  \/ Destruct(x)
  \/ \E other \in Objs : MoveConstruct(x, other) \/ MoveAssign(x, other)

ServerObjNext(y) ==
  ServerConstruct(y) \/ ServerConstructBind(y) \/ ServerConstructFail(y) \/ ServerMethod(y)

ONext ==
  \/ \E x \in Objs : ObjNext(x)
  \/ \E x \in ClientObjs : ClientConstruct(x) \/ ClientMethod(x)
  \/ \E y \in ServerObjs : ServerObjNext(y)
  \/ Others /\ UNCHANGED <<handle, making>>

OSpec == OInit /\ [][ONext]_ovars

-----------------------------------------------------------------------------
(* Properties.                                                             *)

\* Every variable has its type.
OTypeOK ==
  /\ CSTypeOK
  /\ handle \in [Objs -> Pointees \cup {Null, Gone}]
  /\ \A x \in Objs : handle[x] \in Clients => x \in ClientObjs
  /\ making \in [ServerObjs -> Servers \cup {Null}]

\* Through every move, no handle dangles and no C object is shared or lost:
\* each live client or server is pointed to by exactly one object, and each
\* server that is being made by exactly one constructor.
Holders(p) == {x \in Objs : handle[x] = p}
Makers(v)  == {y \in ServerObjs : making[y] = v}
OneOwner ==
  /\ \A c \in Clients : IF client[c].live THEN \E x \in Objs : Holders(c) = {x}
                                          ELSE Holders(c) = {}
  /\ \A v \in Servers :
       CASE server[v].stage = "none" -> Holders(v) = {} /\ Makers(v) = {}
         [] server[v].stage = "live" -> Makers(v) = {} /\ \E x \in Objs : Holders(v) = {x}
         [] OTHER -> Holders(v) = {} /\ \E y \in ServerObjs : Makers(v) = {y}

\* When every Client and Server has been destroyed, however they were moved,
\* constructed and disconnected before, no descriptor of theirs is open.
NothingLeft ==
  (\A x \in Objs : handle[x] = Gone) /\ (\A y \in ServerObjs : making[y] = Null) =>
    \A p \in Pointees : ~Holds(p)

\* The classes use client.c, server.c and socket.c as any C program does.
ImplementsLayers == Spec

=============================================================================
