--------------------------- MODULE AddressStructs ---------------------------
(***************************************************************************)
(* The structures fossil_net_address_t and fossil_net_mac_t and the calls  *)
(* that fill, copy, use and print them (code/logic/socket.c, with the      *)
(* records that client.c and server.c keep).  An address has two texts:    *)
(* bind and connect use ip, address_to_string prefers addr.                *)
(*                                                                         *)
(* A text is one of a small set; what inet_pton, inet_ntop, the resolver   *)
(* and sscanf make of it is given by functions.  A text that inet_pton     *)
(* accepts fits the 64 bytes of a field.  Callers leave the fields alone,  *)
(* but for the port, which resolve does not know.  Calls that fail and     *)
(* write nothing are stuttering steps.                                     *)
(***************************************************************************)
EXTENDS Naturals

CONSTANTS
  Callers, ClientRecs, ServerRecs,  \* structures of callers, and remote_addr and addr
                                    \* of clients and servers
  Numbers, Any,                     \* binary addresses, and the wildcard
  Texts,                            \* Texts[f]: what inet_pton accepts for family f
  Num,                              \* Num[f][t]: the binary address of such a text
  Canon,                            \* Canon[f][n]: the text inet_ntop makes
  Hosts,                            \* Hosts[name]: IPv4 addresses of a name, none if unknown
  Ports,
  Macs,                             \* MAC structures
  Bytes,                            \* six bytes
  Scan,                             \* Scan[text]: the bytes sscanf reads, {} if not six
  Hex,                              \* Hex[bytes]: their text, in capitals
  Unwritten                         \* bytes and text no call has written

Families == {"ipv4", "ipv6"}
Structs  == Callers \cup ClientRecs \cup ServerRecs
Names    == DOMAIN Hosts
IpTexts  == Texts["ipv4"] \cup Texts["ipv6"]

ASSUME AddressAssumption ==
  /\ Any \in Numbers /\ 0 \in Ports
  /\ Texts["ipv4"] \cap Texts["ipv6"] = {}
  /\ "" \notin IpTexts /\ Names \cap IpTexts = {}
  /\ \A f \in Families : /\ \A t \in Texts[f] : Num[f][t] \in Numbers
                         /\ \A n \in Numbers : Canon[f][n] \in Texts[f] /\ Num[f][Canon[f][n]] = n
  /\ \A name \in Names : Hosts[name] \subseteq Numbers
ASSUME MacAssumption ==
  /\ Unwritten \notin Bytes
  /\ \A t \in DOMAIN Scan : Scan[t] \subseteq Bytes
  /\ \A b \in Bytes : Hex[b] \in DOMAIN Scan /\ Hex[b] # Unwritten /\ Scan[Hex[b]] = {b}

VARIABLES
  addrs,  \* the address structures
  meant,  \* history: what the call that filled a structure was told, {} if it failed
  macs    \* the MAC structures

avars == <<addrs, meant, macs>>

Address(f, ip, p, addr) == [ip |-> ip, port |-> p, addr |-> addr, family |-> f]

Zero == Address("", "", 0, "")

AInit ==
  /\ addrs = [a \in Structs |-> Zero]
  /\ meant = [a \in Structs |-> {}]
  /\ macs = [m \in Macs |-> [bytes |-> Unwritten, string |-> Unwritten]]

-----------------------------------------------------------------------------
(* What bind and connect take a structure for, and what is printed.        *)

\* What inet_pton returns is ignored: of a text it refuses, the zeros remain.
Endpoint(a) ==
  IF a.family = "" THEN {}
  ELSE {<<a.family, IF a.ip \in Texts[a.family] THEN Num[a.family][a.ip] ELSE Any, a.port>>}

Printed(a) ==
  IF a.family = "" THEN {}
  ELSE {<<a.family, IF a.addr # "" THEN a.addr ELSE a.ip, a.port>>}

-----------------------------------------------------------------------------
(* The calls that fill a structure of the caller.                          *)
Fill(a, value, told) ==
  /\ addrs' = [addrs EXCEPT ![a] = value]
  /\ meant' = [meant EXCEPT ![a] = told]

FamiliesOf(t) == {f \in Families : t \in Texts[f]}

Parsed(t, p) ==
  Address(IF FamiliesOf(t) = {} THEN "" ELSE CHOOSE f \in FamiliesOf(t) : TRUE, t, p, "")

Told(t, p) == {<<f, Num[f][t], p>> : f \in FamiliesOf(t)}

\* Mutant: the structure is not cleared first.
AddressParseUncleared(a, t, p) ==
  Fill(a, [Parsed(t, p) EXCEPT !.addr = addrs[a].addr], Told(t, p))

AddressParse(a, t, p) == Fill(a, Parsed(t, p), Told(t, p))

\* Mutant: the structure is cleared only when there is an answer.
ResolveClearsLate(a, name) ==
  \/ \E f \in FamiliesOf(name) :
       Fill(a, Address(f, name, 0, name), Told(name, 0))
  \/ \E n \in IF name \in Names THEN Hosts[name] ELSE {} : LET t == Canon["ipv4"][n] IN
       Fill(a, Address("ipv4", t, 0, t), {<<"ipv4", n, 0>>})
  \/ FamiliesOf(name) = {} /\ Fill(a, addrs[a], {})

\* An address, or a name: the resolver may always fail.
Resolve(a, name) ==
  \/ \E f \in FamiliesOf(name) :
       Fill(a, Address(f, name, 0, name), Told(name, 0))
  \/ \E n \in IF name \in Names THEN Hosts[name] ELSE {} : LET t == Canon["ipv4"][n] IN
       Fill(a, Address("ipv4", t, 0, t), {<<"ipv4", n, 0>>})
  \/ FamiliesOf(name) = {} /\ Fill(a, Zero, {})

\* accept, told the address of the peer.
AcceptFills(a, f, n, p) ==
  Fill(a, Address(f, Canon[f][n], p, ""), {<<f, n, p>>})

\* get_local_address and get_peer_address, told by the kernel the address of
\* one end of a connection or the other; a call on a socket of no known family
\* (descriptor 0, after a close) clears the structure and fails.
GetLocalAddress(a, f, n, p) ==
  Fill(a, Address(f, Canon[f][n], p, Canon[f][n]), {<<f, n, p>>})

GetPeerAddress(a, f, n, p) ==
  Fill(a, Address(f, Canon[f][n], p, Canon[f][n]), {<<f, n, p>>})

OtherFamily(a) == Fill(a, Zero, {})

\* A caller that has resolved a name sets the port.
SetPort(a, p) ==
  Fill(a, [addrs[a] EXCEPT !.port = p], {<<e[1], e[2], p>> : e \in meant[a]})

-----------------------------------------------------------------------------
(* Records.  server_create without an address takes the wildcard of its    *)
(* family; with one of the other family bind fails, and the server is      *)
(* freed.  A client keeps the address it connected to.                     *)
Wildcard(f) == Canon[f][Any]

ServerCreate(v, f, p) ==
  \/ Fill(v, Address(f, "", p, Wildcard(f)), {<<f, Any, p>>})
  \/ \E t \in Texts[f] : Fill(v, Parsed(t, p), Told(t, p))

Copy(from, to) == Fill(to, addrs[from], meant[from])

ClientConnect(c, a) == Endpoint(addrs[a]) # {} /\ Copy(a, c)

GetRemoteAddress(c, a) == Copy(c, a)

GetAddress(v, a) == Copy(v, a)

-----------------------------------------------------------------------------
(* MAC addresses.  mac_get takes those of the first interface that has six *)
(* bytes, and answers 0 with nothing written when there is none.           *)
Written(b) == [bytes |-> b, string |-> Hex[b]]

MacGet(m, b) == macs' = [macs EXCEPT ![m] = Written(b)]

\* Mutant: the text is kept as it was given.
MacParseKeepsText(m, t) ==
  \E b \in Scan[t] : macs' = [macs EXCEPT ![m] = [bytes |-> b, string |-> t]]

MacParse(m, t) == \E b \in Scan[t] : macs' = [macs EXCEPT ![m] = Written(b)]

MacEqual(m1, m2) == macs[m1].bytes = macs[m2].bytes

-----------------------------------------------------------------------------
CallerNext(a) ==
  \/ \E t \in IpTexts \cup Names, p \in Ports : AddressParse(a, t, p)
  \/ \E name \in IpTexts \cup Names : Resolve(a, name)
  \/ \E f \in Families, n \in Numbers, p \in Ports :
       AcceptFills(a, f, n, p) \/ GetLocalAddress(a, f, n, p) \/ GetPeerAddress(a, f, n, p)
  \/ OtherFamily(a)
  \/ \E p \in Ports : SetPort(a, p)
  \/ \E c \in ClientRecs : ClientConnect(c, a) \/ GetRemoteAddress(c, a)
  \/ \E v \in ServerRecs : GetAddress(v, a)

AddressNext ==
  \/ \E a \in Callers : CallerNext(a)
  \/ \E v \in ServerRecs, f \in Families, p \in Ports : ServerCreate(v, f, p)

MacNext ==
  \E m \in Macs : \/ \E b \in Bytes : MacGet(m, b)
                  \/ \E t \in DOMAIN Scan : MacParse(m, t)

ANext ==
  \/ AddressNext /\ UNCHANGED macs
  \/ MacNext /\ UNCHANGED <<addrs, meant>>

ASpec == AInit /\ [][ANext]_avars

-----------------------------------------------------------------------------
(* Properties.                                                             *)

\* Every variable has its type.
Endpoints == Families \X Numbers \X Ports
AddressTypeOK ==
  /\ addrs \in [Structs -> [ip : IpTexts \cup Names \cup {""}, port : Ports,
                            addr : IpTexts \cup {""}, family : Families \cup {""}]]
  /\ meant \in [Structs -> SUBSET Endpoints]
  /\ macs \in [Macs -> [bytes : Bytes \cup {Unwritten}, string : {Hex[b] : b \in Bytes} \cup {Unwritten}]]

\* Whichever calls have filled a structure before, bind and connect take it
\* for what the last one was told, and refuse one that a failing parse or
\* resolve has left (as test_client.c:207-213 counts on), although they
\* ignore what inet_pton says of its text.
ConnectsAsTold == \A a \in Structs : Endpoint(addrs[a]) = meant[a]

\* Though they read different texts, what is printed of a structure is an
\* address, and the one that bind and connect use: text and structure stay
\* in step through parse, resolve, accept, reading back and copying.
PrintsWhatConnects ==
  \A a \in Structs : \A e \in Printed(addrs[a]) :
    /\ e[2] \in Texts[e[1]]
    /\ Endpoint(addrs[a]) = {<<e[1], Num[e[1]][e[2]], e[3]>>}

\* Two MAC structures that hold an address are equal (their bytes are) exactly
\* when they print alike, however the texts they were parsed from were written.
EqualPrintAlike ==
  \A m1, m2 \in Macs : Unwritten \notin {macs[m1].bytes, macs[m2].bytes} =>
    (MacEqual(m1, m2) <=> macs[m1].string = macs[m2].string)

=============================================================================
