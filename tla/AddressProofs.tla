---------------------------- MODULE AddressProofs ----------------------------
(***************************************************************************)
(* For any texts, resolver, structures and MAC addresses: an address       *)
(* structure is used and printed as the call that filled it was told, and  *)
(* MAC structures are equal exactly when they print alike.                 *)
(*                                                                         *)
(* The calls fill one structure each, with a value that is Sane for what   *)
(* the call was told; the invariant says that every structure is.          *)
(***************************************************************************)
EXTENDS AddressStructs, TLAPS

Values == [ip : IpTexts \cup Names \cup {""}, port : Ports,
           addr : IpTexts \cup {""}, family : Families \cup {""}]

PrintsAs(v) ==
  \A e \in Printed(v) : /\ e[2] \in Texts[e[1]]
                        /\ Endpoint(v) = {<<e[1], Num[e[1]][e[2]], e[3]>>}

Sane(v, told) ==
  /\ v \in Values
  /\ told \in SUBSET Endpoints
  /\ Endpoint(v) = told
  /\ PrintsAs(v)

MacSane(m) ==
  m = [bytes |-> Unwritten, string |-> Unwritten] \/ \E b \in Bytes : m = Written(b)

AddressInv ==
  /\ addrs = [a \in Structs |-> addrs[a]] /\ meant = [a \in Structs |-> meant[a]]
  /\ \A a \in Structs : Sane(addrs[a], meant[a])

MacInv ==
  /\ macs = [m \in Macs |-> macs[m]]
  /\ \A m \in Macs : MacSane(macs[m])

-----------------------------------------------------------------------------
(* What the calls put into a structure is sane.                            *)

LEMMA AddressValue ==
  ASSUME NEW f \in Families \cup {""}, NEW ip \in IpTexts \cup Names \cup {""},
         NEW p \in Ports, NEW addr \in IpTexts \cup {""}
  PROVE  Address(f, ip, p, addr) \in Values
BY DEF Address, Values

\* A structure without a family is neither used nor printed.
LEMMA NoFamilySane ==
  ASSUME NEW ip \in IpTexts \cup Names \cup {""}, NEW p \in Ports
  PROVE  Sane(Address("", ip, p, ""), {})
<1> DEFINE v == Address("", ip, p, "")
<1>1. v \in Values
  BY AddressValue
<1>fields. v.family = ""
  BY DEF Address
<1> HIDE DEF v
<1>2. Endpoint(v) = {} /\ Printed(v) = {}
  BY <1>fields DEF Endpoint, Printed
<1> QED BY <1>1, <1>2 DEF Sane, PrintsAs, v

LEMMA ZeroSane == Sane(Zero, {})
<1>1. 0 \in Ports
  BY AddressAssumption
<1> QED BY <1>1, NoFamilySane DEF Zero

LEMMA OnePrinted ==
  ASSUME NEW v, NEW f, NEW t \in Texts[f], NEW p,
         Printed(v) = {<<f, t, p>>}, Endpoint(v) = {<<f, Num[f][t], p>>}
  PROVE  PrintsAs(v)
<1> SUFFICES ASSUME NEW e \in Printed(v)
             PROVE  /\ e[2] \in Texts[e[1]]
                    /\ Endpoint(v) = {<<e[1], Num[e[1]][e[2]], e[3]>>}
  BY DEF PrintsAs
<1>1. e[1] = f /\ e[2] = t /\ e[3] = p
  OBVIOUS
<1> QED BY <1>1

\* A structure of a known family whose two texts, when both are there, are
\* those of one address.
LEMMA FilledSane ==
  ASSUME NEW f \in Families, NEW t \in Texts[f], NEW u \in {"", t}, NEW p \in Ports
  PROVE  Sane(Address(f, t, p, u), {<<f, Num[f][t], p>>})
<1> DEFINE v == Address(f, t, p, u)
<1>1. t \in IpTexts /\ t # "" /\ f # ""
  BY AddressAssumption DEF IpTexts, Families
<1>2. v \in Values
  BY <1>1, AddressValue
<1>3. {<<f, Num[f][t], p>>} \in SUBSET Endpoints
  <2>1. Num[f][t] \in Numbers
    BY AddressAssumption
  <2>2. <<f, Num[f][t], p>> \in Endpoints
    BY <2>1 DEF Endpoints
  <2> QED BY <2>2
<1>fields. v.family = f /\ v.ip = t /\ v.port = p /\ v.addr = u
  BY DEF Address
<1> HIDE DEF v
<1>4. Endpoint(v) = {<<f, Num[f][t], p>>}
  BY <1>1, <1>fields DEF Endpoint
<1>5. Printed(v) = {<<f, t, p>>}
  BY <1>1, <1>fields DEF Printed
<1>6. PrintsAs(v)
  BY <1>4, <1>5, OnePrinted
<1> QED BY <1>2, <1>3, <1>4, <1>6 DEF Sane, v

\* A text is of at most one family.
LEMMA OneFamily ==
  ASSUME NEW t, NEW f \in FamiliesOf(t)
  PROVE  FamiliesOf(t) = {f} /\ t \in Texts[f] /\ f \in Families
<1>1. f \in Families /\ t \in Texts[f]
  BY DEF FamiliesOf
<1>2. ASSUME NEW g \in FamiliesOf(t) PROVE g = f
  <2>1. Texts["ipv4"] \cap Texts["ipv6"] = {}
    BY AddressAssumption
  <2>2. g \in {"ipv4", "ipv6"} /\ f \in {"ipv4", "ipv6"} /\ t \in Texts[g]
    BY <1>1, <1>2 DEF FamiliesOf, Families
  <2> QED BY <1>1, <2>1, <2>2
<1> QED BY <1>1, <1>2

LEMMA TextSane ==
  ASSUME NEW t, NEW f \in FamiliesOf(t), NEW u \in {"", t}, NEW p \in Ports
  PROVE  Sane(Address(f, t, p, u), Told(t, p))
<1>1. FamiliesOf(t) = {f} /\ t \in Texts[f] /\ f \in Families
  BY OneFamily
<1>2. Told(t, p) = {<<f, Num[f][t], p>>}
  BY <1>1 DEF Told
<1> QED BY <1>1, <1>2, FilledSane

LEMMA ParsedSane ==
  ASSUME NEW t \in IpTexts \cup Names, NEW p \in Ports
  PROVE  Sane(Parsed(t, p), Told(t, p))
<1>1. CASE FamiliesOf(t) = {}
  <2>1. Parsed(t, p) = Address("", t, p, "") /\ Told(t, p) = {}
    BY <1>1 DEF Parsed, Told
  <2> QED BY <2>1, NoFamilySane
<1>2. CASE FamiliesOf(t) # {}
  <2>1. PICK f \in FamiliesOf(t) : f = CHOOSE g \in FamiliesOf(t) : TRUE
    BY <1>2
  <2>2. Parsed(t, p) = Address(f, t, p, "")
    BY <1>2, <2>1 DEF Parsed
  <2> QED BY <2>2, TextSane
<1> QED BY <1>1, <1>2

LEMMA NumberSane ==
  ASSUME NEW f \in Families, NEW n \in Numbers, NEW p \in Ports, NEW u \in {"", Canon[f][n]}
  PROVE  Sane(Address(f, Canon[f][n], p, u), {<<f, n, p>>})
<1>1. Canon[f][n] \in Texts[f] /\ Num[f][Canon[f][n]] = n
  BY AddressAssumption
<1> QED BY <1>1, FilledSane

LEMMA WildcardSane ==
  ASSUME NEW f \in Families, NEW p \in Ports
  PROVE  Sane(Address(f, "", p, Wildcard(f)), {<<f, Any, p>>})
<1> DEFINE v == Address(f, "", p, Wildcard(f))
<1>1. /\ Wildcard(f) \in Texts[f] /\ Num[f][Wildcard(f)] = Any
      /\ Texts[f] \subseteq IpTexts /\ "" \notin IpTexts /\ f # "" /\ Any \in Numbers
  BY AddressAssumption DEF Wildcard, IpTexts, Families
<1>2. v \in Values /\ {<<f, Any, p>>} \in SUBSET Endpoints
  <2>1. v \in Values
    BY <1>1, AddressValue
  <2>2. <<f, Any, p>> \in Endpoints
    BY <1>1 DEF Endpoints
  <2> QED BY <2>1, <2>2
<1>fields. v.family = f /\ v.ip = "" /\ v.port = p /\ v.addr = Wildcard(f)
  BY DEF Address
<1> HIDE DEF v
<1>3. Endpoint(v) = {<<f, Any, p>>}
  BY <1>1, <1>fields DEF Endpoint
<1>4. Printed(v) = {<<f, Wildcard(f), p>>}
  BY <1>1, <1>fields DEF Printed
<1>5. PrintsAs(v)
  BY <1>1, <1>3, <1>4, OnePrinted
<1> QED BY <1>2, <1>3, <1>5 DEF Sane, v

LEMMA PortSane ==
  ASSUME NEW v, NEW told, Sane(v, told), NEW p \in Ports
  PROVE  Sane([v EXCEPT !.port = p], {<<e[1], e[2], p>> : e \in told})
<1> DEFINE w == [v EXCEPT !.port = p]
<1>1. /\ v \in Values /\ w \in Values
      /\ w.ip = v.ip /\ w.addr = v.addr /\ w.family = v.family /\ w.port = p
  BY DEF Sane, Values
<1>2. CASE v.family = ""
  <2>1. told = {} /\ Endpoint(w) = {} /\ Printed(w) = {}
    BY <1>1, <1>2 DEF Sane, Endpoint, Printed
  <2> QED BY <1>1, <2>1 DEF Sane, PrintsAs
<1>3. CASE v.family # ""
  <2> DEFINE n == IF v.ip \in Texts[v.family] THEN Num[v.family][v.ip] ELSE Any
             t == IF v.addr # "" THEN v.addr ELSE v.ip
  <2>1. told = {<<v.family, n, v.port>>} /\ Endpoint(w) = {<<v.family, n, p>>}
    BY <1>1, <1>3 DEF Sane, Endpoint
  <2>2. Printed(v) = {<<v.family, t, v.port>>} /\ Printed(w) = {<<v.family, t, p>>}
    BY <1>1, <1>3 DEF Printed
  <2>3. t \in Texts[v.family] /\ n = Num[v.family][t]
    <3> HIDE DEF n, t
    <3>1. Endpoint(v) = {<<v.family, n, v.port>>} /\ PrintsAs(v)
      BY <2>1 DEF Sane
    <3>2. <<v.family, t, v.port>> \in Printed(v)
      BY <2>2
    <3>3. /\ t \in Texts[v.family]
          /\ Endpoint(v) = {<<v.family, Num[v.family][t], v.port>>}
      BY <3>1, <3>2 DEF PrintsAs
    <3>4. <<v.family, n, v.port>> = <<v.family, Num[v.family][t], v.port>>
      BY <3>1, <3>3
    <3> QED BY <3>3, <3>4
  <2> HIDE DEF n, t, w
  <2>4. PrintsAs(w)
    BY <2>1, <2>2, <2>3, OnePrinted
  <2>5. {<<e[1], e[2], p>> : e \in told} = {<<v.family, n, p>>}
    BY <2>1
  <2>6. <<v.family, n, p>> \in Endpoints
    BY <2>1 DEF Sane, Endpoints
  <2> QED BY <1>1, <2>1, <2>4, <2>5, <2>6 DEF Sane, w
<1> QED BY <1>2, <1>3

-----------------------------------------------------------------------------
(* One structure changes in a step.                                        *)

LEMMA FillKeeps ==
  ASSUME AddressInv, NEW a \in Structs, NEW v, NEW told, Sane(v, told), Fill(a, v, told)
  PROVE  AddressInv'
BY DEF AddressInv, Fill

LEMMA CallerKeeps ==
  ASSUME AddressInv, NEW a \in Callers, CallerNext(a)
  PROVE  AddressInv'
<1> a \in Structs /\ ClientRecs \subseteq Structs /\ ServerRecs \subseteq Structs
  BY DEF Structs
<1>1. ASSUME NEW t \in IpTexts \cup Names, NEW p \in Ports, AddressParse(a, t, p)
      PROVE  AddressInv'
  BY <1>1, ParsedSane, FillKeeps DEF AddressParse
<1>2. ASSUME NEW name \in IpTexts \cup Names, Resolve(a, name)
      PROVE  AddressInv'
  <2>0. 0 \in Ports
    BY AddressAssumption
  <2>1. ASSUME NEW f \in FamiliesOf(name),
               Fill(a, Address(f, name, 0, name), Told(name, 0))
        PROVE  AddressInv'
    BY <2>0, <2>1, TextSane, FillKeeps
  <2>2. ASSUME NEW n \in IF name \in Names THEN Hosts[name] ELSE {},
               Fill(a, Address("ipv4", Canon["ipv4"][n], 0, Canon["ipv4"][n]), {<<"ipv4", n, 0>>})
        PROVE  AddressInv'
    <3>1. n \in Numbers /\ "ipv4" \in Families
      BY AddressAssumption DEF Families
    <3> QED BY <2>0, <2>2, <3>1, NumberSane, FillKeeps
  <2>3. ASSUME Fill(a, Zero, {}) PROVE AddressInv'
    BY <2>3, ZeroSane, FillKeeps
  <2> QED BY <1>2, <2>1, <2>2, <2>3 DEF Resolve
<1>3. ASSUME NEW f \in Families, NEW n \in Numbers, NEW p \in Ports, AcceptFills(a, f, n, p)
      PROVE  AddressInv'
  BY <1>3, NumberSane, FillKeeps DEF AcceptFills
<1>4. ASSUME NEW f \in Families, NEW n \in Numbers, NEW p \in Ports, GetLocalAddress(a, f, n, p) \/ GetPeerAddress(a, f, n, p)
      PROVE  AddressInv'
  BY <1>4, NumberSane, FillKeeps DEF GetLocalAddress, GetPeerAddress
<1>5. ASSUME OtherFamily(a) PROVE AddressInv'
  BY <1>5, ZeroSane, FillKeeps DEF OtherFamily
<1>6. ASSUME NEW p \in Ports, SetPort(a, p) PROVE AddressInv'
  <2>1. Sane(addrs[a], meant[a])
    BY DEF AddressInv
  <2> QED BY <1>6, <2>1, PortSane, FillKeeps DEF SetPort
<1>7. ASSUME NEW b \in Structs, NEW c \in Structs, Copy(b, c) PROVE AddressInv'
  <2>1. Sane(addrs[b], meant[b])
    BY DEF AddressInv
  <2> QED BY <1>7, <2>1, FillKeeps DEF Copy
<1>8. ASSUME NEW c \in ClientRecs, ClientConnect(c, a) \/ GetRemoteAddress(c, a)
      PROVE  AddressInv'
  BY <1>7, <1>8 DEF ClientConnect, GetRemoteAddress
<1>9. ASSUME NEW v \in ServerRecs, GetAddress(v, a) PROVE AddressInv'
  BY <1>7, <1>9 DEF GetAddress
<1> QED BY <1>1, <1>2, <1>3, <1>4, <1>5, <1>6, <1>8, <1>9 DEF CallerNext

LEMMA ServerKeeps ==
  ASSUME AddressInv, NEW v \in ServerRecs, NEW f \in Families, NEW p \in Ports, ServerCreate(v, f, p)
  PROVE  AddressInv'
<1> v \in Structs
  BY DEF Structs
<1>1. ASSUME NEW t \in Texts[f], Fill(v, Parsed(t, p), Told(t, p)) PROVE AddressInv'
  <2>1. t \in IpTexts
    BY DEF IpTexts, Families
  <2> QED BY <1>1, <2>1, ParsedSane, FillKeeps
<1> QED BY <1>1, WildcardSane, FillKeeps DEF ServerCreate

LEMMA MacKeeps == ASSUME MacInv, MacNext PROVE MacInv'
<1>1. PICK m \in Macs, b \in Bytes : macs' = [macs EXCEPT ![m] = Written(b)]
  BY MacAssumption DEF MacNext, MacGet, MacParse
<1>2. MacSane(Written(b))
  BY DEF MacSane
<1> QED BY <1>1, <1>2 DEF MacInv

LEMMA Inductive == ASpec => [](AddressInv /\ MacInv)
<1>1. AInit => AddressInv /\ MacInv
  BY ZeroSane DEF AInit, AddressInv, MacInv, MacSane
<1>2. AddressInv /\ MacInv /\ [ANext]_avars => (AddressInv /\ MacInv)'
  <2> SUFFICES ASSUME AddressInv, MacInv, [ANext]_avars
               PROVE  AddressInv' /\ MacInv'
    OBVIOUS
  <2>1. CASE AddressNext /\ UNCHANGED macs
    BY <2>1, CallerKeeps, ServerKeeps DEF AddressNext, MacInv
  <2>2. CASE MacNext /\ UNCHANGED <<addrs, meant>>
    BY <2>2, MacKeeps DEF AddressInv
  <2>3. CASE UNCHANGED avars
    BY <2>3 DEF avars, AddressInv, MacInv
  <2> QED BY <2>1, <2>2, <2>3 DEF ANext
<1> QED BY <1>1, <1>2, PTL DEF ASpec

-----------------------------------------------------------------------------
(* Theorems.                                                               *)

\* The structures keep their types.
THEOREM AddressTypes == ASpec => []AddressTypeOK
<1>1. AddressInv /\ MacInv => AddressTypeOK
  <2> SUFFICES ASSUME AddressInv, MacInv PROVE AddressTypeOK
    OBVIOUS
  <2>1. addrs \in [Structs -> Values] /\ meant \in [Structs -> SUBSET Endpoints]
    BY DEF AddressInv, Sane
  <2>2. \A m \in Macs :
          macs[m] \in [bytes : Bytes \cup {Unwritten}, string : {Hex[b] : b \in Bytes} \cup {Unwritten}]
    BY DEF MacInv, MacSane, Written
  <2> QED BY <2>1, <2>2 DEF AddressTypeOK, MacInv, Values
<1> QED BY <1>1, Inductive, PTL

\* bind and connect take a structure for what the call that filled it was told.
THEOREM UsedAsTold == ASpec => []ConnectsAsTold
<1>1. AddressInv => ConnectsAsTold
  BY DEF AddressInv, Sane, ConnectsAsTold
<1> QED BY <1>1, Inductive, PTL

\* What is printed of a structure is the address bind and connect use.
THEOREM PrintedAsUsed == ASpec => []PrintsWhatConnects
<1>1. AddressInv => PrintsWhatConnects
  BY DEF AddressInv, Sane, PrintsAs, PrintsWhatConnects
<1> QED BY <1>1, Inductive, PTL

\* MAC structures are equal exactly when they print alike.
THEOREM MacsPrintAlike == ASpec => []EqualPrintAlike
<1>1. MacInv => EqualPrintAlike
  <2> SUFFICES ASSUME MacInv, NEW m1 \in Macs, NEW m2 \in Macs,
                      Unwritten \notin {macs[m1].bytes, macs[m2].bytes}
               PROVE  macs[m1].bytes = macs[m2].bytes <=> macs[m1].string = macs[m2].string
    BY DEF EqualPrintAlike, MacEqual
  <2>1. PICK b1 \in Bytes : macs[m1] = Written(b1)
    BY DEF MacInv, MacSane
  <2>2. PICK b2 \in Bytes : macs[m2] = Written(b2)
    BY DEF MacInv, MacSane
  <2>3. Hex[b1] = Hex[b2] => b1 = b2
    BY MacAssumption
  <2> QED BY <2>1, <2>2, <2>3 DEF Written
<1> QED BY <1>1, Inductive, PTL

=============================================================================
