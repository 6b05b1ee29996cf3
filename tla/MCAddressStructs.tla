-------------------------- MODULE MCAddressStructs --------------------------
(* Two binary addresses a family, one of them with a second IPv6 text, a   *)
(* name with two addresses and one with none; two MAC addresses in         *)
(* capitals, one also in small letters, and a text of five bytes.          *)
EXTENDS AddressStructs

MCTexts == [ipv4 |-> {"0.0.0.0", "127.0.0.1"}, ipv6 |-> {"::", "::1", "0:0::1"}]

MCNum ==
  [ipv4 |-> [t \in MCTexts.ipv4 |-> IF t = "0.0.0.0" THEN "any" ELSE "loop"],
   ipv6 |-> [t \in MCTexts.ipv6 |-> IF t = "::" THEN "any" ELSE "loop"]]

MCCanon ==
  [ipv4 |-> [any |-> "0.0.0.0", loop |-> "127.0.0.1"],
   ipv6 |-> [any |-> "::", loop |-> "::1"]]

MCHosts == [n \in {"localhost", "256.0.0.1"} |-> IF n = "localhost" THEN {"any", "loop"} ELSE {}]

MCHex  == [b \in 1..2 |-> IF b = 1 THEN "00:00:00:00:00:00" ELSE "AA:00:00:00:00:00"]
MCScan ==
  [t \in {MCHex[1], MCHex[2], "aa:00:00:00:00:00", "AA:00"} |->
     CASE t = MCHex[1] -> {1} [] t = "AA:00" -> {} [] OTHER -> {2}]

=============================================================================
