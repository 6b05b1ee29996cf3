--------------------------------- MODULE Url ---------------------------------
(***************************************************************************)
(* fossil__url_parse (code/logic/request.c).  A text is a sequence of      *)
(* tokens, "/", ":" and words that hold neither; "://" is three of them.   *)
(* A buffer has room for a number of tokens, and a cut falls between two.  *)
(* path[1024] and temp[2048] hold every text that fits url[512].           *)
(***************************************************************************)
EXTENDS Integers, Sequences

CONSTANTS
  UrlMax, SchemeMax, HostMax,  \* the room in url[512], scheme[16], host[256]
  Atoi   \* what atoi reads of the words that begin with a number

ASSUME UrlAssumption ==
  /\ UrlMax \in Nat /\ SchemeMax \in Nat /\ HostMax \in Nat
  /\ Atoi \in [DOMAIN Atoi -> Nat]

Separators == {"/", ":"}
Words      == STRING \ (Separators \cup {""})
UrlTokens  == Words \cup Separators

At(u, t)      == {i \in DOMAIN u : u[i] = t}
Least(S)      == CHOOSE i \in S : \A j \in S : i <= j
Before(u, t)  == IF At(u, t) = {} THEN u ELSE SubSeq(u, 1, Least(At(u, t)) - 1)
From(u, t)    == SubSeq(u, Least(At(u, t)), Len(u))
Cut(u, n)     == IF Len(u) <= n THEN u ELSE SubSeq(u, 1, n)

\* Where "://" is.
SchemeEnds(u) ==
  {i \in At(u, ":") : i + 2 \in DOMAIN u /\ u[i + 1] = "/" /\ u[i + 2] = "/"}

\* Without a scheme the whole rest is copied to host before it is taken apart.
Scheme(u) == IF SchemeEnds(u) = {} THEN <<"http">>
             ELSE Cut(SubSeq(u, 1, Least(SchemeEnds(u)) - 1), SchemeMax)
Rest(u)   == IF SchemeEnds(u) = {} THEN Cut(u, HostMax)
             ELSE SubSeq(u, Least(SchemeEnds(u)) + 3, Len(u))

\* Mutant: the port is looked for before the path is cut off.
HostPortUncut(u) == Rest(u)

HostPort(u) == Before(Rest(u), "/")

DefaultPort(scheme) == IF scheme = <<"https">> THEN 443 ELSE 80
Number(t)  == IF t \in DOMAIN Atoi THEN Atoi[t] ELSE 0
Uint16s    == 0..65535
Uint16(n)  == n % 65536
PortOf(p)  == IF Len(p) = 1 THEN 0 ELSE Uint16(Number(p[2]))   \* ":" and what follows it

UrlParse(u) ==
  [scheme |-> Scheme(u),
   host   |-> Cut(Before(HostPort(u), ":"), HostMax),
   port   |-> IF At(HostPort(u), ":") = {} THEN DefaultPort(Scheme(u))
              ELSE PortOf(From(HostPort(u), ":")),
   path   |-> IF At(Rest(u), "/") = {} THEN <<"/">> ELSE From(Rest(u), "/")]

\* The value of the default Host line.
HostLine(p) ==
  IF p.host = <<>> THEN <<"localhost">>
  ELSE IF \/ p.scheme = <<"http">> /\ p.port # 80
          \/ p.scheme = <<"https">> /\ p.port # 443
          \/ p.port = 0
       THEN p.host \o <<":", p.port>>
       ELSE p.host

\* The target in the request line.
Target(u) == IF u = <<>> THEN <<"/">>
             ELSE IF UrlParse(u).host = <<>> THEN u ELSE UrlParse(u).path
=============================================================================
