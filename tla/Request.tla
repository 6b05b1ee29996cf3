------------------------------- MODULE Request -------------------------------
(***************************************************************************)
(* Building an HTTP request (code/logic/request.c): the header list, the   *)
(* body, and the lines that are put on the wire.                           *)
(*                                                                         *)
(* Names and values are members of small sets.  What is kept of them is    *)
(* which name they are and that a long name does not fit its 64 bytes.     *)
(* Every line is one unit long and so is a unit of the body; Size is the   *)
(* send buffer in these units.  url is the text that the structure keeps;  *)
(* the parts it was written from are remembered beside it.  Bodies are so  *)
(* small that body_size added to the text does not wrap (about 4 GiB).     *)
(***************************************************************************)
EXTENDS Url, FiniteSets

CONSTANTS
  Urls,        \* scheme (<<>> for none), host, port ("" for none) and path
  Keys, Values,
  Stored,      \* what 63 characters of each key are: itself if it is short
  MaxHeaders,  \* headers[32]
  Bodies,      \* the sizes of bodies
  Size,        \* buffer[8192]
  Wrap,        \* uint32_t: 2^32
  Unset        \* no value

ASSUME RequestAssumption ==
  /\ {"Host", "Connection"} \subseteq Keys
  /\ Stored \in [Keys -> Keys]
  /\ \A k \in Keys : Stored[Stored[k]] = Stored[k]
  /\ Unset \notin Values \cup Keys
  /\ MaxHeaders \in Nat
  /\ Bodies \subseteq Nat
  /\ Size \in Nat /\ Wrap \in Nat
  /\ \A n \in Bodies : n + Size < Wrap

\* A URL as it is written: a path begins with its "/".
ASSUME UrlsAssumption ==
  \A u \in Urls :
    /\ u.scheme \in Seq(Words) /\ u.host \in Seq(Words) /\ u.port \in Words \cup {""}
    /\ u.path \in Seq(UrlTokens)
    /\ u.path # <<>> => u.path[1] = "/"

VARIABLES
  url,       \* the text, as much of it as fits
  written,   \* history: the URL that init was called with
  headers,   \* headers[0 .. header_count - 1]
  bodySize,  \* body_size, 0 if body is NULL
  latest,    \* history: the name and value of the latest set_header,
  rc         \* and what it returned

rvars == <<url, written, headers, bodySize, latest, rc>>

-----------------------------------------------------------------------------
Flat(u) == (IF u.scheme = <<>> THEN <<>> ELSE u.scheme \o <<":", "/", "/">>)
           \o u.host \o (IF u.port = "" THEN <<>> ELSE <<":", u.port>>) \o u.path

\* The constructor of the C++ class, which ignores a failing init: its structure,
\* which it zeroes first, is then a request with an empty URL.
RInit ==
  /\ written \in Urls /\ url = Cut(Flat(written), UrlMax)
  /\ headers = <<>> /\ bodySize = 0
  /\ latest = [key |-> Unset, value |-> Unset] /\ rc = 0

\* init, of a structure that has been used.  An unknown method is refused and
\* leaves the structure as it is.
RequestInit(u) ==
  /\ written' = u /\ url' = Cut(Flat(u), UrlMax)
  /\ headers' = <<>> /\ bodySize' = 0 /\ UNCHANGED <<latest, rc>>
RequestFree ==
  headers' = <<>> /\ bodySize' = 0 /\ UNCHANGED <<url, written, latest, rc>>

Header(k, v) == [key |-> k, value |-> v]
Match(k)     == {i \in DOMAIN headers : headers[i].key = k}
First(S)     == CHOOSE i \in S : \A j \in S : i <= j

\* Mutant: the limit is off by one.
SetHeaderOneMore(k, v) ==
  /\ Len(headers) <= MaxHeaders
  /\ headers' = Append(headers, Header(Stored[k], v))
  /\ rc' = 0
  /\ latest' = Header(k, v)
  /\ UNCHANGED <<url, written, bodySize>>

\* Mutant: an existing header is not looked for.
SetHeaderAppends(k, v) ==
  /\ \/ /\ Len(headers) < MaxHeaders
        /\ headers' = Append(headers, Header(Stored[k], v)) /\ rc' = 0
     \/ Len(headers) >= MaxHeaders /\ rc' = -1 /\ UNCHANGED headers
  /\ latest' = Header(k, v)
  /\ UNCHANGED <<url, written, bodySize>>

SetHeader(k, v) ==
  /\ \/ /\ Match(k) # {}
        /\ headers' = [headers EXCEPT ![First(Match(k))].value = v]
        /\ rc' = 0
     \/ /\ Match(k) = {} /\ Len(headers) < MaxHeaders
        /\ headers' = Append(headers, Header(Stored[k], v))
        /\ rc' = 0
     \/ /\ Match(k) = {} /\ Len(headers) >= MaxHeaders
        /\ rc' = -1
        /\ UNCHANGED headers
  /\ latest' = Header(k, v)
  /\ UNCHANGED <<url, written, bodySize>>

\* An unknown content type is refused and leaves the request as it is.
SetBody(n) == bodySize' = n /\ UNCHANGED <<url, written, headers, latest, rc>>

-----------------------------------------------------------------------------
(* fossil__http_build_request.                                             *)
Has(k) == \E i \in DOMAIN headers : headers[i].key = k

\* Mutant: the default line is sent whether or not the caller has set one.
DefaultAlways(k, v) == <<Header(k, v)>>

Default(k, v) == IF Has(k) THEN <<>> ELSE <<Header(k, v)>>

BodyHeaders ==
  IF bodySize > 0
  THEN <<Header("Content-Type", "type"), Header("Content-Length", "size")>>
  ELSE <<>>

\* The lines between the request line and the empty line.
Lines == Default("Host", HostLine(UrlParse(url))) \o Default("Connection", "close") \o headers \o BodyHeaders

\* Each line must leave room for the NUL after it; the check of the body is in
\* uint32_t.
Text   == Len(Lines) + 2
Builds == /\ Text < Size
          /\ (Text + bodySize) % Wrap <= Size

RNext ==
  \/ \E k \in Keys, v \in Values : SetHeader(k, v)
  \/ \E n \in Bodies : SetBody(n)
  \/ \E u \in Urls : RequestInit(u)
  \/ RequestFree

RSpec == RInit /\ [][RNext]_rvars

-----------------------------------------------------------------------------
(* Properties.                                                             *)

\* Every variable has its type (fossil_net_request_t).
RTypeOK ==
  /\ url \in Seq(UrlTokens) /\ Len(url) <= UrlMax /\ written \in Urls
  /\ headers \in Seq([key : Keys, value : Values])
  /\ Len(headers) <= MaxHeaders
  /\ bodySize \in Bodies \cup {0}
  /\ latest \in [key : Keys \cup {Unset}, value : Values \cup {Unset}]
  /\ rc \in {0, -1}

\* The names that are stored whole, and that no other name is cut to.
Short == {k \in Keys : \A l \in Keys : (Stored[l] = k) <=> (l = k)}

Sent(k) == {i \in DOMAIN Lines : Lines[i].key = k}

\* Host and Connection, which the caller's own replace, are on the wire once, and
\* so is every other header that is set and that is not about the body, however
\* headers are set, set again or refused (build, request.c:288-351).
SentOnce ==
  \A k \in Short \ {"Content-Type", "Content-Length"} :
    Cardinality(Sent(k)) = IF k \in {"Host", "Connection"} \/ Has(k) THEN 1 ELSE 0

\* A URL that fits the buffers; without a scheme it passes through host, and a
\* "://" behind would be taken for the end of one.
Fits(u) ==
  /\ Len(Flat(u)) <= UrlMax /\ Len(u.scheme) <= SchemeMax /\ Len(u.host) <= HostMax
  /\ u.scheme = <<>> => Len(Flat(u)) <= HostMax /\ SchemeEnds(Flat(u)) = {}

SchemeOf(u)  == IF u.scheme = <<>> THEN <<"http">> ELSE u.scheme
PathAlone(u) == u.scheme = <<>> /\ u.host = <<>> /\ u.port = ""

TakenAs(u, text) ==
  LET p == UrlParse(text)
  IN /\ u.host # <<>> =>
          /\ p.host = u.host /\ p.scheme = SchemeOf(u)
          /\ u.port = "" => p.port = DefaultPort(SchemeOf(u))
          /\ u.port # "" /\ Number(u.port) \in Uint16s => p.port = Number(u.port)
     /\ u.host # <<>> \/ PathAlone(u) =>
          Target(text) = IF u.path = <<>> THEN <<"/">> ELSE u.path

\* A request goes where its URL says (request.h:68, "full URL or path"): if it
\* fits, it is taken apart into the scheme, host, port and path it was written
\* from, whatever parts are missing and whatever the path holds, and a path alone is
\* the target as it is.  The port is the number that the URL gives, if a uint16_t
\* holds that.
UrlTakenApart == Fits(written) => TakenAs(written, url)

\* A header that is set has its latest value, setting one changes no other, and it
\* is refused only for lack of room (set_header, "If the header already exists, its
\* value is replaced", request.h:113).
Value(k) == IF Match(k) = {} THEN Unset ELSE headers[First(Match(k))].value

Map == INSTANCE HeaderMap WITH
         Names <- Short, None <- Unset, Room <- MaxHeaders,
         map <- [k \in Short |-> Value(k)],
         free <- MaxHeaders - Len(headers), ret <- rc

ImplementsMap == Map!MSpec

=============================================================================
