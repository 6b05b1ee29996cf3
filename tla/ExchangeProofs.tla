--------------------------- MODULE ExchangeProofs ---------------------------
(***************************************************************************)
(* Proofs about fossil_net_request_send and fossil_net_response_free: for  *)
(* any requests, buffer and responses of the server, and any interleaving  *)
(* with the network, every allocated body is owned by the response.        *)
(***************************************************************************)
EXTENDS Exchange, RequestProofs

\* The response structure keeps its three fields.
Fields == res = [status |-> res.status, headers |-> res.headers, body |-> res.body]

\* While a call is receiving, the response holds no body: the caller freed the
\* one of the call before.  Without this the parser, which overwrites the
\* pointer, would lose a body, and BodyOwned alone is not inductive.
FreedFirst == pc = "receiving" => res.body = None

IInv == Fields /\ FreedFirst /\ BodyOwned

-----------------------------------------------------------------------------
\* The parser leaves at most the one body it allocates, on its error paths too:
\* the body it cannot allocate is not counted.
LEMMA ParseKeeps ==
  ASSUME IInv, pc = "receiving", NEW s, NEW size, Parse(s, size)
  PROVE  IInv'
<1>1. heap = 0 /\ res.body = None
  BY DEF IInv, FreedFirst, BodyOwned
<1>2. Die => IInv'
  BY <1>1 DEF Die, IInv, Fields, FreedFirst, BodyOwned
<1>3. ASSUME NEW r, NEW result, Return(r, result),
             result = [status |-> result.status, headers |-> result.headers,
                       body |-> result.body]
      PROVE  IInv'
  BY <1>1, <1>3 DEF Return, IInv, Fields, FreedFirst, BodyOwned
<1>4. \A n, hs, b : LET rec == [status |-> n, headers |-> hs, body |-> b]
                   IN rec = [status |-> rec.status, headers |-> rec.headers, body |-> rec.body]
  OBVIOUS
<1>5. \A n : [EmptyRes EXCEPT !.status = n] = [status |-> n, headers |-> <<>>, body |-> None]
  BY DEF EmptyRes
<1>6. \A n, hs, b, c : [[status |-> n, headers |-> hs, body |-> c] EXCEPT !.body = b]
                         = [status |-> n, headers |-> hs, body |-> b]
  OBVIOUS
<1>7. CASE Return(-1, [EmptyRes EXCEPT !.status = Status(s)])
  BY <1>3, <1>4, <1>5, <1>7
<1>8. CASE Return(0, Parsed(s)) \/ Return(-1, Parsed(s))
  BY <1>3, <1>4, <1>8 DEF Parsed
<1>9. CASE Return(0, [Parsed(s) EXCEPT !.body = <<SubSeq(s, BodyStart(s), size)>>])
  BY <1>3, <1>4, <1>6, <1>9 DEF Parsed
<1> QED
  BY <1>2, <1>7, <1>8, <1>9 DEF Parse

LEMMA InitIInv == XInit => IInv
BY DEF XInit, IInv, Fields, FreedFirst, BodyOwned, EmptyRes

LEMMA NextIInv == IInv /\ [Next]_vars => IInv'
<1> SUFFICES ASSUME IInv, [Next]_vars PROVE IInv'
  OBVIOUS
<1> USE DEF IInv, Fields, FreedFirst, BodyOwned
<1>1. CASE UNCHANGED <<pc, res, heap>>
  BY <1>1
<1>2. CASE RequestSend
  <2>1. res' = res /\ heap' = heap /\ res.body = None
    BY <1>2 DEF RequestSend
  <2> QED
    BY <2>1
<1>3. CASE Receive
  <2>1. ASSUME NEW n, Received(n) PROVE IInv'
    <3>1. PICK s \in Strings(buf') : Parse(s, n)
      BY <2>1 DEF Received
    <3>2. pc = "receiving"
      BY <1>3 DEF Receive
    <3> QED BY <3>1, <3>2, ParseKeeps
  <2>2. CASE UNCHANGED <<res, heap>> /\ pc' = "idle"
    BY <2>2
  <2> QED
    BY <1>3, <2>1, <2>2 DEF Receive
<1>4. CASE ResponseFree
  <2>1. pc' = "idle"
    BY <1>4 DEF ResponseFree
  <2>2. res' = [status |-> res.status, headers |-> <<>>, body |-> None]
    BY <1>4 DEF ResponseFree
  <2>3. heap' = 0
    BY <1>4 DEF ResponseFree
  <2> QED
    BY <2>1, <2>2, <2>3
<1>5. CASE Prepare \/ SetBlocking \/ Answer \/ Close \/ Reset \/ UNCHANGED vars
  BY <1>1, <1>5 DEF Prepare, SetBlocking, Answer, Close, Reset, vars, xvars
<1> QED
  BY <1>2, <1>3, <1>4, <1>5 DEF Next

\* Every allocated response body is the one the response holds, whatever the
\* server sends, however it arrives and wherever the parser stops: a failing
\* fossil_net_request_send loses none, fossil_net_response_free frees none twice.
THEOREM BodyIsOwned == Spec => []BodyOwned
<1>1. IInv => BodyOwned
  BY DEF IInv
<1> QED
  BY <1>1, InitIInv, NextIInv, PTL DEF Spec

-----------------------------------------------------------------------------
(* Types.                                                                  *)

\* The elements of a finite set of numbers can be counted off.
LEMMA NthExists ==
  ASSUME NEW S \in SUBSET Nat, IsFiniteSet(S), NEW k \in 1..Cardinality(S)
  PROVE  Nth(S, k) \in S
<1> DEFINE Below(i) == {j \in S : j <= i}
           N == Cardinality(S)
           f == [i \in S |-> Cardinality(Below(i))]
<1>0. N \in Nat
  BY FS_CardinalityType
<1>1. \A i \in S : /\ IsFiniteSet(Below(i)) /\ Cardinality(Below(i)) \in 1..N
  <2> TAKE i \in S
  <2>1. IsFiniteSet(Below(i)) /\ Cardinality(Below(i)) <= N
    BY FS_Subset
  <2>2. Cardinality(Below(i)) \in Nat /\ (Cardinality(Below(i)) = 0 <=> Below(i) = {})
    BY <2>1, FS_CardinalityType, FS_EmptySet
  <2>3. i \in Below(i)
    OBVIOUS
  <2> HIDE DEF Below
  <2> QED BY <1>0, <2>1, <2>2, <2>3
<1>2. \A i, j \in S : i < j => Cardinality(Below(i)) < Cardinality(Below(j))
  <2> TAKE i, j \in S
  <2> HAVE i < j
  <2>0. i \in Nat /\ j \in Nat /\ \A h \in S : h \in Nat
    OBVIOUS
  <2>1. j \in Below(j) /\ j \notin Below(i)
    BY <2>0
  <2>2. ASSUME NEW h \in Below(i) PROVE h \in Below(j)
    BY <2>0, <2>2
  <2>3. Below(i) \subseteq Below(j)
    BY <2>2
  <2> HIDE DEF Below
  <2>4. Cardinality(Below(i)) <= Cardinality(Below(j)) /\ Cardinality(Below(i)) # Cardinality(Below(j))
    BY <1>1, <2>1, <2>3, FS_Subset
  <2> QED BY <1>1, <2>4
<1>3. f \in Injection(S, 1..N)
  <2> HIDE DEF Below
  <2>1. f \in [S -> 1..N]
    BY <1>1
  <2>2. \A i, j \in S : f[i] = f[j] => i = j
    BY <1>1, <1>2
  <2> QED BY <2>1, <2>2 DEF Injection, IsInjective
<1>4. IsFiniteSet(1..N) /\ Cardinality(1..N) = N
  BY <1>0, FS_Interval
<1>5. f \in Surjection(S, 1..N)
  <2> HIDE DEF f, N
  <2> QED BY <1>3, <1>4, FS_Injection DEF N
<1>6. PICK i \in S : Cardinality(Below(i)) = k
  <2> HIDE DEF Below
  <2> QED BY <1>5 DEF Surjection
<1> QED BY <1>6 DEF Nth

\* What the parser reads off any text.
LEMMA StopIn ==
  ASSUME NEW s \in Seq(Tokens), Stops(s) # {}
  PROVE  /\ Stop(s) \in Stops(s) /\ Stop(s) \in 2..Len(s) + 1
         /\ \A j \in Stops(s) : Stop(s) <= j
<1>1. Len(s) \in Nat /\ Stops(s) \subseteq 2..Len(s) + 1
  BY LenProperties DEF Stops
<1>2. Stops(s) \in SUBSET Nat
  BY <1>1
<1> QED BY <1>1, <1>2, FirstExists DEF Stop

LEMMA LinesFound ==
  ASSUME NEW s \in Seq(Tokens), Stops(s) # {}
  PROVE  /\ HeaderLines(s) \in SUBSET Nat /\ HeaderLines(s) \subseteq 1..Len(s)
         /\ IsFiniteSet(HeaderLines(s)) /\ Cardinality(HeaderLines(s)) \in Nat
<1>1. Len(s) \in Nat /\ HeaderLines(s) \subseteq 1..Len(s)
  BY StopIn, LenProperties DEF HeaderLines
<1>2. IsFiniteSet(1..Len(s))
  BY <1>1, FS_Interval
<1> QED BY <1>1, <1>2, FS_Subset, FS_CardinalityType

Wanted(s) == IF Cardinality(HeaderLines(s)) > MaxHeaders THEN MaxHeaders
             ELSE Cardinality(HeaderLines(s))

LEMMA HeadersFound ==
  ASSUME NEW s \in Seq(Tokens), Stops(s) # {}
  PROVE  /\ Wanted(s) \in Nat /\ Wanted(s) <= MaxHeaders
         /\ ParsedHeaders(s) \in Seq(Tokens) /\ Len(ParsedHeaders(s)) = Wanted(s)
         /\ \A k \in 1..Wanted(s) : \E j \in HeaderLines(s) : ParsedHeaders(s)[k] = s[j]
<1>1. Cardinality(HeaderLines(s)) \in Nat /\ MaxHeaders \in Nat
  BY LinesFound, RequestAssumption
<1>2. Wanted(s) \in Nat /\ Wanted(s) <= MaxHeaders
      /\ \A k \in 1..Wanted(s) : k \in 1..Cardinality(HeaderLines(s))
  BY <1>1 DEF Wanted
<1>3. \A k \in 1..Wanted(s) : Nth(HeaderLines(s), k) \in HeaderLines(s)
  BY <1>2, LinesFound, NthExists
<1>4. \A k \in 1..Wanted(s) : s[Nth(HeaderLines(s), k)] \in Tokens
  BY <1>3, LinesFound, ElementOfSeq
<1>5. ParsedHeaders(s) = [k \in 1..Wanted(s) |-> s[Nth(HeaderLines(s), k)]]
  BY DEF ParsedHeaders, Wanted
<1>6. ParsedHeaders(s) \in [1..Wanted(s) -> Tokens]
  BY <1>4, <1>5
<1>7. ParsedHeaders(s) \in Seq(Tokens) /\ Len(ParsedHeaders(s)) = Wanted(s)
  BY <1>2, <1>6
<1> QED BY <1>2, <1>3, <1>5, <1>7

LEMMA StatusType ==
  ASSUME NEW s \in Seq(Tokens)
  PROVE  Status(s) \in 0..MaxCalls
<1>1. CASE s # <<>>
  <2>1. s[1] \in Tokens
    BY <1>1, ElementOfSeq, EmptySeq, LenProperties
  <2> QED BY <2>1, ExchangeAssumption DEF Status, Tokens
<1>2. CASE s = <<>>
  BY <1>2, ExchangeAssumption DEF Status
<1> QED BY <1>1, <1>2

ResType(r) == /\ r.status \in 0..MaxCalls
              /\ r.headers \in Seq(Tokens) /\ Len(r.headers) <= MaxHeaders

LEMMA ParseTypes ==
  ASSUME XTypeOK, pc = "receiving", NEW s \in Seq(Tokens), NEW size, Parse(s, size)
  PROVE  ret' \in {0, -1} /\ pc' \in {"idle", "dead"} /\ ResType(res')
<1>1. ResType(res) /\ ret \in {0, -1}
  BY DEF XTypeOK, ResType
<1>2. MaxHeaders \in Nat /\ Status(s) \in 0..MaxCalls
  BY RequestAssumption, StatusType
<1>3. ResType([EmptyRes EXCEPT !.status = Status(s)])
  BY <1>2, EmptySeq DEF EmptyRes, ResType
<1>4. ASSUME Stops(s) # {}
      PROVE  ResType(Parsed(s)) /\ \A b : ResType([Parsed(s) EXCEPT !.body = b])
  BY <1>2, <1>4, HeadersFound DEF Parsed, ResType
<1>5. CASE Die
  BY <1>1, <1>5 DEF Die
<1>6. ASSUME NEW r \in {0, -1}, NEW result, Return(r, result), ResType(result)
      PROVE  ret' \in {0, -1} /\ pc' \in {"idle", "dead"} /\ ResType(res')
  BY <1>6 DEF Return
<1>7. CASE Return(-1, [EmptyRes EXCEPT !.status = Status(s)])
  BY <1>3, <1>6, <1>7
<1>8. CASE Stops(s) # {} /\ (Return(0, Parsed(s)) \/ Return(-1, Parsed(s)))
  BY <1>4, <1>6, <1>8
<1>9. CASE Stops(s) # {} /\ Return(0, [Parsed(s) EXCEPT !.body = <<SubSeq(s, BodyStart(s), size)>>])
  BY <1>4, <1>6, <1>9
<1> QED BY <1>5, <1>7, <1>8, <1>9 DEF Parse

Ups == [call : 1..MaxCalls, close : BOOLEAN, whole : BOOLEAN]

\* The string that the parser is given begins with what the array holds.
LEMMA StringRead ==
  ASSUME NEW array \in Seq(Tokens), NEW s \in Strings(array)
  PROVE  /\ s \in Seq(Tokens) /\ Len(array) <= Len(s)
         /\ \A j \in 1..Len(array) : s[j] = array[j]
<1>0. Len(array) \in Nat
  BY LenProperties
<1>1. CASE s = array
  BY <1>0, <1>1
<1>2. CASE s # array
  <2>1. PICK x \in Strays : s = array \o Stray(x)
    BY <1>2 DEF Strings
  <2>2. x \in Seq({"text", "crlf"}) /\ DOMAIN x = 1..Len(x) /\ Len(x) \in Nat
    BY <2>1, ExchangeAssumption, LenProperties
  <2>3. \A j \in 1..Len(x) : [part |-> x[j], call |-> 0] \in Tokens
    <3>1. \A j \in 1..Len(x) : x[j] \in {"text", "crlf"}
      BY <2>2, ElementOfSeq
    <3>2. 0 \in 0..MaxCalls
      BY ExchangeAssumption
    <3> QED BY <3>1, <3>2 DEF Tokens
  <2>4. Stray(x) \in [1..Len(x) -> Tokens]
    BY <2>2, <2>3 DEF Stray
  <2>5. Stray(x) \in Seq(Tokens) /\ Len(Stray(x)) \in Nat
    BY <2>2, <2>4
  <2>6. /\ s \in Seq(Tokens) /\ Len(s) = Len(array) + Len(Stray(x))
        /\ \A j \in 1..Len(array) + Len(Stray(x)) :
             s[j] = IF j <= Len(array) THEN array[j] ELSE Stray(x)[j - Len(array)]
    BY <2>1, <2>5, ConcatProperties
  <2> QED BY <1>0, <2>5, <2>6
<1> QED BY <1>1, <1>2

\* A receive leaves what was received in front of what was in the buffer, and the
\* parser is given a string that begins with it.
LEMMA ReceivedText ==
  ASSUME XTypeOK, NEW n \in 0..BufSize, n <= Len(down), Received(n)
  PROVE  /\ down' \in Seq(Tokens) /\ Len(down') = Len(down) - n
         /\ buf' \in Seq(Tokens) /\ Len(buf') <= BufSize
         /\ \E s \in Seq(Tokens) :
              n <= Len(s) /\ (\A j \in 1..n : s[j] = down[j]) /\ Parse(s, n)
<1>0. /\ down \in Seq(Tokens) /\ buf \in Seq(Tokens) /\ Len(buf) <= BufSize
      /\ Len(down) \in Nat /\ Len(buf) \in Nat /\ BufSize \in Nat /\ n \in Nat
  BY ExchangeAssumption, LenProperties DEF XTypeOK
<1>1. \A j \in n + 1..Len(down) : down[j] \in Tokens
  BY <1>0, ElementOfSeq
<1>2. down' \in Seq(Tokens) /\ Len(down') = Len(down) - n
  <2>1. n + 1 \in Int /\ Len(down) \in Int /\ down' = SubSeq(down, n + 1, Len(down))
    BY <1>0 DEF Received
  <2>2. /\ down' \in Seq(Tokens)
        /\ Len(down') = IF n + 1 <= Len(down) THEN Len(down) - (n + 1) + 1 ELSE 0
    BY <1>1, <2>1, SubSeqProperties
  <2> QED BY <1>0, <2>2
<1>3. PICK rest \in {SubSeq(buf, n + 1, Len(buf)), <<>>} : buf' = SubSeq(down, 1, n) \o rest
  BY DEF Received
<1>4. rest \in Seq(Tokens) /\ Len(rest) \in Nat /\ n + Len(rest) <= BufSize
  <2>1. CASE rest = <<>>
    BY <1>0, <2>1, EmptySeq
  <2>2. CASE rest = SubSeq(buf, n + 1, Len(buf))
    <3>1. n + 1 \in Int /\ Len(buf) \in Int /\ \A j \in n + 1..Len(buf) : buf[j] \in Tokens
      BY <1>0, ElementOfSeq
    <3>2. /\ rest \in Seq(Tokens)
          /\ Len(rest) = IF n + 1 <= Len(buf) THEN Len(buf) - (n + 1) + 1 ELSE 0
      BY <2>2, <3>1, SubSeqProperties
    <3> QED BY <1>0, <3>2
  <2> QED BY <2>1, <2>2
<1>5. /\ SubSeq(down, 1, n) \in Seq(Tokens) /\ Len(SubSeq(down, 1, n)) = n
      /\ \A j \in 1..n : SubSeq(down, 1, n)[j] = down[j]
  <2>1. \A j \in 1..n : down[j] \in Tokens
    BY <1>0, ElementOfSeq
  <2>2. /\ SubSeq(down, 1, n) \in Seq(Tokens)
        /\ Len(SubSeq(down, 1, n)) = IF 1 <= n THEN n - 1 + 1 ELSE 0
        /\ \A j \in 1..n - 1 + 1 : SubSeq(down, 1, n)[j] = down[1 + j - 1]
    BY <1>0, <2>1, SubSeqProperties
  <2> QED BY <1>0, <2>2
<1>6. /\ buf' \in Seq(Tokens) /\ Len(buf') = n + Len(rest)
      /\ \A j \in 1..n + Len(rest) : buf'[j] = IF j <= n THEN SubSeq(down, 1, n)[j] ELSE rest[j - n]
  BY <1>3, <1>4, <1>5, ConcatProperties
<1>7. \A j \in 1..n : buf'[j] = down[j]
  BY <1>0, <1>4, <1>5, <1>6
<1>8. PICK s \in Strings(buf') : Parse(s, n)
  BY DEF Received
<1>9. s \in Seq(Tokens) /\ n <= Len(s) /\ \A j \in 1..n : s[j] = down[j]
  <2>1. s \in Seq(Tokens) /\ Len(buf') <= Len(s) /\ \A j \in 1..Len(buf') : s[j] = buf'[j]
    BY <1>6, StringRead
  <2>2. Len(buf') \in Nat /\ Len(s) \in Nat /\ n <= Len(buf')
    BY <1>0, <1>4, <1>6, <2>1, LenProperties
  <2> QED BY <1>0, <1>7, <2>1, <2>2
<1> QED BY <1>0, <1>2, <1>4, <1>6, <1>8, <1>9

LEMMA ResponseType ==
  ASSUME NEW c \in 1..MaxCalls, NEW m \in Nat, NEW body \in Seq({"text", "crlf"})
  PROVE  /\ Response(c, m, body) \in Seq(Tokens)
         /\ Len(Response(c, m, body)) = 2 * m + 3 + Len(body)
<1> DEFINE n == 2 * m + 3 + Len(body)
           r == Response(c, m, body)
<1>1. Len(body) \in Nat /\ n \in Nat
  BY LenProperties
<1>2. ASSUME NEW j \in 1..n PROVE r[j] \in Tokens
  <2>1. r[j] = [call |-> c,
                part |-> IF j = 1 THEN "status"
                         ELSE IF j > 2 * m + 3 THEN body[j - (2 * m + 3)]
                         ELSE IF j % 2 = 0 \/ j = 2 * m + 3 THEN "crlf"
                         ELSE "header"]
    BY DEF Response
  <2>2. ASSUME j > 2 * m + 3 PROVE body[j - (2 * m + 3)] \in {"text", "crlf"}
    <3>1. j - (2 * m + 3) \in 1..Len(body)
      BY <1>1, <2>2
    <3> QED BY <3>1, ElementOfSeq
  <2> QED BY <2>1, <2>2 DEF Tokens
<1>3. r \in [1..n -> Tokens]
  <2>1. DOMAIN r = 1..n /\ r = [j \in 1..n |-> r[j]]
    BY DEF Response
  <2> HIDE DEF r, n
  <2> QED BY <1>2, <2>1
<1> HIDE DEF r, n
<1>4. r \in Seq(Tokens) /\ Len(r) = n
  BY <1>1, <1>3
<1> QED BY <1>4 DEF r, n

LEMMA InitXTypes == XInit => XTypeOK
<1> SUFFICES ASSUME XInit PROVE XTypeOK
  OBVIOUS
<1>1. RTypeOK
  BY InitTypes DEF XInit
<1>2. <<>> \in Seq(Ups) /\ <<>> \in Seq(Tokens) /\ Len(<<>>) = 0
  BY EmptySeq
<1>3. MaxCalls \in Nat /\ BufSize \in Nat /\ MaxHeaders \in Nat
  BY ExchangeAssumption, RequestAssumption
<1> QED BY <1>1, <1>2, <1>3 DEF XInit, XTypeOK, EmptyRes, Ups

LEMMA NextXTypes == XTypeOK /\ IInv /\ [Next]_vars => XTypeOK'
<1> SUFFICES ASSUME XTypeOK, IInv, [Next]_vars PROVE XTypeOK'
  OBVIOUS
<1>0. heap' \in Nat
  BY NextIInv DEF IInv, BodyOwned
<1>1. RTypeOK'
  <2>1. [RNext]_rvars
    BY DEF Next, Prepare, SetBlocking, RequestSend, Receive, ResponseFree, Answer, Close, Reset, vars
  <2> QED BY <2>1, NextTypes DEF XTypeOK
<1>2. CASE UNCHANGED xvars
  BY <1>0, <1>1, <1>2 DEF xvars, XTypeOK
<1>3. CASE SetBlocking
  BY <1>0, <1>1, <1>3 DEF SetBlocking, XTypeOK
<1>4. CASE RequestSend
  <2>1. /\ call' \in 1..MaxCalls /\ call' \in 0..MaxCalls
        /\ UNCHANGED <<blocking, down, conn, buf, res, heap, answer>>
    BY <1>4, ExchangeAssumption DEF RequestSend, XTypeOK
  <2>2. CASE UNCHANGED <<up, clean>> /\ ret' \in {ret, -1} /\ pc' \in {pc, "dead"}
    BY <1>0, <1>1, <2>1, <2>2 DEF XTypeOK
  <2>3. ASSUME NEW whole \in BOOLEAN, Sends(whole) PROVE XTypeOK'
    <3>1. [call |-> call', close |-> Closes, whole |-> whole] \in Ups
      BY <2>1 DEF Ups, Closes
    <3>2. up' \in Seq(Ups)
      BY <2>3, <3>1, AppendProperties DEF Sends, XTypeOK, Ups
    <3>3. pc' = "receiving" /\ clean' \in BOOLEAN /\ ret' = ret
      BY <2>3 DEF Sends, XTypeOK
    <3> QED BY <1>0, <1>1, <2>1, <3>2, <3>3 DEF XTypeOK, Ups
  <2> QED BY <1>4, <2>2, <2>3 DEF RequestSend, Send
<1>5. CASE Receive
  <2>1. UNCHANGED <<blocking, up, conn, call, answer>> /\ clean' \in BOOLEAN /\ pc = "receiving"
    BY <1>5 DEF Receive, XTypeOK
  <2>2. ASSUME NEW n \in 0..BufSize, n <= Len(down), Received(n) PROVE XTypeOK'
    <3>1. /\ down' \in Seq(Tokens) /\ buf' \in Seq(Tokens) /\ Len(buf') <= BufSize
          /\ \E s \in Seq(Tokens) : Parse(s, n)
      BY <2>2, ReceivedText
    <3>2. ret' \in {0, -1} /\ pc' \in {"idle", "dead"} /\ ResType(res')
      BY <2>1, <3>1, ParseTypes
    <3> QED BY <1>0, <1>1, <2>1, <3>1, <3>2 DEF XTypeOK, ResType
  <2>3. CASE ret' = -1 /\ pc' = "idle" /\ UNCHANGED <<down, buf, res, heap>>
    BY <1>0, <1>1, <2>1, <2>3 DEF XTypeOK
  <2>4. 0 \in 0..BufSize /\ 0 <= Len(down) /\ 1..BufSize \subseteq 0..BufSize
    BY ExchangeAssumption, LenProperties DEF XTypeOK
  <2> QED BY <1>5, <2>2, <2>3, <2>4 DEF Receive
<1>6. CASE ResponseFree
  <2>1. res'.status = res.status /\ res'.headers = <<>>
    BY <1>6 DEF ResponseFree, IInv, Fields
  <2>2. UNCHANGED <<blocking, up, down, conn, pc, call, buf, ret, answer, clean>>
    BY <1>6 DEF ResponseFree
  <2>3. <<>> \in Seq(Tokens) /\ Len(<<>>) = 0 /\ MaxHeaders \in Nat
    BY EmptySeq, RequestAssumption
  <2> QED BY <1>0, <1>1, <2>1, <2>2, <2>3 DEF XTypeOK
<1>7. CASE Answer
  <2>1. PICK n \in HeaderCounts, body \in BodyParts :
          /\ down' = down \o Response(Head(up).call, n, body)
          /\ answer' = [count |-> n, body |-> body]
    BY <1>7 DEF Answer
  <2>2. up # <<>> /\ up' = Tail(up) /\ conn' \in {"fin", "open"}
        /\ UNCHANGED <<blocking, pc, call, buf, res, ret, clean>>
    BY <1>7 DEF Answer
  <2>3. Head(up) \in Ups /\ up' \in Seq(Ups)
    BY <2>2, HeadTailProperties DEF XTypeOK, Ups
  <2>4. Head(up).call \in 1..MaxCalls /\ n \in Nat /\ body \in Seq({"text", "crlf"})
    BY <2>3, ExchangeAssumption DEF Ups
  <2>5. down' \in Seq(Tokens)
    BY <2>1, <2>4, ResponseType, ConcatProperties DEF XTypeOK
  <2> QED BY <1>0, <1>1, <2>1, <2>2, <2>3, <2>5 DEF XTypeOK, Ups
<1>8. CASE Close
  BY <1>0, <1>1, <1>8 DEF Close, XTypeOK
<1>9. CASE Reset
  BY <1>0, <1>1, <1>9, EmptySeq DEF Reset, XTypeOK
<1> QED BY <1>2, <1>3, <1>4, <1>5, <1>6, <1>7, <1>8, <1>9 DEF Next, Prepare, vars

LEMMA XInvariant == Spec => [](XTypeOK /\ IInv)
BY InitXTypes, NextXTypes, InitIInv, NextIInv, PTL DEF Spec

\* The parser never stores a header beyond headers[32] (request.c:421), whatever
\* arrives, whatever recv_buf held before and whatever lies behind it when it is
\* full, and the connection and the response keep their types, for as many calls,
\* requests and responses as one likes.
THEOREM ExchangeTypes == Spec => []XTypeOK
BY XInvariant, PTL

-----------------------------------------------------------------------------
(* The response of a clean call.                                           *)

LEMMA Single == ASSUME NEW e PROVE <<e>>[1] = e
OBVIOUS

\* Text s begins with a whole response.
Whole(s, c, m, body) ==
  /\ 2 * m + 3 + Len(body) <= Len(s)
  /\ \A j \in 1..2 * m + 3 + Len(body) : s[j] = Response(c, m, body)[j]

\* A text that begins with a whole response: the stop is its empty line, and the
\* lines before it are its headers.
LEMMA ReadsResponse ==
  ASSUME NEW c \in 1..MaxCalls, NEW m \in Nat, NEW body \in Seq({"text", "crlf"}),
         NEW s \in Seq(Tokens), Whole(s, c, m, body)
  PROVE  /\ Status(s) = c
         /\ Stops(s) # {} /\ Stop(s) = 2 * m + 3
         /\ HeaderLines(s) = {2 * k + 1 : k \in 1..m}
         /\ \A j \in HeaderLines(s) : s[j] = [part |-> "header", call |-> c]
<1> DEFINE e == 2 * m + 3
<1>0. Len(body) \in Nat /\ Len(s) \in Nat /\ DOMAIN s = 1..Len(s) /\ e \in Nat /\ e <= Len(s)
      /\ e + Len(body) <= Len(s)
  BY LenProperties DEF Whole
<1>1. \A j \in 1..e : /\ j \in DOMAIN s /\ s[j].call = c
                      /\ s[j].part = IF j = 1 THEN "status"
                                     ELSE IF j % 2 = 0 \/ j = e THEN "crlf" ELSE "header"
  <2> TAKE j \in 1..e
  <2>1. j \in 1..e + Len(body) /\ j \in 1..Len(s) /\ ~(j > e)
    BY <1>0
  <2>2. s[j] = Response(c, m, body)[j]
    BY <2>1 DEF Whole
  <2>3. Response(c, m, body)[j] =
          [call |-> c,
           part |-> IF j = 1 THEN "status"
                    ELSE IF j > e THEN body[j - e]
                    ELSE IF j % 2 = 0 \/ j = e THEN "crlf"
                    ELSE "header"]
    BY <2>1 DEF Response
  <2> QED BY <1>0, <2>1, <2>2, <2>3
<1>2. Status(s) = c
  BY <1>0, <1>1, EmptySeq DEF Status
<1>3. \A j \in 1..e : IsCrlf(s, j) <=> (j % 2 = 0 \/ j = e)
  <2> TAKE j \in 1..e
  <2>1. j \in DOMAIN s /\ (j = 1 => ~(j % 2 = 0 \/ j = e))
    BY <1>0
  <2> QED BY <1>1, <2>1 DEF IsCrlf
<1>4. \A j \in 1..e : LineStart(s, j) <=> (j % 2 = 1 /\ j > 1)
  <2> TAKE j \in 1..e
  <2>1. CASE j = 1
    BY <2>1 DEF LineStart
  <2>2. CASE j > 1
    <3>1. j - 1 \in 1..e /\ j - 1 # e /\ ((j - 1) % 2 = 0 <=> j % 2 = 1)
      BY <2>2
    <3> QED BY <1>3, <2>2, <3>1 DEF LineStart
  <2> QED BY <2>1, <2>2
<1>5. e \in Stops(s) /\ \A j \in Stops(s) : e <= j
  <2>1. e \in 1..e /\ e \in 2..Len(s) + 1 /\ e % 2 = 1 /\ e > 1
    BY <1>0
  <2>2. e \in Stops(s)
    BY <1>3, <1>4, <2>1 DEF Stops
  <2>3. ASSUME NEW j \in Stops(s), j < e PROVE FALSE
    <3>1. j \in 1..e /\ LineStart(s, j) /\ (IsCrlf(s, j) \/ j = Len(s) + 1) /\ j # Len(s) + 1
      BY <1>0, <2>3 DEF Stops
    <3>2. j % 2 = 1 /\ (j % 2 = 0 \/ j = e)
      BY <1>3, <1>4, <3>1
    <3> QED BY <2>3, <3>1, <3>2
  <2>4. \A j \in Stops(s) : j \in Nat
    BY <1>0 DEF Stops
  <2> QED BY <1>0, <2>2, <2>3, <2>4
<1>6. Stop(s) = e
  <2>1. Stop(s) \in Stops(s) /\ Stop(s) \in Nat /\ Stop(s) <= e
    BY <1>0, <1>5, StopIn
  <2> QED BY <1>0, <1>5, <2>1
<1>7. HeaderLines(s) = {j \in 1..e - 1 : j % 2 = 1 /\ j > 1}
  BY <1>0, <1>4, <1>6 DEF HeaderLines
<1>8. {j \in 1..e - 1 : j % 2 = 1 /\ j > 1} = {2 * k + 1 : k \in 1..m}
  <2>1. ASSUME NEW j \in 1..e - 1, j % 2 = 1, j > 1 PROVE \E k \in 1..m : j = 2 * k + 1
    <3>1. j = 2 * (j \div 2) + 1 /\ j \div 2 \in 1..m
      BY <2>1
    <3> QED BY <3>1
  <2>2. ASSUME NEW k \in 1..m PROVE 2 * k + 1 \in 1..e - 1 /\ (2 * k + 1) % 2 = 1 /\ 2 * k + 1 > 1
    OBVIOUS
  <2> QED BY <2>1, <2>2
<1>9. \A j \in HeaderLines(s) : s[j] = [part |-> "header", call |-> c]
  <2> TAKE j \in HeaderLines(s)
  <2>1. j \in 1..e /\ j # 1 /\ ~(j % 2 = 0 \/ j = e) /\ j \in 1..Len(s)
    BY <1>0, <1>7
  <2>2. s[j].part = "header" /\ s[j].call = c /\ s[j] \in Tokens
    BY <1>1, <2>1, ElementOfSeq
  <2> QED BY <2>2 DEF Tokens
<1> QED BY <1>2, <1>5, <1>6, <1>7, <1>8, <1>9

\* There are as many odd numbers after 1 as are counted.
LEMMA OddNumbers ==
  ASSUME NEW m \in Nat
  PROVE  Cardinality({2 * k + 1 : k \in 1..m}) = m
<1> DEFINE T == {2 * k + 1 : k \in 1..m}
           f == [k \in 1..m |-> 2 * k + 1]
<1>1. f \in [1..m -> T] /\ (\A t \in T : \E k \in 1..m : f[k] = t)
      /\ (\A a, b \in 1..m : f[a] = f[b] => a = b)
  OBVIOUS
<1>2. f \in Bijection(1..m, T)
  <2> HIDE DEF f, T
  <2>1. f \in Surjection(1..m, T) /\ f \in Injection(1..m, T)
    BY <1>1 DEF Surjection, Injection, IsInjective
  <2> QED BY <2>1 DEF Bijection
<1>3. ExistsBijection(1..m, T)
  BY <1>2 DEF ExistsBijection
<1>4. IsFiniteSet(1..m) /\ Cardinality(1..m) = m
  BY FS_Interval
<1> HIDE DEF T, f
<1>5. Cardinality(T) = m
  BY <1>3, <1>4, FS_Bijection
<1> QED BY <1>5 DEF T

\* While nothing has gone wrong, there is one request or its response on the
\* connection during a call, and nothing between calls.
Quiet     == pc = "idle" /\ up = <<>> /\ down = <<>>
Requested == /\ pc = "receiving" /\ conn = "open" /\ down = <<>>
             /\ \E r : up = <<r>> /\ r.call = call
Answered  == /\ pc = "receiving" /\ up = <<>> /\ call # 0
             /\ down = Response(call, answer.count, answer.body)

OneAtATime == clean => pc = "dead" \/ Quiet \/ Requested \/ Answered

\* A call that is receiving and that stays clean takes the whole response.
LEMMA CleanReceive ==
  ASSUME XTypeOK, OneAtATime, Receive, clean'
  PROVE  /\ Answered
         /\ \E n \in 1..BufSize : n = Len(down) /\ Received(n)
<1>1. PICK n \in 1..BufSize : n <= Len(down) /\ Received(n) /\ clean /\ n = Len(down)
  BY DEF Receive, XTypeOK
<1>2. down # <<>>
  <2>1. Len(<<>>) = 0 /\ n # 0
    BY <1>1, ExchangeAssumption
  <2> QED BY <1>1, <2>1
<1>3. pc = "receiving"
  BY DEF Receive
<1> QED BY <1>1, <1>2, <1>3 DEF OneAtATime, Quiet, Requested

LEMMA NextOneAtATime == XTypeOK /\ OneAtATime /\ [Next]_vars => OneAtATime'
<1> SUFFICES ASSUME XTypeOK, OneAtATime, [Next]_vars, clean' PROVE OneAtATime'
  BY DEF OneAtATime
<1>1. CASE UNCHANGED <<up, down, conn, pc, call, answer, clean>>
  BY <1>1 DEF OneAtATime, Quiet, Requested, Answered
<1>2. CASE RequestSend
  <2>0. pc = "idle" /\ UNCHANGED <<down, conn, answer>> /\ clean
    BY <1>2 DEF RequestSend, Send, Sends
  <2>1. Quiet
    BY <2>0 DEF OneAtATime, Requested, Answered
  <2>2. CASE UNCHANGED <<up, clean>> /\ pc' \in {pc, "dead"}
    BY <2>0, <2>1, <2>2 DEF OneAtATime, Quiet
  <2>3. ASSUME NEW whole \in BOOLEAN, Sends(whole) PROVE OneAtATime'
    <3> DEFINE r == [call |-> call', close |-> Closes, whole |-> whole]
    <3>1. up' = Append(up, r) /\ pc' = "receiving" /\ conn = "open" /\ r.call = call'
      BY <2>3 DEF Sends
    <3>2. up' = <<r>>
      <4> HIDE DEF r
      <4> QED BY <2>1, <3>1 DEF Quiet
    <3> HIDE DEF r
    <3> QED BY <2>0, <2>1, <3>1, <3>2 DEF OneAtATime, Requested, Quiet
  <2> QED BY <1>2, <2>2, <2>3 DEF RequestSend, Send
<1>3. CASE Receive
  <2>1. Answered /\ UNCHANGED up /\ \E n \in 1..BufSize : n = Len(down) /\ Received(n)
    BY <1>3, CleanReceive DEF Receive
  <2>2. PICK n \in 1..BufSize : n = Len(down) /\ Received(n)
    BY <2>1
  <2>3. n \in 0..BufSize /\ n <= Len(down)
    BY <2>2, ExchangeAssumption
  <2>4. /\ down' \in Seq(Tokens) /\ Len(down') = Len(down) - n
        /\ \E s \in Seq(Tokens) : Parse(s, n)
    BY <2>2, <2>3, ReceivedText
  <2>5. down' = <<>>
    BY <2>2, <2>4, EmptySeq
  <2>6. pc' \in {"idle", "dead"}
    BY <2>4 DEF Parse, Return, Die
  <2> QED BY <2>1, <2>5, <2>6 DEF OneAtATime, Quiet, Answered
<1>4. CASE Answer
  <2>1. PICK n \in HeaderCounts, body \in BodyParts :
          /\ down' = down \o Response(Head(up).call, n, body)
          /\ answer' = [count |-> n, body |-> body]
    BY <1>4 DEF Answer
  <2>2. up # <<>> /\ up' = Tail(up) /\ UNCHANGED <<pc, call, clean>>
    BY <1>4 DEF Answer
  <2>3. CASE pc = "dead"
    BY <2>2, <2>3 DEF OneAtATime
  <2>4. CASE Requested
    <3>1. PICK r : up = <<r>> /\ r.call = call
      BY <2>4 DEF Requested
    <3>2. Head(up) = r /\ up' = <<>> /\ down = <<>> /\ pc = "receiving"
      BY <2>2, <2>4, <3>1 DEF Requested
    <3>3. call \in 1..MaxCalls /\ n \in Nat /\ body \in Seq({"text", "crlf"})
      <4>1. Head(up) \in Ups
        BY <2>2, HeadTailProperties DEF XTypeOK, Ups
      <4> QED BY <3>1, <3>2, <4>1, ExchangeAssumption DEF Ups
    <3>4. Response(call, n, body) \in Seq(Tokens)
      BY <3>3, ResponseType
    <3>5. down' = Response(call, n, body)
      BY <2>1, <3>1, <3>2, <3>4, ConcatEmptySeq
    <3>6. call # 0
      BY <3>3
    <3> QED BY <2>1, <2>2, <3>2, <3>5, <3>6 DEF OneAtATime, Answered
  <2> QED BY <2>2, <2>3, <2>4 DEF OneAtATime, Quiet, Answered
<1>5. CASE Close
  BY <1>5 DEF Close
<1>6. CASE Reset
  <2>1. up # <<>> /\ conn = "fin" /\ UNCHANGED <<pc, clean>>
    BY <1>6 DEF Reset
  <2> QED BY <2>1 DEF OneAtATime, Quiet, Requested, Answered
<1> QED
  BY <1>1, <1>2, <1>3, <1>4, <1>5, <1>6
     DEF Next, Prepare, SetBlocking, ResponseFree, vars, xvars

LEMMA InitOneAtATime == XInit => OneAtATime
BY DEF XInit, OneAtATime, Quiet

OwnOnly ==
  Succeeds /\ clean' =>
    /\ res'.status = call
    /\ Len(res'.headers) = IF answer.count < MaxHeaders THEN answer.count ELSE MaxHeaders
    /\ \A k \in DOMAIN res'.headers : res'.headers[k] = [part |-> "header", call |-> call]
    /\ res'.body # None =>
         \E k \in 1..Len(answer.body) + 1 :
           res'.body[1] = [j \in 1..Len(answer.body) - k + 1 |->
                            [part |-> answer.body[k + j - 1], call |-> call]]

\* The tokens of a body from the k-th on.
BodyFrom(body, k, c) == [j \in 1..Len(body) - k + 1 |-> [part |-> body[k + j - 1], call |-> c]]

LEMMA Piece ==
  ASSUME NEW s, NEW first \in Int, NEW last \in Int, \A j \in first..last : s[j] \in Tokens
  PROVE  /\ SubSeq(s, first, last) \in Seq(Tokens)
         /\ Len(SubSeq(s, first, last)) = IF first <= last THEN last - first + 1 ELSE 0
         /\ \A j \in 1..last - first + 1 : SubSeq(s, first, last)[j] = s[first + j - 1]
BY SubSeqProperties

\* What is left of the body's tokens from a gap on is an end of the body.
LEMMA BodyEnd ==
  ASSUME NEW c \in 1..MaxCalls, NEW m \in Nat, NEW body \in Seq({"text", "crlf"}),
         NEW s \in Seq(Tokens), NEW size, size = 2 * m + 3 + Len(body), Whole(s, c, m, body),
         Gaps(s) # {}, BodyStart(s) <= size + 1
  PROVE  \E k \in 1..Len(body) + 1 : SubSeq(s, BodyStart(s), size) = BodyFrom(body, k, c)
<1> DEFINE e == 2 * m + 3
           b == BodyStart(s)
           k == b - e
<1>0. Len(body) \in Nat /\ Len(s) \in Nat /\ e \in Nat /\ size \in Nat /\ size = e + Len(body)
      /\ Stop(s) = e
  <2>1. Len(body) \in Nat /\ Len(s) \in Nat /\ e \in Nat /\ size = e + Len(body)
    BY LenProperties
  <2>2. Stop(s) = e
    BY ReadsResponse
  <2> QED BY <2>1, <2>2
<1>1. Gaps(s) \in SUBSET Nat /\ \A j \in Gaps(s) : e <= j
  BY <1>0 DEF Gaps
<1>2. First(Gaps(s)) \in Nat /\ e <= First(Gaps(s))
  BY <1>1, FirstExists
<1>3. b \in Nat /\ b <= e + Len(body) + 1 /\ k \in 1..Len(body) + 1 /\ k \in Nat /\ b = e + k
  BY <1>0, <1>2 DEF BodyStart
<1> HIDE DEF k
<1>4. \A j \in b..size : /\ s[j] \in Tokens /\ j - e \in 1..Len(body)
                         /\ s[j] = [part |-> body[j - e], call |-> c]
  <2> TAKE j \in b..size
  <2>1. j \in 1..size /\ j > e /\ j # 1 /\ j \in 1..Len(s) /\ j - e \in 1..Len(body)
    <3>0. size <= Len(s)
      BY DEF Whole
    <3>1. b \in Nat /\ j \in Int /\ b <= j /\ j <= size /\ e < b /\ e >= 3
      BY <1>0, <1>3
    <3> HIDE DEF e, b
    <3> QED BY <1>0, <3>0, <3>1
  <2>2. Response(c, m, body)[j] = [call |-> c, part |-> body[j - e]]
    BY <1>0, <2>1 DEF Response
  <2>3. s[j] \in Tokens /\ s[j] = Response(c, m, body)[j]
    BY <2>1, ElementOfSeq DEF Whole
  <2> QED BY <2>1, <2>2, <2>3
<1> HIDE DEF b
<1>5. /\ SubSeq(s, b, size) \in Seq(Tokens)
      /\ Len(SubSeq(s, b, size)) = IF b <= size THEN size - b + 1 ELSE 0
      /\ \A j \in 1..size - b + 1 : SubSeq(s, b, size)[j] = s[b + j - 1]
  <2>1. b \in Int
    BY <1>3
  <2>2. size \in Int
    BY <1>0
  <2>3. \A j \in b..size : s[j] \in Tokens
    BY <1>4, Zenon
  <2> HIDE DEF e
  <2> QED BY <2>1, <2>2, <2>3, Piece, SMTT(60)
<1>6. size - b + 1 = Len(body) - k + 1 /\ Len(SubSeq(s, b, size)) = Len(body) - k + 1
  BY <1>0, <1>3, <1>5
<1>7. ASSUME NEW j \in 1..Len(body) - k + 1
      PROVE  SubSeq(s, b, size)[j] = [part |-> body[k + j - 1], call |-> c]
  <2>1. b + j - 1 \in b..size /\ (b + j - 1) - e = k + j - 1
    BY <1>0, <1>3, <1>7
  <2> QED BY <1>4, <1>5, <1>6, <2>1
<1>8. DOMAIN SubSeq(s, b, size) = 1..Len(body) - k + 1
      /\ SubSeq(s, b, size) = [j \in DOMAIN SubSeq(s, b, size) |-> SubSeq(s, b, size)[j]]
  BY <1>5, <1>6, LenProperties
<1>9. SubSeq(s, b, size) = BodyFrom(body, k, c)
  BY <1>7, <1>8 DEF BodyFrom
<1> QED BY <1>3, <1>9 DEF b

LEMMA OwnStep == XTypeOK /\ OneAtATime /\ [Next]_vars => OwnOnly
<1> SUFFICES ASSUME XTypeOK, OneAtATime, [Next]_vars, Succeeds, clean' PROVE OwnOnly
  BY DEF OwnOnly
<1> DEFINE m == answer.count
           body == answer.body
           R == Response(call, m, body)
<1>1. Receive /\ pc = "receiving" /\ pc' = "idle" /\ ret' = 0
  BY DEF Succeeds, Next, Prepare, SetBlocking, RequestSend, ResponseFree, Answer, Close, Reset,
         vars, xvars
<1>2. PICK n \in 1..BufSize : n = Len(down) /\ Received(n)
  BY <1>1, CleanReceive
<1>3. down = R
  BY <1>1, CleanReceive DEF Answered
<1>4. m \in Nat /\ body \in Seq({"text", "crlf"}) /\ call \in 1..MaxCalls /\ Len(body) \in Nat
  <2>1. m \in Nat /\ body \in Seq({"text", "crlf"})
    <3>1. m \in HeaderCounts \cup {0} /\ body \in BodyParts \cup {<<>>}
      BY DEF XTypeOK
    <3>2. <<>> \in Seq({"text", "crlf"})
      BY EmptySeq
    <3> HIDE DEF m, body
    <3>3. m \in Nat
      BY <3>1, ExchangeAssumption
    <3>4. body \in Seq({"text", "crlf"})
      BY <3>1, <3>2, ExchangeAssumption, Zenon
    <3> QED BY <3>3, <3>4
  <2>2. call \in 1..MaxCalls
    BY <1>1, CleanReceive, ExchangeAssumption DEF XTypeOK, Answered
  <2>3. Len(body) \in Nat
    BY <2>1, LenProperties
  <2> QED BY <2>1, <2>2, <2>3
<1> HIDE DEF R, m, body
<1>5. n = 2 * m + 3 + Len(body)
  BY <1>2, <1>3, <1>4, ResponseType DEF R
<1>6. PICK s \in Seq(Tokens) : n <= Len(s) /\ (\A j \in 1..n : s[j] = R[j]) /\ Parse(s, n)
  <2>1. n \in 0..BufSize /\ n <= Len(down)
    BY <1>2, ExchangeAssumption
  <2> QED BY <1>2, <1>3, <2>1, ReceivedText
<1>7. /\ Status(s) = call /\ Stops(s) # {}
      /\ HeaderLines(s) = {2 * k + 1 : k \in 1..m}
      /\ \A j \in HeaderLines(s) : s[j] = [part |-> "header", call |-> call]
      /\ Whole(s, call, m, body)
  <2>1. Whole(s, call, m, body)
    BY <1>5, <1>6 DEF Whole, R
  <2> QED BY <1>4, <1>6, <2>1, ReadsResponse
<1>8. Wanted(s) = IF m < MaxHeaders THEN m ELSE MaxHeaders
  <2>1. Cardinality(HeaderLines(s)) = m
    BY <1>4, <1>7, OddNumbers
  <2> QED BY <1>4, <2>1, RequestAssumption DEF Wanted
<1>9. /\ Len(ParsedHeaders(s)) = IF m < MaxHeaders THEN m ELSE MaxHeaders
      /\ \A k \in DOMAIN ParsedHeaders(s) : ParsedHeaders(s)[k] = [part |-> "header", call |-> call]
  <2>1. ParsedHeaders(s) \in Seq(Tokens) /\ Len(ParsedHeaders(s)) = Wanted(s)
        /\ \A k \in 1..Wanted(s) : \E j \in HeaderLines(s) : ParsedHeaders(s)[k] = s[j]
    BY <1>6, <1>7, HeadersFound
  <2>2. DOMAIN ParsedHeaders(s) = 1..Wanted(s)
    BY <2>1, LenProperties
  <2> QED BY <1>7, <1>8, <2>1, <2>2
<1>10. /\ res'.status = Status(s) /\ res'.headers = ParsedHeaders(s)
       /\ \/ res'.body = None
          \/ /\ Gaps(s) # {} /\ BodyStart(s) <= n + 1
             /\ res'.body[1] = SubSeq(s, BodyStart(s), n)
  <2>1. CASE Gaps(s) = {} /\ Return(0, Parsed(s))
    BY <2>1 DEF Return, Parsed
  <2>2. CASE /\ Gaps(s) # {} /\ BodyStart(s) <= n + 1
             /\ Return(0, [Parsed(s) EXCEPT !.body = <<SubSeq(s, BodyStart(s), n)>>])
    <3>1. res' = [Parsed(s) EXCEPT !.body = <<SubSeq(s, BodyStart(s), n)>>]
      BY <2>2 DEF Return
    <3>2. /\ res'.status = Status(s) /\ res'.headers = ParsedHeaders(s)
          /\ res'.body = <<SubSeq(s, BodyStart(s), n)>>
      BY <3>1 DEF Parsed
    <3>3. res'.body[1] = SubSeq(s, BodyStart(s), n)
      BY <3>2, Single
    <3>4. Gaps(s) # {} /\ BodyStart(s) <= n + 1
      BY <2>2
    <3> QED BY <3>2, <3>3, <3>4
  <2>3. ~Die /\ \A r : ~Return(-1, r)
    BY <1>1 DEF Die, Return
  <2> QED BY <1>6, <1>7, <2>1, <2>2, <2>3 DEF Parse
<1>11. res'.body # None =>
         \E k \in 1..Len(body) + 1 :
           res'.body[1] = [j \in 1..Len(body) - k + 1 |-> [part |-> body[k + j - 1], call |-> call]]
  <2> SUFFICES ASSUME res'.body # None
               PROVE  \E k \in 1..Len(body) + 1 :
                        res'.body[1] = [j \in 1..Len(body) - k + 1 |->
                                         [part |-> body[k + j - 1], call |-> call]]
    OBVIOUS
  <2>1. Gaps(s) # {} /\ BodyStart(s) <= n + 1 /\ res'.body[1] = SubSeq(s, BodyStart(s), n)
    BY <1>10
  <2>2. \E k \in 1..Len(body) + 1 : SubSeq(s, BodyStart(s), n) = BodyFrom(body, k, call)
    <3>1. /\ m \in Nat /\ body \in Seq({"text", "crlf"}) /\ call \in 1..MaxCalls
          /\ s \in Seq(Tokens) /\ n = 2 * m + 3 + Len(body) /\ Whole(s, call, m, body)
          /\ Gaps(s) # {} /\ BodyStart(s) <= n + 1
      BY <1>4, <1>5, <1>6, <1>7, <2>1
    <3> QED BY <3>1, BodyEnd
  <2> QED BY <2>1, <2>2 DEF BodyFrom
<1> QED BY <1>7, <1>9, <1>10, <1>11 DEF OwnOnly, m, body

\* While the connection has been clean, a fossil_net_request_send that returns 0
\* returns the response to its own request, whatever the buffer held before and
\* for any responses, requests, limits and interleavings with the server.
THEOREM ResponseIsOwn == Spec => OwnResponse
<1>1. Spec => []OneAtATime
  BY XInvariant, InitOneAtATime, NextOneAtATime, PTL DEF Spec
<1>2. Spec => [][OwnOnly]_vars
  BY XInvariant, <1>1, OwnStep, PTL DEF Spec
<1> QED BY <1>2, PTL DEF OwnResponse, OwnOnly

=============================================================================
