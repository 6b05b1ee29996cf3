---------------------------- MODULE RequestProofs ----------------------------
(***************************************************************************)
(* For any names, values, URLs and sizes: the header list of a request     *)
(* never outgrows its array, it is a map for the names that are stored     *)
(* whole, and these are on the wire once; and the parser takes a URL apart *)
(* into the parts it was written from.                                     *)
(***************************************************************************)
EXTENDS FiniteSetTheorems, SequenceTheorems, Request, TLAPS

-----------------------------------------------------------------------------
(* A URL is taken apart at the first of a separator, which is where the    *)
(* parts before it end.                                                    *)
Lacking(s, t) == At(s, t) = {}

LEMMA AtJoined ==
  ASSUME NEW S, NEW s \in Seq(S), NEW r \in Seq(S), NEW t, Lacking(s, t)
  PROVE  /\ s \o r \in Seq(S)
         /\ At(s \o r, t) = {Len(s) + i : i \in At(r, t)}
<1> DEFINE u == s \o r
<1>1. /\ u \in Seq(S) /\ Len(u) = Len(s) + Len(r) /\ Len(s) \in Nat /\ Len(r) \in Nat
      /\ \A i \in 1..Len(s) + Len(r) : u[i] = IF i <= Len(s) THEN s[i] ELSE r[i - Len(s)]
  BY ConcatProperties, LenProperties
<1>2. DOMAIN u = 1..Len(s) + Len(r) /\ DOMAIN s = 1..Len(s) /\ DOMAIN r = 1..Len(r)
  BY <1>1, LenProperties
<1> HIDE DEF u
<1>3. ASSUME NEW j \in At(u, t) PROVE j \in {Len(s) + i : i \in At(r, t)}
  <2>1. j \in 1..Len(s) + Len(r) /\ u[j] = t
    BY <1>2 DEF At
  <2>2. ~(j <= Len(s))
    BY <1>1, <1>2, <2>1 DEF At, Lacking
  <2>3. j - Len(s) \in 1..Len(r) /\ r[j - Len(s)] = t /\ j = Len(s) + (j - Len(s))
    BY <1>1, <2>1, <2>2
  <2> QED BY <1>2, <2>3 DEF At
<1>4. ASSUME NEW i \in At(r, t) PROVE Len(s) + i \in At(u, t)
  <2>1. i \in 1..Len(r) /\ r[i] = t
    BY <1>2 DEF At
  <2>2. Len(s) + i \in 1..Len(s) + Len(r) /\ ~(Len(s) + i <= Len(s)) /\ (Len(s) + i) - Len(s) = i
    BY <1>1, <2>1
  <2> QED BY <1>1, <1>2, <2>1, <2>2 DEF At
<1>5. At(u, t) = {Len(s) + i : i \in At(r, t)}
  BY <1>3, <1>4
<1> QED BY <1>1, <1>5 DEF u

\* The two parts that a text is joined from.
LEMMA ConcatParts ==
  ASSUME NEW S, NEW s \in Seq(S), NEW r \in Seq(S)
  PROVE  /\ SubSeq(s \o r, 1, Len(s)) = s
         /\ SubSeq(s \o r, Len(s) + 1, Len(s \o r)) = r
<1> DEFINE u == s \o r
<1>1. /\ u \in Seq(S) /\ Len(u) = Len(s) + Len(r) /\ Len(s) \in Nat /\ Len(r) \in Nat
      /\ \A i \in 1..Len(s) + Len(r) : u[i] = IF i <= Len(s) THEN s[i] ELSE r[i - Len(s)]
  BY ConcatProperties, LenProperties
<1> HIDE DEF u
<1>2. SubSeq(u, 1, Len(s)) = s
  <2>1. \A i \in 1..Len(s) : u[i] = s[i] /\ u[i] \in S
    BY <1>1, ElementOfSeq
  <2>2. /\ SubSeq(u, 1, Len(s)) \in Seq(S) /\ Len(SubSeq(u, 1, Len(s))) = Len(s)
        /\ \A i \in 1..Len(s) : SubSeq(u, 1, Len(s))[i] = u[i]
    BY <1>1, <2>1, SubSeqProperties
  <2> QED BY <2>1, <2>2, SeqEqual
<1>3. SubSeq(u, Len(s) + 1, Len(u)) = r
  <2>1. \A i \in Len(s) + 1..Len(u) : u[i] \in S
    BY <1>1, ElementOfSeq
  <2>2. /\ SubSeq(u, Len(s) + 1, Len(u)) \in Seq(S) /\ Len(SubSeq(u, Len(s) + 1, Len(u))) = Len(r)
        /\ \A i \in 1..Len(r) : SubSeq(u, Len(s) + 1, Len(u))[i] = u[Len(s) + i]
    BY <1>1, <2>1, SubSeqProperties
  <2>3. ASSUME NEW i \in 1..Len(r) PROVE u[Len(s) + i] = r[i]
    <3>1. Len(s) + i \in 1..Len(s) + Len(r) /\ ~(Len(s) + i <= Len(s)) /\ (Len(s) + i) - Len(s) = i
      BY <1>1
    <3> QED BY <1>1, <3>1
  <2> QED BY <2>2, <2>3, SeqEqual
<1> QED BY <1>2, <1>3 DEF u

LEMMA LeastIs ==
  ASSUME NEW T \in SUBSET Nat, NEW m \in T, \A j \in T : m <= j
  PROVE  Least(T) = m
<1>0. \E i \in T : \A j \in T : i <= j
  OBVIOUS
<1>1. Least(T) \in T /\ \A j \in T : Least(T) <= j
  BY <1>0 DEF Least
<1>2. Least(T) \in Nat /\ m \in Nat /\ Least(T) <= m /\ m <= Least(T)
  BY <1>1
<1> QED BY <1>2

\* What lies before a separator, and what begins with it.
LEMMA CutAt ==
  ASSUME NEW S, NEW s \in Seq(S), NEW r \in Seq(S), NEW t,
         Lacking(s, t), r # <<>> => r[1] = t
  PROVE  /\ Before(s \o r, t) = s
         /\ At(s \o r, t) = {} <=> r = <<>>
         /\ r # <<>> => From(s \o r, t) = r
<1> DEFINE u == s \o r
<1>1. /\ SubSeq(u, 1, Len(s)) = s /\ SubSeq(u, Len(s) + 1, Len(u)) = r
      /\ Len(s) \in Nat /\ Len(r) \in Nat
  BY ConcatParts, LenProperties
<1>2. At(u, t) = {Len(s) + i : i \in At(r, t)} /\ DOMAIN r = 1..Len(r)
  BY AtJoined, LenProperties
<1>3. CASE r = <<>>
  <2>1. At(r, t) = {}
    BY <1>3 DEF At
  <2>2. u = s
    BY <1>3, ConcatEmptySeq
  <2> HIDE DEF u
  <2>3. At(u, t) = {}
    BY <1>2, <2>1
  <2> QED BY <1>3, <2>2, <2>3 DEF Before, u
<1>4. CASE r # <<>>
  <2>1. Len(r) > 0 /\ 1 \in At(r, t) /\ \A i \in At(r, t) : i \in Nat /\ 1 <= i
    <3>1. Len(r) \in Nat \ {0}
      BY <1>4, EmptySeq
    <3> QED BY <1>2, <1>4, <3>1 DEF At
  <2> HIDE DEF u
  <2>2. Len(s) + 1 \in At(u, t) /\ \A j \in At(u, t) : j \in Nat /\ Len(s) + 1 <= j
    BY <1>1, <1>2, <2>1
  <2>3. Least(At(u, t)) = Len(s) + 1
    <3>1. At(u, t) \in SUBSET Nat
      BY <2>2
    <3> QED BY <2>2, <3>1, LeastIs
  <2>4. Before(u, t) = s
    <3>1. (Len(s) + 1) - 1 = Len(s)
      BY <1>1
    <3> QED BY <1>1, <2>2, <2>3, <3>1 DEF Before
  <2>5. From(u, t) = r
    BY <1>1, <2>3 DEF From
  <2> QED BY <1>4, <2>2, <2>4, <2>5 DEF u
<1> QED BY <1>3, <1>4

LEMMA Pair ==
  ASSUME NEW S, NEW e \in S, NEW f \in S
  PROVE  /\ <<e, f>> \in Seq(S) /\ Len(<<e, f>>) = 2 /\ DOMAIN <<e, f>> = 1..2
         /\ <<e, f>>[1] = e /\ <<e, f>>[2] = f
OBVIOUS

LEMMA Triple ==
  ASSUME NEW S, NEW e \in S, NEW f \in S
  PROVE  /\ <<e, f, f>> \in Seq(S) /\ Len(<<e, f, f>>) = 3
         /\ <<e, f, f>>[1] = e /\ <<e, f, f>>[2] = f /\ <<e, f, f>>[3] = f
OBVIOUS

LEMMA Marks == ":" \in UrlTokens /\ "/" \in UrlTokens /\ ":" # "/"
<1>1. ":" # "/"
  OBVIOUS
<1> QED BY <1>1 DEF UrlTokens, Separators

LEMMA Associated ==
  ASSUME NEW a \in Seq(UrlTokens), NEW b \in Seq(UrlTokens), NEW c \in Seq(UrlTokens)
  PROVE  (a \o b) \o c = a \o (b \o c)
BY ConcatAssociative

\* The first mark, an e with two f behind it, is the one that follows a text
\* without e.
MarksOf(u, e, f) == {i \in At(u, e) : i + 2 \in DOMAIN u /\ u[i + 1] = f /\ u[i + 2] = f}

Thrice(e, f) == <<e, f, f>>
Marked(s, e, f, r) == s \o (Thrice(e, f) \o r)

LEMMA MarkAt ==
  ASSUME NEW s \in Seq(UrlTokens), NEW r \in Seq(UrlTokens), NEW e \in UrlTokens, NEW f \in UrlTokens,
         Lacking(s, e)
  PROVE  /\ MarksOf(Marked(s, e, f, r), e, f) # {}
         /\ Least(MarksOf(Marked(s, e, f, r), e, f)) = Len(s) + 1
         /\ SubSeq(Marked(s, e, f, r), 1, Len(s)) = s
         /\ SubSeq(Marked(s, e, f, r), Len(s) + 4, Len(Marked(s, e, f, r))) = r
<1> DEFINE u    == Marked(s, e, f, r)
           mark == Thrice(e, f)
           tail == mark \o r
<1>0. u = s \o tail
  BY DEF Marked
<1> HIDE DEF u
<1>1. mark \in Seq(UrlTokens) /\ Len(mark) = 3 /\ mark[1] = e /\ mark[2] = f /\ mark[3] = f
  BY Triple DEF Thrice
<1> HIDE DEF mark
<1>2. /\ tail \in Seq(UrlTokens) /\ Len(tail) = 3 + Len(r) /\ Len(r) \in Nat /\ Len(s) \in Nat
      /\ tail[1] = e /\ tail[2] = f /\ tail[3] = f
  <2>1. Len(r) \in Nat /\ Len(s) \in Nat
    BY LenProperties
  <2>2. /\ tail \in Seq(UrlTokens) /\ Len(tail) = Len(mark) + Len(r)
        /\ \A i \in 1..Len(mark) + Len(r) : tail[i] = IF i <= Len(mark) THEN mark[i] ELSE r[i - Len(mark)]
    BY <1>1, ConcatProperties
  <2> HIDE DEF tail
  <2>3. 1 \in 1..Len(mark) + Len(r) /\ 2 \in 1..Len(mark) + Len(r) /\ 3 \in 1..Len(mark) + Len(r)
    BY <1>1, <2>1
  <2> QED BY <1>1, <2>1, <2>2, <2>3
<1>3. SubSeq(u, 1, Len(s)) = s
  BY <1>0, <1>2, ConcatParts
<1>4. SubSeq(u, Len(s) + 4, Len(u)) = r
  <2>1. u = (s \o mark) \o r
    <3>1. (s \o mark) \o r = s \o (mark \o r)
      BY <1>1, Associated
    <3> QED BY <1>0, <3>1
  <2>2. s \o mark \in Seq(UrlTokens) /\ Len(s \o mark) + 1 = Len(s) + 4
    BY <1>1, <1>2, ConcatProperties
  <2>3. SubSeq((s \o mark) \o r, Len(s \o mark) + 1, Len((s \o mark) \o r)) = r
    BY <2>2, ConcatParts
  <2> QED BY <2>1, <2>2, <2>3
<1> HIDE DEF tail
<1>5. At(u, e) = {Len(s) + i : i \in At(tail, e)} /\ DOMAIN tail = 1..Len(tail)
  <2>1. At(s \o tail, e) = {Len(s) + i : i \in At(tail, e)}
    BY <1>2, AtJoined
  <2>2. DOMAIN tail = 1..Len(tail)
    BY <1>2, LenProperties
  <2> QED BY <1>0, <2>1, <2>2
<1>6. /\ DOMAIN u = 1..Len(s) + Len(tail)
      /\ u[Len(s) + 2] = f /\ u[Len(s) + 3] = f
  <2>1. /\ u \in Seq(UrlTokens) /\ Len(u) = Len(s) + Len(tail)
        /\ \A i \in 1..Len(s) + Len(tail) : u[i] = IF i <= Len(s) THEN s[i] ELSE tail[i - Len(s)]
    <3>1. tail \in Seq(UrlTokens)
      BY <1>2
    <3>2. /\ s \o tail \in Seq(UrlTokens) /\ Len(s \o tail) = Len(s) + Len(tail)
          /\ \A i \in 1..Len(s) + Len(tail) :
               (s \o tail)[i] = IF i <= Len(s) THEN s[i] ELSE tail[i - Len(s)]
      BY <3>1, ConcatProperties
    <3> QED BY <1>0, <3>2
  <2>2. Len(s) + 2 \in 1..Len(s) + Len(tail) /\ ~(Len(s) + 2 <= Len(s)) /\ (Len(s) + 2) - Len(s) = 2
    BY <1>2
  <2>3. Len(s) + 3 \in 1..Len(s) + Len(tail) /\ ~(Len(s) + 3 <= Len(s)) /\ (Len(s) + 3) - Len(s) = 3
    BY <1>2
  <2>4. DOMAIN u = 1..Len(u)
    BY <2>1, LenProperties
  <2> QED BY <1>2, <2>1, <2>2, <2>3, <2>4
<1>7. Len(s) + 1 \in MarksOf(u, e, f)
  <2>1. Len(s) + 1 \in At(u, e)
    <3>1. 1 \in At(tail, e)
      BY <1>2, <1>5 DEF At
    <3> QED BY <1>2, <1>5, <3>1
  <2>2. (Len(s) + 1) + 1 = Len(s) + 2 /\ (Len(s) + 1) + 2 = Len(s) + 3
    BY <1>2
  <2>3. Len(s) + 3 \in DOMAIN u
    BY <1>2, <1>6
  <2> QED BY <1>6, <2>1, <2>2, <2>3 DEF MarksOf
<1>8. MarksOf(u, e, f) \in SUBSET Nat /\ \A j \in MarksOf(u, e, f) : Len(s) + 1 <= j
  <2>1. \A j \in At(u, e) : j \in Nat /\ Len(s) + 1 <= j
    BY <1>2, <1>5 DEF At
  <2> QED BY <2>1 DEF MarksOf
<1>9. Least(MarksOf(u, e, f)) = Len(s) + 1
  BY <1>7, <1>8, LeastIs
<1> QED BY <1>3, <1>4, <1>7, <1>9 DEF u

LEMMA WordsLack ==
  ASSUME NEW s \in Seq(Words), NEW t \in Separators
  PROVE  Lacking(s, t)
<1>1. \A i \in DOMAIN s : s[i] \in Words
  BY LenProperties, ElementOfSeq
<1> QED BY <1>1 DEF Lacking, At, Words

\* The parts of a URL of the model.
PortPart(u)  == IF u.port = "" THEN <<>> ELSE <<":", u.port>>
Authority(u) == u.host \o PortPart(u)
Hier(u)      == Authority(u) \o u.path

LEMMA UrlParts ==
  ASSUME NEW u \in Urls
  PROVE  /\ u.scheme \in Seq(UrlTokens) /\ u.host \in Seq(UrlTokens) /\ PortPart(u) \in Seq(UrlTokens)
         /\ u.path \in Seq(UrlTokens) /\ Authority(u) \in Seq(UrlTokens) /\ Hier(u) \in Seq(UrlTokens)
         /\ \A t \in Separators : Lacking(u.scheme, t) /\ Lacking(u.host, t)
         /\ Lacking(Authority(u), "/")
<1>1. u.scheme \in Seq(Words) /\ u.host \in Seq(Words) /\ u.port \in Words \cup {""} /\ u.path \in Seq(UrlTokens)
  BY UrlsAssumption
<1>2. u.scheme \in Seq(UrlTokens) /\ u.host \in Seq(UrlTokens)
  BY <1>1, SeqMonotonic DEF UrlTokens
<1>3. PortPart(u) \in Seq(UrlTokens) /\ Lacking(PortPart(u), "/")
  <2>1. CASE u.port = ""
    <3>1. PortPart(u) = <<>>
      BY <2>1 DEF PortPart
    <3> QED BY <3>1, EmptySeq DEF Lacking, At
  <2>2. CASE u.port # ""
    <3>1. PortPart(u) = <<":", u.port>> /\ u.port \in UrlTokens /\ u.port # "/"
      BY <1>1, <2>2 DEF PortPart, Words, UrlTokens, Separators
    <3>2. /\ <<":", u.port>> \in Seq(UrlTokens) /\ DOMAIN <<":", u.port>> = 1..2
          /\ <<":", u.port>>[1] = ":" /\ <<":", u.port>>[2] = u.port
      BY <3>1, Marks, Pair
    <3>3. \A i \in 1..2 : <<":", u.port>>[i] # "/"
      <4>1. 1..2 = {1, 2}
        OBVIOUS
      <4> QED BY <3>1, <3>2, <4>1, Marks
    <3> QED BY <3>1, <3>2, <3>3 DEF Lacking, At
  <2> QED BY <2>1, <2>2
<1>4. \A t \in Separators : Lacking(u.scheme, t) /\ Lacking(u.host, t)
  BY <1>1, WordsLack
<1>5. Authority(u) \in Seq(UrlTokens) /\ Lacking(Authority(u), "/")
  <2>1. "/" \in Separators
    BY DEF Separators
  <2>2. u.host \o PortPart(u) \in Seq(UrlTokens)
        /\ At(u.host \o PortPart(u), "/") = {Len(u.host) + i : i \in At(PortPart(u), "/")}
    BY <1>2, <1>3, <1>4, <2>1, AtJoined
  <2>3. At(PortPart(u), "/") = {}
    BY <1>3 DEF Lacking
  <2> QED BY <2>2, <2>3 DEF Authority, Lacking
<1>6. Hier(u) \in Seq(UrlTokens)
  BY <1>1, <1>5, ConcatProperties DEF Hier
<1> QED BY <1>1, <1>2, <1>3, <1>4, <1>5, <1>6

\* Behind its scheme a URL is its host, its port and its path.
Mark == <<":", "/", "/">>

LEMMA FlatIs ==
  ASSUME NEW u \in Urls
  PROVE  /\ Flat(u) = IF u.scheme = <<>> THEN Hier(u) ELSE u.scheme \o (Mark \o Hier(u))
         /\ Flat(u) \in Seq(UrlTokens)
<1>1. /\ u.scheme \in Seq(UrlTokens) /\ u.host \in Seq(UrlTokens) /\ PortPart(u) \in Seq(UrlTokens)
      /\ u.path \in Seq(UrlTokens) /\ Authority(u) \in Seq(UrlTokens) /\ Hier(u) \in Seq(UrlTokens)
  BY UrlParts
<1>2. Mark \in Seq(UrlTokens)
  BY Marks, Triple DEF Mark
<1>3. CASE u.scheme = <<>>
  <2>1. <<>> \o u.host = u.host
    BY <1>1, ConcatEmptySeq
  <2> QED BY <1>1, <1>3, <2>1 DEF Flat, Hier, Authority, PortPart
<1>4. CASE u.scheme # <<>>
  <2> DEFINE front == u.scheme \o Mark
  <2>1. front \in Seq(UrlTokens)
    BY <1>1, <1>2, ConcatProperties
  <2>2. Flat(u) = ((front \o u.host) \o PortPart(u)) \o u.path
    <3>1. (IF u.scheme = <<>> THEN <<>> ELSE u.scheme \o <<":", "/", "/">>) = front
      BY <1>4 DEF Mark
    <3> HIDE DEF front
    <3> QED BY <3>1 DEF Flat, PortPart
  <2>3. front \o Hier(u) = u.scheme \o (Mark \o Hier(u))
    <3>1. u.scheme \in Seq(UrlTokens) /\ Mark \in Seq(UrlTokens) /\ Hier(u) \in Seq(UrlTokens)
      BY <1>1, <1>2
    <3> QED BY <3>1, Associated
  <2>4. Mark \o Hier(u) \in Seq(UrlTokens)
    BY <1>1, <1>2, ConcatProperties
  <2>5. u.scheme \o (Mark \o Hier(u)) \in Seq(UrlTokens)
    BY <1>1, <2>4, ConcatProperties
  <2> HIDE DEF front
  <2>6. (front \o u.host) \o PortPart(u) = front \o Authority(u)
    BY <1>1, <2>1, Associated DEF Authority
  <2>7. (front \o Authority(u)) \o u.path = front \o Hier(u)
    BY <1>1, <2>1, Associated DEF Hier
  <2> QED BY <1>4, <2>2, <2>3, <2>5, <2>6, <2>7
<1> QED BY <1>3, <1>4

\* What the structure keeps of a URL is a text that fits.
LEMMA UrlKept ==
  ASSUME NEW u \in Urls
  PROVE  Cut(Flat(u), UrlMax) \in Seq(UrlTokens) /\ Len(Cut(Flat(u), UrlMax)) <= UrlMax
<1>1. Flat(u) \in Seq(UrlTokens) /\ Len(Flat(u)) \in Nat /\ UrlMax \in Nat
  BY FlatIs, LenProperties, UrlAssumption
<1>2. CASE Len(Flat(u)) <= UrlMax
  BY <1>1, <1>2 DEF Cut
<1>3. CASE ~(Len(Flat(u)) <= UrlMax)
  <2>1. \A i \in 1..UrlMax : Flat(u)[i] \in UrlTokens
    BY <1>1, <1>3, ElementOfSeq
  <2>2. SubSeq(Flat(u), 1, UrlMax) \in Seq(UrlTokens) /\ Len(SubSeq(Flat(u), 1, UrlMax)) = UrlMax
    BY <1>1, <1>3, <2>1, SubSeqProperties
  <2> QED BY <1>1, <1>3, <2>2 DEF Cut
<1> QED BY <1>2, <1>3

-----------------------------------------------------------------------------
(* set_header works on the first header that matches: there is one.        *)

\* Of the initial segments of a set of naturals, as many as its elements, one
\* holds no other: it ends with the least element.
LEMMA FirstExists ==
  ASSUME NEW T \in SUBSET Nat, T # {}
  PROVE  First(T) \in T /\ \A j \in T : First(T) <= j
<1> DEFINE Segment(i) == T \cap (0..i)
           Segments == {Segment(i) : i \in T}
<1>1. Segments \subseteq FiniteSubsetsOf(Nat)
  <2> SUFFICES ASSUME NEW i \in T PROVE IsFiniteSet(Segment(i)) /\ Segment(i) \in SUBSET Nat
    BY DEF FiniteSubsetsOf
  <2>1. IsFiniteSet(0..i)
    BY FS_Interval
  <2> QED BY <2>1, FS_Subset
<1>2. PICK X \in Segments : \A Y \in Segments : <<Y, X>> \notin StrictSubsetOrdering(Nat)
  <2>1. Segments # {}
    OBVIOUS
  <2>2. IsWellFoundedOn(StrictSubsetOrdering(Nat), FiniteSubsetsOf(Nat))
    BY FS_StrictSubsetOrderingWellFounded
  <2> HIDE DEF Segments
  <2> QED BY <1>1, <2>1, <2>2, WFMin
<1>3. PICK i \in T : X = Segment(i)
  OBVIOUS
<1>4. ASSUME NEW j \in T, j < i PROVE FALSE
  <2>1. Segment(j) \subseteq Segment(i) /\ i \in Segment(i) /\ i \notin Segment(j)
    BY <1>4
  <2>2. <<Segment(j), Segment(i)>> \in StrictSubsetOrdering(Nat)
    BY <2>1 DEF StrictSubsetOrdering
  <2> QED BY <1>2, <1>3, <2>2
<1>5. \A j \in T : i <= j
  BY <1>4
<1> QED BY <1>5 DEF First

LEMMA HeaderList ==
  ASSUME RTypeOK
  PROVE  headers \in Seq([key : Keys, value : Values]) /\ Len(headers) \in Nat /\ DOMAIN headers = 1..Len(headers)
BY LenProperties DEF RTypeOK

LEMMA MatchFirst ==
  ASSUME RTypeOK, NEW k, Match(k) # {}
  PROVE  First(Match(k)) \in 1..Len(headers) /\ First(Match(k)) \in Match(k) /\ headers[First(Match(k))].key = k
<1>1. Match(k) \subseteq 1..Len(headers) /\ Len(headers) \in Nat
  BY HeaderList DEF Match
<1>2. Match(k) \in SUBSET Nat
  BY <1>1
<1>3. First(Match(k)) \in Match(k)
  BY <1>2, FirstExists
<1> QED BY <1>1, <1>3 DEF Match

-----------------------------------------------------------------------------
(* Types.                                                                  *)
LEMMA InitTypes == RInit => RTypeOK
BY RequestAssumption, EmptySeq, UrlKept DEF RInit, RTypeOK

Headers == [key : Keys, value : Values]

\* The two ways in which set_header changes the list.
LEMMA ReplaceHeader ==
  ASSUME RTypeOK, NEW k, NEW v \in Values, Match(k) # {},
         headers' = [headers EXCEPT ![First(Match(k))].value = v]
  PROVE  /\ headers' \in Seq(Headers) /\ Len(headers') = Len(headers)
         /\ \A i \in 1..Len(headers) :
              headers'[i] = IF i = First(Match(k)) THEN Header(k, v) ELSE headers[i]
<1> DEFINE f == First(Match(k))
<1>1. f \in 1..Len(headers) /\ headers[f].key = k /\ headers \in Seq(Headers)
  BY MatchFirst, HeaderList DEF Headers
<1>2. headers[f] \in Headers
  BY <1>1, ElementOfSeq
<1>3. [headers[f] EXCEPT !.value = v] = Header(k, v) /\ Header(k, v) \in Headers
  BY <1>1, <1>2 DEF Headers, Header
<1> HIDE DEF f
<1>4. headers' = [headers EXCEPT ![f] = Header(k, v)]
  BY <1>3 DEF f
<1> QED BY <1>1, <1>3, <1>4, ExceptSeq DEF f

LEMMA AppendHeader ==
  ASSUME RTypeOK, NEW k \in Keys, NEW v \in Values,
         headers' = Append(headers, Header(Stored[k], v))
  PROVE  /\ headers' \in Seq(Headers) /\ Len(headers') = Len(headers) + 1
         /\ \A i \in 1..Len(headers) : headers'[i] = headers[i]
         /\ headers'[Len(headers) + 1] = Header(Stored[k], v)
<1>1. headers \in Seq(Headers) /\ Header(Stored[k], v) \in Headers
  BY RequestAssumption DEF RTypeOK, Headers, Header
<1> QED BY <1>1, AppendProperties

LEMMA NextTypes == RTypeOK /\ [RNext]_rvars => RTypeOK'
<1> SUFFICES ASSUME RTypeOK, [RNext]_rvars PROVE RTypeOK'
  OBVIOUS
<1>0. Len(headers) \in Nat /\ MaxHeaders \in Nat /\ RTypeOK
  BY RequestAssumption DEF RTypeOK
<1>1. ASSUME NEW k \in Keys, NEW v \in Values, SetHeader(k, v) PROVE RTypeOK'
  <2>1. UNCHANGED <<url, written, bodySize>> /\ rc' \in {0, -1} /\ latest' = Header(k, v)
    BY <1>1 DEF SetHeader
  <2>2. headers' \in Seq(Headers) /\ Len(headers') <= MaxHeaders
    <3>1. CASE Match(k) # {}
      BY <1>0, <1>1, <3>1, ReplaceHeader DEF SetHeader, RTypeOK
    <3>2. CASE Match(k) = {} /\ headers' = Append(headers, Header(Stored[k], v)) /\ Len(headers) < MaxHeaders
      BY <1>0, <3>2, AppendHeader
    <3>3. CASE UNCHANGED headers
      BY <3>3 DEF RTypeOK, Headers
    <3> QED BY <1>1, <3>1, <3>2, <3>3 DEF SetHeader
  <2> QED BY <2>1, <2>2 DEF RTypeOK, Header, Headers
<1>2. ASSUME NEW n \in Bodies, SetBody(n) PROVE RTypeOK'
  BY <1>2 DEF SetBody, RTypeOK
<1>3. ASSUME NEW u \in Urls, RequestInit(u) PROVE RTypeOK'
  BY <1>0, <1>3, UrlKept DEF RequestInit, RTypeOK
<1>4. CASE RequestFree
  BY <1>0, <1>4 DEF RequestFree, RTypeOK
<1>5. CASE UNCHANGED rvars
  BY <1>5 DEF rvars, RTypeOK
<1> QED BY <1>1, <1>2, <1>3, <1>4, <1>5 DEF RNext

\* The header list stays within headers[32], whatever is set and set again.
THEOREM RequestTypes == RSpec => []RTypeOK
BY InitTypes, NextTypes, PTL DEF RSpec

-----------------------------------------------------------------------------
(* The refinement of HeaderMap.                                            *)
HeaderMapOf == [k \in Short |-> Value(k)]

\* A name that is not set has no value; one that is set has one of Values.
LEMMA ValueSet ==
  ASSUME RTypeOK, NEW k
  PROVE  Value(k) = Unset <=> Match(k) = {}
<1>1. CASE Match(k) # {}
  <2>1. First(Match(k)) \in 1..Len(headers) /\ headers \in Seq([key : Keys, value : Values])
    BY <1>1, MatchFirst, HeaderList
  <2>2. headers[First(Match(k))] \in [key : Keys, value : Values]
    BY <2>1, ElementOfSeq
  <2> QED BY <1>1, <2>2, RequestAssumption DEF Value
<1> QED BY <1>1 DEF Value

\* Setting a name that is stored whole changes its own value.
LEMMA Puts ==
  ASSUME RTypeOK, NEW k \in Short, NEW v \in Values, SetHeader(k, v), rc' = 0
  PROVE  /\ HeaderMapOf' = [HeaderMapOf EXCEPT ![k] = v]
         /\ Len(headers') = IF Match(k) = {} THEN Len(headers) + 1 ELSE Len(headers)
         /\ Match(k) = {} => Len(headers) < MaxHeaders
<1> k \in Keys /\ Stored[k] = k /\ Len(headers) \in Nat /\ DOMAIN headers = 1..Len(headers)
  BY DEF Short, RTypeOK
<1>1. CASE Match(k) # {}
  <2> DEFINE f == First(Match(k))
  <2>1. headers' = [headers EXCEPT ![f].value = v]
    BY <1>1 DEF SetHeader
  <2>2. f \in Match(k)
    BY <1>1, MatchFirst
  <2>3. /\ Len(headers') = Len(headers) /\ DOMAIN headers' = 1..Len(headers)
        /\ \A i \in 1..Len(headers) : headers'[i] = IF i = f THEN Header(k, v) ELSE headers[i]
    BY <1>1, <2>1, ReplaceHeader
  <2> HIDE DEF f
  <2>4. \A l : Match(l)' = Match(l)
    BY <2>2, <2>3 DEF Match, Header
  <2>5. ASSUME NEW l PROVE Value(l)' = IF l = k THEN v ELSE Value(l)
    <3>1. CASE Match(l) = {}
      BY <1>1, <2>4, <3>1 DEF Value
    <3>2. CASE Match(l) # {}
      <4>1. First(Match(l)) \in 1..Len(headers) /\ headers[First(Match(l))].key = l
        BY <3>2, MatchFirst DEF Match
      <4>2. Value(l)' = headers'[First(Match(l))].value /\ Value(l) = headers[First(Match(l))].value
        BY <2>4, <3>2 DEF Value
      <4>3. First(Match(l)) = f <=> l = k
        BY <2>2, <4>1 DEF f, Match
      <4> QED BY <2>3, <4>1, <4>2, <4>3 DEF Header
    <3> QED BY <3>1, <3>2
  <2> QED BY <1>1, <2>3, <2>5 DEF HeaderMapOf
<1>2. CASE Match(k) = {}
  <2>1. headers' = Append(headers, Header(k, v)) /\ Len(headers) < MaxHeaders
    BY <1>2 DEF SetHeader
  <2>2. /\ Len(headers') = Len(headers) + 1 /\ DOMAIN headers' = 1..Len(headers) + 1
        /\ \A i \in 1..Len(headers) : headers'[i] = headers[i]
        /\ headers'[Len(headers) + 1] = Header(k, v)
    BY <2>1, AppendHeader
  <2>3. ASSUME NEW l, l # k PROVE Value(l)' = Value(l)
    <3>1. Match(l)' = Match(l)
      BY <2>2, <2>3 DEF Match, Header
    <3>2. Match(l) # {} => First(Match(l)) \in 1..Len(headers)
      BY MatchFirst DEF Match
    <3> QED BY <2>2, <3>1, <3>2 DEF Value
  <2>4. Value(k)' = v
    <3>1. Match(k)' = {Len(headers) + 1}
      BY <1>2, <2>2 DEF Match, Header
    <3>2. First({Len(headers) + 1}) = Len(headers) + 1
      BY FirstExists
    <3> QED BY <2>2, <3>1, <3>2 DEF Value, Header
  <2> QED BY <1>2, <2>1, <2>2, <2>3, <2>4 DEF HeaderMapOf
<1> QED BY <1>1, <1>2

\* Setting a name that is cut, or that another is cut to, changes no value of
\* the names that are stored whole.
LEMMA PutsOther ==
  ASSUME RTypeOK, NEW k \in Keys \ Short, NEW v \in Values, SetHeader(k, v), rc' = 0
  PROVE  /\ HeaderMapOf' = HeaderMapOf
         /\ Len(headers') \in {Len(headers), Len(headers) + 1} /\ Len(headers') <= MaxHeaders
<1> /\ Len(headers) \in Nat /\ DOMAIN headers = 1..Len(headers)
    /\ MaxHeaders \in Nat /\ Len(headers) <= MaxHeaders
  BY RequestAssumption DEF RTypeOK
<1>0. SUFFICES /\ \A l \in Short : Match(l)' = Match(l)
               /\ \A l \in Short : \A i \in Match(l) : headers'[i] = headers[i]
               /\ Len(headers') \in {Len(headers), Len(headers) + 1} /\ Len(headers') <= MaxHeaders
  <2>1. \A l \in Short : Value(l)' = Value(l)
    BY <1>0, MatchFirst DEF Value
  <2> QED BY <1>0, <2>1 DEF HeaderMapOf
<1>1. CASE Match(k) # {}
  <2>1. /\ Len(headers') = Len(headers) /\ DOMAIN headers' = 1..Len(headers)
        /\ \A i \in 1..Len(headers) :
             headers'[i] = IF i = First(Match(k)) THEN Header(k, v) ELSE headers[i]
    BY <1>1, ReplaceHeader DEF SetHeader
  <2>2. First(Match(k)) \in Match(k)
    BY <1>1, MatchFirst
  <2> QED BY <2>1, <2>2 DEF Match, Header
<1>2. CASE Match(k) = {}
  <2>1. headers' = Append(headers, Header(Stored[k], v)) /\ Len(headers) < MaxHeaders
    BY <1>2 DEF SetHeader
  <2>2. /\ Len(headers') = Len(headers) + 1 /\ DOMAIN headers' = 1..Len(headers) + 1
        /\ \A i \in 1..Len(headers) : headers'[i] = headers[i]
        /\ headers'[Len(headers) + 1] = Header(Stored[k], v)
    BY <2>1, AppendHeader
  <2>3. \A l \in Short : Stored[k] # l
    BY DEF Short
  <2> QED BY <2>1, <2>2, <2>3 DEF Match, Header
<1> QED BY <1>1, <1>2

\* A header that is refused changes nothing, and there is no room for it.
LEMMA Refuses ==
  ASSUME RTypeOK, NEW k \in Keys, NEW v \in Values, SetHeader(k, v), rc' # 0
  PROVE  rc' = -1 /\ UNCHANGED headers /\ Match(k) = {} /\ Len(headers) = MaxHeaders
<1>1. rc' = -1 /\ UNCHANGED headers /\ Match(k) = {} /\ Len(headers) >= MaxHeaders
  BY DEF SetHeader
<1> QED BY <1>1, RequestAssumption DEF RTypeOK

LEMMA SetHeaderMaps ==
  ASSUME RTypeOK, NEW k \in Keys, NEW v \in Values, SetHeader(k, v)
  PROVE  Map!MNext
<1> Len(headers) \in Nat /\ MaxHeaders \in Nat /\ latest' = Header(k, v)
  BY HeaderList, RequestAssumption DEF SetHeader
<1>1. CASE rc' = 0 /\ k \in Short
  <2>1. Value(k) = Unset <=> Match(k) = {}
    BY ValueSet
  <2>2. HeaderMapOf[k] = Value(k)
    BY <1>1 DEF HeaderMapOf
  <2>3. Map!Put(k, v)
    BY <1>1, <2>1, <2>2, Puts DEF Map!Put, HeaderMapOf, Header
  <2> QED BY <1>1, <2>3 DEF Map!MNext
<1>2. CASE rc' = 0 /\ k \notin Short
  BY <1>2, PutsOther DEF Map!MNext, Map!PutOther, HeaderMapOf, Header
<1>3. CASE rc' # 0
  <2>1. rc' = -1 /\ UNCHANGED headers /\ Match(k) = {} /\ Len(headers) = MaxHeaders
    BY <1>3, Refuses
  <2>2. HeaderMapOf' = HeaderMapOf /\ Value(k) = Unset
    BY <2>1, ValueSet DEF HeaderMapOf, Value, Match
  <2> QED BY <2>1, <2>2 DEF Map!MNext, Map!Refuse, HeaderMapOf, Header
<1> QED BY <1>1, <1>2, <1>3

\* Without headers no name has a value.
LEMMA EmptyMap == headers = <<>> => HeaderMapOf = [n \in Short |-> Unset]
BY DEF HeaderMapOf, Value, Match

LEMMA InitMaps == RInit => Map!MInit
BY EmptyMap, RequestAssumption DEF RInit, Map!MInit, HeaderMapOf

\* init and free forget the headers.
LEMMA Clears ==
  ASSUME headers' = <<>>, UNCHANGED <<latest, rc>>
  PROVE  Map!MNext
<1>1. HeaderMapOf' = [n \in Short |-> Unset]
  BY DEF HeaderMapOf, Value, Match
<1>2. MaxHeaders - Len(headers') = MaxHeaders
  BY RequestAssumption
<1> QED BY <1>1, <1>2 DEF Map!MNext, Map!Clear, HeaderMapOf

LEMMA NextMaps == RTypeOK /\ [RNext]_rvars => [Map!MNext]_(Map!mvars)
<1> SUFFICES ASSUME RTypeOK, [RNext]_rvars PROVE [Map!MNext]_(Map!mvars)
  OBVIOUS
<1>1. ASSUME NEW k \in Keys, NEW v \in Values, SetHeader(k, v) PROVE Map!MNext
  BY <1>1, SetHeaderMaps
<1>2. ASSUME NEW u \in Urls, RequestInit(u) PROVE Map!MNext
  BY <1>2, Clears DEF RequestInit
<1>3. CASE RequestFree
  BY <1>3, Clears DEF RequestFree
<1>4. CASE UNCHANGED <<headers, latest, rc>>
  BY <1>4 DEF Map!mvars, Value, Match
<1>5. CASE (\E n \in Bodies : SetBody(n)) \/ UNCHANGED rvars
  BY <1>4, <1>5 DEF SetBody, rvars
<1> QED BY <1>1, <1>2, <1>3, <1>5 DEF RNext

\* For any names, long ones included, any values and any room: the header list
\* is a map for the names that are stored whole, in which a name set again is
\* replaced and one is refused only when there is no room (set_header).
THEOREM HeadersAreMap == RSpec => ImplementsMap
<1>1. RSpec => Map!MSpec
  BY InitMaps, NextMaps, RequestTypes, PTL DEF RSpec, Map!MSpec
<1> QED BY <1>1 DEF ImplementsMap

-----------------------------------------------------------------------------
(* What is on the wire.                                                    *)
Keyed(s, k) == {j \in 1..Len(s) : s[j].key = k}
Lacks(s, k) == Keyed(s, k) = {}
Once(s, k)  == \E i : Keyed(s, k) = {i}

LEMMA OneLine ==
  ASSUME NEW e, NEW k
  PROVE  IF e.key = k THEN Once(<<e>>, k) ELSE Lacks(<<e>>, k)
<1>1. Keyed(<<e>>, k) = IF e.key = k THEN {1} ELSE {}
  <2>1. Len(<<e>>) = 1 /\ <<e>>[1] = e /\ 1..1 = {1}
    OBVIOUS
  <2> QED BY <2>1 DEF Keyed
<1> QED BY <1>1 DEF Once, Lacks

\* Of the pieces that are put together, one has the line or none has.
LEMMA Joined ==
  ASSUME NEW S, NEW s \in Seq(S), NEW t \in Seq(S), NEW k
  PROVE  /\ s \o t \in Seq(S)
         /\ Lacks(s, k) /\ Lacks(t, k) => Lacks(s \o t, k)
         /\ Once(s, k) /\ Lacks(t, k) => Once(s \o t, k)
         /\ Lacks(s, k) /\ Once(t, k) => Once(s \o t, k)
<1> DEFINE u == s \o t
<1>1. /\ u \in Seq(S) /\ Len(u) = Len(s) + Len(t) /\ Len(s) \in Nat /\ Len(t) \in Nat
      /\ \A i \in 1..Len(s) + Len(t) : u[i] = IF i <= Len(s) THEN s[i] ELSE t[i - Len(s)]
  BY ConcatProperties, LenProperties
<1> HIDE DEF u
<1>2. ASSUME NEW i \in 1..Len(s) PROVE i \in 1..Len(u) /\ u[i] = s[i]
  BY <1>1
<1>3. ASSUME NEW i \in 1..Len(t) PROVE Len(s) + i \in 1..Len(u) /\ u[Len(s) + i] = t[i]
  <2>1. Len(s) + i \in 1..Len(s) + Len(t) /\ ~(Len(s) + i <= Len(s)) /\ (Len(s) + i) - Len(s) = i
    BY <1>1
  <2> QED BY <1>1, <2>1
<1>4. ASSUME NEW j \in 1..Len(u), j \notin 1..Len(s)
      PROVE  j - Len(s) \in 1..Len(t) /\ j = Len(s) + (j - Len(s))
  BY <1>1, <1>4
<1>5. Keyed(u, k) = Keyed(s, k) \cup {Len(s) + i : i \in Keyed(t, k)}
  <2>1. ASSUME NEW j \in Keyed(u, k) PROVE j \in Keyed(s, k) \cup {Len(s) + i : i \in Keyed(t, k)}
    <3>1. CASE j \in 1..Len(s)
      BY <1>2, <2>1, <3>1 DEF Keyed
    <3>2. CASE j \notin 1..Len(s)
      <4>1. j - Len(s) \in 1..Len(t) /\ j = Len(s) + (j - Len(s))
        BY <1>4, <2>1, <3>2 DEF Keyed
      <4>2. t[j - Len(s)].key = k
        BY <1>3, <2>1, <4>1 DEF Keyed
      <4> QED BY <4>1, <4>2 DEF Keyed
    <3> QED BY <3>1, <3>2
  <2>2. Keyed(s, k) \subseteq Keyed(u, k)
    BY <1>2 DEF Keyed
  <2>3. \A i \in Keyed(t, k) : Len(s) + i \in Keyed(u, k)
    BY <1>3 DEF Keyed
  <2> QED BY <2>1, <2>2, <2>3
<1>6. Keyed(t, k) = {} => Keyed(u, k) = Keyed(s, k)
  BY <1>5
<1>7. ASSUME Keyed(s, k) = {}, NEW i, Keyed(t, k) = {i} PROVE Keyed(u, k) = {Len(s) + i}
  BY <1>5, <1>7
<1> QED BY <1>1, <1>6, <1>7 DEF u, Lacks, Once

\* A name that is stored whole is in the list once at most.  Without this a
\* name that the caller has set could be sent twice.
KeyedOnce == \A k \in Short : Lacks(headers, k) \/ Once(headers, k)

LEMMA EmptyKeyed == headers = <<>> => KeyedOnce
<1> 1..0 = {} /\ Len(<<>>) = 0
  OBVIOUS
<1> QED BY DEF KeyedOnce, Lacks, Keyed

LEMMA SetHeaderKeyed ==
  ASSUME RTypeOK, KeyedOnce, NEW k \in Keys, NEW v \in Values, SetHeader(k, v)
  PROVE  KeyedOnce'
<1> Len(headers) \in Nat /\ DOMAIN headers = 1..Len(headers)
  BY HeaderList
<1>1. CASE Match(k) # {}
  <2>1. /\ Len(headers') = Len(headers)
        /\ \A i \in 1..Len(headers) :
             headers'[i] = IF i = First(Match(k)) THEN Header(k, v) ELSE headers[i]
    BY <1>1, ReplaceHeader DEF SetHeader
  <2>2. \A i \in 1..Len(headers) : headers'[i].key = headers[i].key
    BY <1>1, <2>1, MatchFirst DEF Header
  <2>3. \A l : Keyed(headers', l) = Keyed(headers, l)
    BY <2>1, <2>2 DEF Keyed
  <2> QED BY <2>3 DEF KeyedOnce, Lacks, Once, Keyed
<1>2. CASE Match(k) = {} /\ headers' = Append(headers, Header(Stored[k], v))
  <2>1. headers' = headers \o <<Header(Stored[k], v)>>
    BY <1>2, HeaderList
  <2>2. headers \in Seq(Headers) /\ <<Header(Stored[k], v)>> \in Seq(Headers)
    BY HeaderList, RequestAssumption DEF Header, Headers
  <2> SUFFICES ASSUME NEW l \in Short PROVE Lacks(headers', l) \/ Once(headers', l)
    BY DEF KeyedOnce
  <2>3. CASE Stored[k] # l
    <3>1. Lacks(<<Header(Stored[k], v)>>, l)
      BY <2>3, OneLine DEF Header
    <3> QED BY <2>1, <2>2, <3>1, Joined DEF KeyedOnce
  <2>4. CASE Stored[k] = l
    <3>1. Lacks(headers, l)
      BY <1>2, <2>4, HeaderList DEF Short, Match, Lacks, Keyed
    <3>2. Once(<<Header(Stored[k], v)>>, l)
      BY <2>4, OneLine DEF Header
    <3> QED BY <2>1, <2>2, <3>1, <3>2, Joined
  <2> QED BY <2>3, <2>4
<1>3. CASE UNCHANGED headers
  BY <1>3 DEF KeyedOnce, Lacks, Once, Keyed
<1> QED BY <1>1, <1>2, <1>3 DEF SetHeader

LEMMA NextKeyed == RTypeOK /\ KeyedOnce /\ [RNext]_rvars => KeyedOnce'
<1> SUFFICES ASSUME RTypeOK, KeyedOnce, [RNext]_rvars PROVE KeyedOnce'
  OBVIOUS
<1>1. CASE headers' = <<>>
  <2> 1..0 = {} /\ Len(<<>>) = 0
    OBVIOUS
  <2> QED BY <1>1 DEF KeyedOnce, Lacks, Keyed
<1>2. CASE UNCHANGED headers
  BY <1>2 DEF KeyedOnce, Lacks, Once, Keyed
<1> QED BY <1>1, <1>2, SetHeaderKeyed DEF RNext, RequestInit, RequestFree, SetBody, rvars

LEMMA SentTimes ==
  ASSUME NEW S, Lines \in Seq(S), NEW k
  PROVE  /\ Lacks(Lines, k) => Cardinality(Sent(k)) = 0
         /\ Once(Lines, k) => Cardinality(Sent(k)) = 1
<1>0. Sent(k) = Keyed(Lines, k)
  BY LenProperties DEF Sent, Keyed
<1>1. ASSUME NEW i PROVE Cardinality({i}) = 1
  BY FS_Singleton
<1> QED BY <1>0, <1>1, FS_EmptySet DEF Lacks, Once

LEMMA LinesOnce == RTypeOK /\ KeyedOnce => SentOnce
<1> SUFFICES ASSUME RTypeOK, KeyedOnce, NEW k \in Short \ {"Content-Type", "Content-Length"}
             PROVE  Cardinality(Sent(k)) = IF k \in {"Host", "Connection"} \/ Has(k) THEN 1 ELSE 0
  BY DEF SentOnce
<1> DEFINE host == HostLine(UrlParse(url))
           H    == Default("Host", host)
           C    == Default("Connection", "close")
           S    == Headers \cup {Header("Host", host), Header("Connection", "close"),
                                 Header("Content-Type", "type"), Header("Content-Length", "size")}
<1>1. Lines = ((H \o C) \o headers) \o BodyHeaders
  BY DEF Lines
<1> HIDE DEF host
<1>2. H \in Seq(S) /\ C \in Seq(S) /\ BodyHeaders \in Seq(S) /\ headers \in Seq(S)
  <2>1. headers \in Seq(S)
    BY HeaderList, SeqMonotonic DEF Headers
  <2>2. \A e \in S, f \in S : <<e>> \in Seq(S) /\ <<e, f>> \in Seq(S) /\ <<>> \in Seq(S)
    OBVIOUS
  <2> QED BY <2>1, <2>2 DEF Default, BodyHeaders
<1>3. Lacks(<<>>, k) /\ Lacks(BodyHeaders, k)
  <2>1. \A e, f : Len(<<e, f>>) = 2 /\ <<e, f>>[1] = e /\ <<e, f>>[2] = f
    OBVIOUS
  <2>2. 1..2 = {1, 2} /\ 1..0 = {} /\ Len(<<>>) = 0
    OBVIOUS
  <2> QED BY <2>1, <2>2 DEF BodyHeaders, Lacks, Keyed, Header
<1>4. Has(k) => Once(headers, k)
  BY HeaderList DEF Has, KeyedOnce, Lacks, Keyed
<1>5. ~Has(k) => Lacks(headers, k)
  BY HeaderList DEF Has, Lacks, Keyed
<1>6. IF k = "Host" /\ ~Has(k) THEN Once(H, k) ELSE Lacks(H, k)
  BY <1>3, OneLine DEF Default, Header
<1>7. IF k = "Connection" /\ ~Has(k) THEN Once(C, k) ELSE Lacks(C, k)
  BY <1>3, OneLine DEF Default, Header
<1> HIDE DEF H, C, S
<1>8. CASE k \in {"Host", "Connection"} \/ Has(k)
  <2>1. H \o C \in Seq(S) /\ (H \o C) \o headers \in Seq(S) /\ Lines \in Seq(S)
    BY <1>1, <1>2, Joined
  <2>2. IF Has(k) THEN Lacks(H \o C, k) ELSE Once(H \o C, k)
    BY <1>2, <1>6, <1>7, <1>8, Joined
  <2>3. Once((H \o C) \o headers, k)
    BY <1>2, <1>4, <1>5, <2>1, <2>2, Joined
  <2>4. Once(Lines, k)
    BY <1>1, <1>2, <1>3, <2>1, <2>3, Joined
  <2> QED BY <1>8, <2>1, <2>4, SentTimes
<1>9. CASE ~(k \in {"Host", "Connection"} \/ Has(k))
  <2>1. H \o C \in Seq(S) /\ (H \o C) \o headers \in Seq(S) /\ Lines \in Seq(S)
    BY <1>1, <1>2, Joined
  <2>2. Lacks(H \o C, k)
    BY <1>2, <1>6, <1>7, <1>9, Joined
  <2>3. Lacks((H \o C) \o headers, k)
    BY <1>2, <1>5, <1>9, <2>1, <2>2, Joined
  <2>4. Lacks(Lines, k)
    BY <1>1, <1>2, <1>3, <2>1, <2>3, Joined
  <2> QED BY <1>9, <2>1, <2>4, SentTimes
<1> QED BY <1>8, <1>9

\* For any names, values and URLs: Host and Connection are on the wire once, and
\* so is every header that is set, stored whole and not about the body (build).
THEOREM HeadersSentOnce == RSpec => []SentOnce
<1>1. RSpec => [](RTypeOK /\ KeyedOnce)
  BY InitTypes, NextTypes, EmptyKeyed, NextKeyed, PTL DEF RSpec, RInit
<1> QED BY <1>1, LinesOnce, PTL

-----------------------------------------------------------------------------
(* The parser undoes the writing of a URL that fits.                       *)

\* The two ways in which the parser reaches what is behind the scheme.
LEMMA SchemeCut ==
  ASSUME NEW u \in Urls, Fits(u)
  PROVE  /\ Scheme(Flat(u)) = IF u.scheme = <<>> THEN <<"http">> ELSE u.scheme
         /\ Rest(Flat(u)) = Hier(u)
<1>1. CASE u.scheme = <<>>
  BY <1>1, FlatIs DEF Fits, Scheme, Rest, Cut
<1>2. CASE u.scheme # <<>>
  <2>1. Flat(u) = u.scheme \o (Mark \o Hier(u))
    BY <1>2, FlatIs
  <2>2. u.scheme \in Seq(UrlTokens) /\ Hier(u) \in Seq(UrlTokens) /\ Lacking(u.scheme, ":")
    BY UrlParts DEF Separators
  <2>3. /\ SchemeEnds(Flat(u)) # {} /\ Least(SchemeEnds(Flat(u))) = Len(u.scheme) + 1
        /\ SubSeq(Flat(u), 1, Len(u.scheme)) = u.scheme
        /\ SubSeq(Flat(u), Len(u.scheme) + 4, Len(Flat(u))) = Hier(u)
    <3> DEFINE e == ":"
               f == "/"
    <3>1. e \in UrlTokens /\ f \in UrlTokens
      BY Marks
    <3>2. SchemeEnds(Flat(u)) = MarksOf(Flat(u), e, f)
      BY DEF SchemeEnds, MarksOf
    <3>3. Flat(u) = Marked(u.scheme, e, f, Hier(u))
      BY <2>1 DEF Mark, Thrice, Marked
    <3>4. u.scheme \in Seq(UrlTokens) /\ Hier(u) \in Seq(UrlTokens) /\ Lacking(u.scheme, e)
      BY <2>2
    <3> HIDE DEF e, f
    <3>5. /\ MarksOf(Flat(u), e, f) # {} /\ Least(MarksOf(Flat(u), e, f)) = Len(u.scheme) + 1
          /\ SubSeq(Flat(u), 1, Len(u.scheme)) = u.scheme
          /\ SubSeq(Flat(u), Len(u.scheme) + 4, Len(Flat(u))) = Hier(u)
      <4> DEFINE s == u.scheme
                 r == Hier(u)
      <4>1. s \in Seq(UrlTokens) /\ r \in Seq(UrlTokens) /\ Lacking(s, e)
        BY <3>4
      <4>2. Flat(u) = Marked(s, e, f, r)
        BY <3>3
      <4> HIDE DEF s, r
      <4>3. /\ MarksOf(Marked(s, e, f, r), e, f) # {}
            /\ Least(MarksOf(Marked(s, e, f, r), e, f)) = Len(s) + 1
            /\ SubSeq(Marked(s, e, f, r), 1, Len(s)) = s
            /\ SubSeq(Marked(s, e, f, r), Len(s) + 4, Len(Marked(s, e, f, r))) = r
        BY <3>1, <4>1, MarkAt
      <4> QED BY <4>2, <4>3 DEF s, r
    <3> QED BY <3>2, <3>5
  <2>4. (Len(u.scheme) + 1) - 1 = Len(u.scheme) /\ (Len(u.scheme) + 1) + 3 = Len(u.scheme) + 4
    <3>1. Len(u.scheme) \in Nat
      BY <2>2, LenProperties
    <3> QED BY <3>1
  <2>5. Scheme(Flat(u)) = u.scheme
    BY <2>3, <2>4 DEF Fits, Scheme, Cut
  <2>6. Rest(Flat(u)) = Hier(u)
    BY <2>3, <2>4 DEF Rest
  <2> QED BY <1>2, <2>5, <2>6
<1> QED BY <1>1, <1>2

\* Whatever URLs a program writes, the parser finds the parts they were
\* written from.
LEMMA TakenApart ==
  ASSUME NEW u \in Urls, Fits(u)
  PROVE  /\ UrlParse(Flat(u)).host = u.host /\ UrlParse(Flat(u)).scheme = SchemeOf(u)
         /\ UrlParse(Flat(u)).port = IF u.port = "" THEN DefaultPort(SchemeOf(u)) ELSE Uint16(Number(u.port))
         /\ UrlParse(Flat(u)).path = IF u.path = <<>> THEN <<"/">> ELSE u.path
<1> USE UrlParts
<1>1. Scheme(Flat(u)) = SchemeOf(u) /\ Rest(Flat(u)) = Hier(u)
  BY SchemeCut DEF SchemeOf
<1>2. /\ Before(Hier(u), "/") = Authority(u)
      /\ At(Hier(u), "/") = {} <=> u.path = <<>>
      /\ u.path # <<>> => From(Hier(u), "/") = u.path
  <2>1. u.path # <<>> => u.path[1] = "/"
    BY UrlsAssumption
  <2> QED BY <2>1, CutAt DEF Hier
<1>3. HostPort(Flat(u)) = Authority(u)
  BY <1>1, <1>2 DEF HostPort
<1>4. PortPart(u) # <<>> => PortPart(u)[1] = ":"
  BY DEF PortPart
<1>5. /\ Before(Authority(u), ":") = u.host
      /\ At(Authority(u), ":") = {} <=> PortPart(u) = <<>>
      /\ PortPart(u) # <<>> => From(Authority(u), ":") = PortPart(u)
  <2>1. Lacking(u.host, ":")
    BY DEF Separators
  <2> QED BY <1>4, <2>1, CutAt DEF Authority
<1>6. PortPart(u) = <<>> <=> u.port = ""
  BY DEF PortPart
<1>7. u.port # "" => Len(PortPart(u)) = 2 /\ PortPart(u)[2] = u.port
  BY DEF PortPart
<1>8. UrlParse(Flat(u)).host = u.host
  BY <1>3, <1>5 DEF UrlParse, Cut, Fits
<1>9. UrlParse(Flat(u)).scheme = SchemeOf(u)
  BY <1>1 DEF UrlParse
<1>10. UrlParse(Flat(u)).port = IF u.port = "" THEN DefaultPort(SchemeOf(u)) ELSE Uint16(Number(u.port))
  <2>1. CASE u.port = ""
    BY <1>1, <1>3, <1>5, <1>6, <2>1 DEF UrlParse
  <2>2. CASE u.port # ""
    <3>1. At(HostPort(Flat(u)), ":") # {} /\ From(HostPort(Flat(u)), ":") = PortPart(u)
      BY <1>3, <1>5, <1>6, <2>2
    <3>2. PortOf(PortPart(u)) = Uint16(Number(u.port))
      <4>1. 2 # 1
        OBVIOUS
      <4> QED BY <1>7, <2>2, <4>1 DEF PortOf
    <3> QED BY <2>2, <3>1, <3>2 DEF UrlParse
  <2> QED BY <2>1, <2>2
<1>11. UrlParse(Flat(u)).path = IF u.path = <<>> THEN <<"/">> ELSE u.path
  BY <1>1, <1>2 DEF UrlParse
<1> QED BY <1>8, <1>9, <1>10, <1>11

LEMMA Small ==
  ASSUME NEW n \in Int, NEW m \in Int, 0 <= n, n < m
  PROVE  n % m = n
OBVIOUS

LEMMA Narrowed == ASSUME NEW n \in Uint16s PROVE Uint16(n) = n
<1>1. n \in Int /\ 0 <= n /\ n < 65536
  BY DEF Uint16s
<1>2. n % 65536 = n
  BY <1>1, Small
<1> QED BY <1>2 DEF Uint16

LEMMA FlatAlone ==
  ASSUME NEW u \in Urls, PathAlone(u)
  PROVE  Flat(u) = u.path
<1>1. u.path \in Seq(UrlTokens)
  BY UrlParts
<1>2. <<>> \in Seq(UrlTokens)
  BY EmptySeq
<1>3. <<>> \o <<>> = <<>> /\ <<>> \o u.path = u.path
  BY <1>1, <1>2, ConcatEmptySeq
<1> QED BY <1>3 DEF Flat, PathAlone

\* The text of a request is what fits of the URL that init was called with.
Kept == url = Cut(Flat(written), UrlMax)

LEMMA UrlStored == RSpec => [](RTypeOK /\ Kept)
<1>1. RInit => Kept
  BY DEF RInit, Kept
<1>2. Kept /\ [RNext]_rvars => Kept'
  <2> SUFFICES ASSUME Kept, [RNext]_rvars PROVE Kept'
    OBVIOUS
  <2>1. UNCHANGED <<url, written>> \/ \E u \in Urls : RequestInit(u)
    BY DEF RNext, rvars, SetHeader, SetBody, RequestFree
  <2> QED BY <2>1 DEF RequestInit, Kept
<1> QED BY <1>1, <1>2, RequestTypes, PTL DEF RSpec

\* A request goes where its URL says: of any words, any number of them and any
\* parts missing, a URL that fits the buffers is taken apart into the scheme, the
\* host, the port and the path it was written from, and a path alone is the target.
THEOREM UrlsTakenApart == RSpec => []UrlTakenApart
<1>1. RTypeOK /\ Kept => UrlTakenApart
  <2> SUFFICES ASSUME RTypeOK, Kept, Fits(written) PROVE TakenAs(written, url)
    BY DEF UrlTakenApart
  <2>1. url = Flat(written) /\ written \in Urls
    BY DEF Fits, Cut, RTypeOK, Kept
  <2>2. /\ UrlParse(url).host = written.host
        /\ UrlParse(url).scheme = SchemeOf(written)
        /\ UrlParse(url).port = IF written.port = "" THEN DefaultPort(SchemeOf(written))
                                ELSE Uint16(Number(written.port))
        /\ UrlParse(url).path = IF written.path = <<>> THEN <<"/">> ELSE written.path
    BY <2>1, TakenApart
  <2>3. Number(written.port) \in Uint16s => Uint16(Number(written.port)) = Number(written.port)
    BY Narrowed
  <2>4. ASSUME written.host # <<>>
        PROVE  Target(url) = IF written.path = <<>> THEN <<"/">> ELSE written.path
    <3>1. url # <<>>
      <4>1. At(<<>>, "/") = {} /\ At(<<>>, ":") = {}
        BY DEF At
      <4>2. SchemeEnds(<<>>) = {} /\ Len(<<>>) <= HostMax
        BY <4>1, UrlAssumption DEF SchemeEnds
      <4>3. UrlParse(<<>>).host = <<>>
        BY <4>1, <4>2 DEF UrlParse, HostPort, Rest, Before, Cut
      <4> QED BY <2>2, <2>4, <4>3
    <3> QED BY <2>2, <2>4, <3>1 DEF Target
  <2>5. ASSUME PathAlone(written)
        PROVE  Target(url) = IF written.path = <<>> THEN <<"/">> ELSE written.path
    <3>1. url = written.path /\ UrlParse(url).host = <<>>
      BY <2>1, <2>2, <2>5, FlatAlone DEF PathAlone
    <3> QED BY <3>1 DEF Target
  <2>6. written.port = "" => UrlParse(url).port = DefaultPort(SchemeOf(written))
    BY <2>2
  <2>7. written.port # "" => UrlParse(url).port = Uint16(Number(written.port))
    BY <2>2
  <2>8. written.host # <<>> \/ PathAlone(written) =>
          Target(url) = IF written.path = <<>> THEN <<"/">> ELSE written.path
    BY <2>4, <2>5
  <2>9. written.host # <<>> => UrlParse(url).host = written.host /\ UrlParse(url).scheme = SchemeOf(written)
    BY <2>2
  <2>10. written.port # "" /\ Number(written.port) \in Uint16s => UrlParse(url).port = Number(written.port)
    BY <2>3, <2>7
  <2> QED BY <2>6, <2>8, <2>9, <2>10 DEF TakenAs
<1> QED BY <1>1, UrlStored, PTL

=============================================================================
