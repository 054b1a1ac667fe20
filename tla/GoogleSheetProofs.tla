------------------------- MODULE GoogleSheetProofs -------------------------
(***************************************************************************)
(* googleSheet_connect() of main/googleSheet.cpp, for all urls and data    *)
(* and any size of the page buffer: what the server receives, that no path *)
(* leaves a connection open, and where a redirect leads.                   *)
(***************************************************************************)
EXTENDS GoogleSheet, SequenceTheorems, TLAPS

-----------------------------------------------------------------------------
(* The inductive invariant *)

Where == pc \in {"return", "connect", "write", "answer", "read", "headers", "close"}

\* Between calls nothing is left of the last request.
NothingSent == pc \in {"return", "connect"} => written = 0 /\ request = <<>>

\* There is a url to call.
HasUrl == pc \in {"connect", "write"} => url # None

\* While the request is being sent, what was received is the part that was written
\* of the request for the url that the connection was made to.
PartSent ==
    pc = "write" =>
        /\ connectedTo = url
        /\ written \in 0..2
        /\ request = SubSeq(Request(connectedTo, data), 1, written)

\* Once it was sent, it was sent as a whole.
AllSent ==
    pc \in {"answer", "read", "headers"} =>
        request = Request(connectedTo, data) /\ connectedTo # None

IInv == Where /\ OneConnection /\ NothingSent /\ HasUrl /\ PartSent /\ AllSent

LEMMA RequestLength ==
    ASSUME NEW u, NEW d
    PROVE  Request(u, d) \in Seq({"GET", u, d}) /\ Len(Request(u, d)) = 3
  BY DEF Request

\* Nothing, a part behind the first ones, and everything.
LEMMA RequestParts ==
    ASSUME NEW u, NEW d
    PROVE  /\ SubSeq(Request(u, d), 1, 0) = <<>>
           /\ \A w \in 0..2 : \A n \in 1..(3 - w) :
                SubSeq(Request(u, d), 1, w) \o SubSeq(Request(u, d), w + 1, w + n)
                  = SubSeq(Request(u, d), 1, w + n)
           /\ SubSeq(Request(u, d), 1, 3) = Request(u, d)
<1>1. SubSeq(Request(u, d), 1, 0) = <<>>
  BY SubSeqEmpty
<1>2. SubSeq(Request(u, d), 1, 3) = Request(u, d)
  BY RequestLength, SubSeqFull
<1>3. ASSUME NEW w \in 0..2, NEW n \in 1..(3 - w)
      PROVE  SubSeq(Request(u, d), 1, w) \o SubSeq(Request(u, d), w + 1, w + n)
               = SubSeq(Request(u, d), 1, w + n)
  <2>1. 1 \in 1..(Len(Request(u, d)) + 1) /\ w \in (1 - 1)..Len(Request(u, d))
        /\ w + n \in w..Len(Request(u, d))
    <3>1. 1 \in 1..(3 + 1) /\ w \in (1 - 1)..3 /\ w + n \in w..3
      OBVIOUS
    <3> QED
      BY <3>1, RequestLength, Zenon
  <2> QED
    BY <2>1, RequestLength, ConcatAdjacentSubSeq
<1> QED
  BY <1>1, <1>2, <1>3

LEMMA InitIInv == Init => IInv
  BY DEF Init, IInv, Where, OneConnection, NothingSent, HasUrl, PartSent, AllSent

LEMMA NextIInv == IInv /\ [Next]_vars => IInv'
<1> SUFFICES ASSUME IInv, [Next]_vars PROVE IInv'
  OBVIOUS
<1> USE DEF IInv, Where, OneConnection, NothingSent, HasUrl, PartSent, AllSent, Goto, url,
            args, parse, server, history
<1>1. ASSUME NEW d \in Data, Call(d) PROVE IInv'
  BY <1>1, ConstantsOK DEF Call, ConstantsOK
<1>2. CASE Connect
  BY <1>2, RequestParts DEF Connect
<1>3. CASE ConnectFails
  BY <1>3 DEF ConnectFails
<1>4. ASSUME NEW n \in 1..3, Write(n) PROVE IInv'
  <2>1. pc = "write" /\ written \in 0..2 /\ connectedTo = url
    BY <1>4 DEF Write
  <2>2. n \in 1..(3 - written)
    BY <1>4, RequestLength DEF Write
  <2>3. request' = SubSeq(Request(connectedTo, data), 1, written + n)
    BY <1>4, <2>1, <2>2, RequestParts DEF Write
  <2>4. /\ written' = written + n /\ connectedTo' = connectedTo /\ data' = data
        /\ open' = open /\ aliased' = aliased /\ locationBuffer' = locationBuffer
        /\ pc' = IF written + n < 3 THEN pc ELSE "answer"
    BY <1>4, RequestLength DEF Write
  <2>5. CASE written + n < 3
    BY <2>1, <2>2, <2>3, <2>4, <2>5
  <2>6. CASE ~(written + n < 3)
    <3>1. written + n = 3
      BY <2>1, <2>2, <2>6
    <3>2. request' = Request(connectedTo', data')
      BY <2>3, <2>4, <3>1, RequestParts
    <3> QED
      BY <2>1, <2>4, <2>6, <3>2
  <2> QED
    BY <2>5, <2>6
<1>5. CASE WriteFails
  BY <1>5 DEF WriteFails
<1>6. ASSUME NEW n \in 1..Space, Read(n) PROVE IInv'
  BY <1>6 DEF Read
<1>7. CASE StripHeader
  BY <1>7 DEF StripHeader
<1>8. CASE HeadersEnd
  BY <1>8 DEF HeadersEnd
<1>9. CASE ReadEnds
  BY <1>9 DEF ReadEnds
<1>10. CASE Close
  BY <1>10 DEF Close
<1>11. ASSUME NEW h \in Headers, SendHeader(h) PROVE IInv'
  BY <1>11 DEF SendHeader
<1>12. ASSUME NEW body \in Bodies, SendBody(body) PROVE IInv'
  BY <1>12 DEF SendBody
<1>13. CASE UNCHANGED vars
  BY <1>13 DEF vars
<1> QED
  BY <1>1, <1>2, <1>3, <1>4, <1>5, <1>6, <1>7, <1>8, <1>9, <1>10, <1>11, <1>12, <1>13
     DEF Next, Step

LEMMA IInvAlways == Spec => []IInv
  BY InitIInv, NextIInv, PTL DEF Spec

-----------------------------------------------------------------------------
(* The results *)

\* On every path, failures and redirects included, the connection that was opened
\* is deleted before the call returns or is repeated.
THEOREM ConnectionsDeleted == Spec => []OneConnection
<1>1. IInv => OneConnection
  BY DEF IInv
<1> QED
  BY <1>1, IInvAlways, PTL

\* However the request is divided, the server that was connected to receives the
\* request for the url of the call, although the argument may be the buffer that an
\* answer changes.
THEOREM RequestArrivesWhole == Spec => []RequestIntact
<1>1. IInv => RequestIntact
  BY DEF IInv, AllSent, RequestIntact
<1> QED
  BY <1>1, IInvAlways, PTL
-----------------------------------------------------------------------------
(* The layout of an answer *)

Symbols == {"HTTP", "200", "302", Cr, Lf, "Location:", "Date:", "text"} \cup Urls

\* Between p and q a has one complete header.
HeaderLine(a, p, q) ==
    /\ a[p + 1] \in {"Location:", "Date:"}
    /\ a[q - 1] = Cr /\ a[q] = Lf
    /\ \A j \in (p + 1)..(q - 2) : a[j] \notin {Cr, Lf}
    /\ a[p + 1] = "Location:" => q = p + 4

\* The first e symbols of a are a status line and complete headers.
Lines(a, e) ==
    /\ a \in Seq(Symbols) /\ e \in 4..Len(a)
    /\ a[1] = "HTTP" /\ a[2] \in {"200", "302"} /\ a[3] = Cr /\ a[4] = Lf /\ a[e] = Lf
    /\ \A p \in 4..(e - 1) : a[p] = Lf => \E q \in (p + 3)..e : HeaderLine(a, p, q)
    /\ \A i \in 5..e : a[i] = "Location:" => a[i - 1] = Lf

\* And a blank line follows them.
Layout(a, e) == Lines(a, e) /\ e + 2 <= Len(a) /\ a[e + 1] = Cr /\ a[e + 2] = Lf

LEMMA Distinct ==
    /\ Cr # Lf /\ Cr \notin {"HTTP", "200", "302", "Location:", "Date:"}
    /\ Lf \notin {"HTTP", "200", "302", "Location:", "Date:"}
    /\ \A u \in Urls : u \notin {Cr, Lf, "Location:"}
  BY ConstantsOK DEF ConstantsOK, Cr, Lf

LEMMA Joined ==
    ASSUME NEW a \in Seq(Symbols), NEW b \in Seq(Symbols)
    PROVE  /\ a \o b \in Seq(Symbols) /\ Len(a \o b) = Len(a) + Len(b)
           /\ Len(a) \in Nat /\ Len(b) \in Nat
           /\ \A i \in 1..Len(a) : (a \o b)[i] = a[i]
           /\ \A i \in 1..Len(b) : (a \o b)[Len(a) + i] = b[i]
  OBVIOUS

\* What follows does not matter.
LEMMA LinesPrefix ==
    ASSUME NEW a, NEW e, NEW b \in Seq(Symbols), Lines(a, e)
    PROVE  Lines(a \o b, e)
<1> DEFINE c == a \o b
<1>1. /\ a \in Seq(Symbols) /\ e \in 4..Len(a)
      /\ a[1] = "HTTP" /\ a[2] \in {"200", "302"} /\ a[3] = Cr /\ a[4] = Lf /\ a[e] = Lf
      /\ \A p \in 4..(e - 1) : a[p] = Lf => \E q \in (p + 3)..e : HeaderLine(a, p, q)
      /\ \A i \in 5..e : a[i] = "Location:" => a[i - 1] = Lf
  BY DEF Lines
<1>2. c \in Seq(Symbols) /\ Len(c) \in Nat /\ Len(a) \in Nat /\ Len(a) <= Len(c)
  BY <1>1, Joined
<1>3. \A i \in 1..Len(a) : c[i] = a[i]
  BY <1>1, Joined
<1> HIDE DEF c
<1>4. e \in 4..Len(c) /\ e \in Nat /\ 4 <= e /\ e <= Len(a)
  BY <1>1, <1>2
<1>5. c[1] = "HTTP" /\ c[2] \in {"200", "302"} /\ c[3] = Cr /\ c[4] = Lf /\ c[e] = Lf
  <2>1. {1, 2, 3, 4, e} \subseteq 1..Len(a)
    BY <1>2, <1>4
  <2>2. c[1] = a[1] /\ c[2] = a[2] /\ c[3] = a[3] /\ c[4] = a[4] /\ c[e] = a[e]
    BY <1>3, <2>1, Zenon
  <2> QED
    BY <1>1, <2>2, Zenon
<1>6. ASSUME NEW p \in 4..(e - 1), c[p] = Lf PROVE \E q \in (p + 3)..e : HeaderLine(c, p, q)
  <2>1. a[p] = Lf
    BY <1>2, <1>3, <1>4, <1>6
  <2>2. PICK q \in (p + 3)..e : HeaderLine(a, p, q)
    BY <1>1, <2>1
  <2>3. HeaderLine(c, p, q)
    <3>1. c[p + 1] = a[p + 1] /\ c[q - 1] = a[q - 1] /\ c[q] = a[q]
      BY <1>2, <1>3, <1>4
    <3>2. \A j \in (p + 1)..(q - 2) : c[j] = a[j]
      BY <1>2, <1>3, <1>4
    <3> QED
      BY <2>2, <3>1, <3>2, Zenon DEF HeaderLine
  <2> QED
    BY <2>3
<1>7. ASSUME NEW i \in 5..e, c[i] = "Location:" PROVE c[i - 1] = Lf
  <2>1. c[i] = a[i] /\ c[i - 1] = a[i - 1]
    BY <1>2, <1>3, <1>4
  <2> QED
    BY <1>1, <1>7, <2>1
<1>8. Lines(c, e)
  BY <1>2, <1>4, <1>5, <1>6, <1>7 DEF Lines
<1> QED
  BY <1>8 DEF c

\* The forms of a header.
LEMMA HeaderForms ==
    ASSUME NEW h \in Headers
    PROVE  /\ h \in Seq(Symbols)
           /\ \/ Len(h) = 3 /\ h[1] = "Date:" /\ h[2] = Cr /\ h[3] = Lf
              \/ Len(h) = 4 /\ h[1] = "Location:" /\ h[2] \in Urls /\ h[3] = Cr /\ h[4] = Lf
<1>1. CASE h = <<"Date:">> \o Eol
  <2>1. <<"Date:">> \in Seq(Symbols) /\ Eol \in Seq(Symbols) /\ Eol[1] = Cr /\ Eol[2] = Lf
        /\ Len(Eol) = 2
    BY DEF Symbols, Eol
  <2>2. Len(<<"Date:">>) = 1 /\ <<"Date:">>[1] = "Date:"
    OBVIOUS
  <2> QED
    BY <1>1, <2>1, <2>2, Joined
<1>2. ASSUME NEW u \in Urls, h = Location(u) PROVE
           /\ h \in Seq(Symbols)
           /\ Len(h) = 4 /\ h[1] = "Location:" /\ h[2] \in Urls /\ h[3] = Cr /\ h[4] = Lf
  <2>1. <<"Location:", u>> \in Seq(Symbols) /\ Eol \in Seq(Symbols) /\ Eol[1] = Cr /\ Eol[2] = Lf
        /\ Len(Eol) = 2
    BY DEF Symbols, Eol
  <2>2. Len(<<"Location:", u>>) = 2 /\ <<"Location:", u>>[1] = "Location:"
        /\ <<"Location:", u>>[2] = u
    OBVIOUS
  <2> DEFINE a == <<"Location:", u>>
  <2>3. /\ a \o Eol \in Seq(Symbols) /\ Len(a \o Eol) = Len(a) + Len(Eol)
        /\ \A i \in 1..Len(a) : (a \o Eol)[i] = a[i]
        /\ \A i \in 1..Len(Eol) : (a \o Eol)[Len(a) + i] = Eol[i]
    BY <2>1, Joined, Zenon
  <2>4. Len(a) = 2 /\ a[1] = "Location:" /\ a[2] = u
    BY <2>2
  <2>5. h = a \o Eol
    BY <1>2 DEF Location
  <2> HIDE DEF a
  <2>6. h[1] = a[1] /\ h[2] = a[2] /\ h[3] = Eol[1] /\ h[4] = Eol[2] /\ Len(h) = 4
    <3>1. h[2 + 1] = Eol[1] /\ h[2 + 2] = Eol[2]
      BY <2>1, <2>3, <2>4, <2>5
    <3> QED
      BY <2>1, <2>3, <2>4, <2>5, <3>1
  <2> QED
    BY <2>1, <2>3, <2>4, <2>5, <2>6, Zenon
<1> QED
  BY <1>1, <1>2 DEF Headers

\* A header behind complete lines is another one.
LEMMA AppendHeader ==
    ASSUME NEW a, NEW h \in Headers, Lines(a, Len(a))
    PROVE  Lines(a \o h, Len(a \o h))
<1> DEFINE c == a \o h
           n == Len(a)
           e == Len(c)
<1>1. a \in Seq(Symbols) /\ h \in Seq(Symbols) /\ n \in Nat /\ 4 <= n /\ a[n] = Lf
  BY HeaderForms DEF Lines
<1>2. /\ c \in Seq(Symbols) /\ e = n + Len(h) /\ Len(h) \in Nat
      /\ \A i \in 1..n : c[i] = a[i]
      /\ \A i \in 1..Len(h) : c[n + i] = h[i]
  BY <1>1, Joined, Zenon
<1>3. Lines(c, n)
  BY <1>1, LinesPrefix
<1> HIDE DEF c, n, e
<1>4. ASSUME NEW m \in {3, 4}, Len(h) = m, h[1] \in {"Location:", "Date:"},
             h[1] = "Location:" => m = 4,
             h[m - 1] = Cr, h[m] = Lf,
             \A j \in 2..(m - 2) : h[j] \in Urls
      PROVE  Lines(c, e)
  <2>1. e = n + m /\ e \in Nat /\ e \in 4..Len(c) /\ n < e
    BY <1>1, <1>2, <1>4 DEF e
  <2>2. /\ c[n + 1] = h[1] /\ c[e - 1] = Cr /\ c[e] = Lf
    <3>1. c[n + 1] = h[1] /\ c[n + (m - 1)] = h[m - 1] /\ c[n + m] = h[m]
      BY <1>2, <1>4
    <3>2. n + (m - 1) = e - 1
      BY <1>1, <2>1
    <3> QED
      BY <1>4, <2>1, <3>1, <3>2, Zenon
  <2>3. \A j \in (n + 2)..(e - 2) : c[j] \in Urls
    <3> SUFFICES ASSUME NEW j \in (n + 2)..(e - 2) PROVE c[j] \in Urls
      OBVIOUS
    <3>1. PICK k \in 2..(m - 2) : j = n + k
      <4>1. j - n \in 2..(m - 2) /\ j = n + (j - n)
        BY <1>1, <2>1
      <4> QED
        BY <4>1
    <3>2. k \in 1..Len(h)
      BY <1>4
    <3> QED
      BY <1>2, <1>4, <3>1, <3>2, Zenon
  <2>4. HeaderLine(c, n, e)
    <3>1. \A j \in (n + 1)..(e - 2) : c[j] \notin {Cr, Lf}
      <4> SUFFICES ASSUME NEW j \in (n + 1)..(e - 2) PROVE c[j] \notin {Cr, Lf}
        OBVIOUS
      <4>1. j = n + 1 \/ j \in (n + 2)..(e - 2)
        BY <1>1, <2>1
      <4> QED
        BY <1>4, <2>2, <2>3, <4>1, Distinct, Zenon
    <3>2. c[n + 1] = "Location:" => e = n + 4
      BY <1>4, <2>1, <2>2
    <3> QED
      BY <1>4, <2>2, <3>1, <3>2, Zenon DEF HeaderLine
  <2>5. /\ c[1] = "HTTP" /\ c[2] \in {"200", "302"} /\ c[3] = Cr /\ c[4] = Lf /\ c[n] = Lf
        /\ \A p \in 4..(n - 1) : c[p] = Lf => \E q \in (p + 3)..n : HeaderLine(c, p, q)
        /\ \A i \in 5..n : c[i] = "Location:" => c[i - 1] = Lf
    BY <1>3, Zenon DEF Lines
  <2>6. ASSUME NEW p \in 4..(e - 1), c[p] = Lf PROVE \E q \in (p + 3)..e : HeaderLine(c, p, q)
    <3>1. CASE p < n
      <4>1. PICK q \in (p + 3)..n : HeaderLine(c, p, q)
        BY <1>1, <2>5, <2>6, <3>1
      <4>2. q \in (p + 3)..e
        BY <1>1, <2>1
      <4> QED
        BY <4>1, <4>2
    <3>2. CASE p = n
      <4>1. e \in (p + 3)..e
        BY <1>1, <2>1, <3>2
      <4> QED
        BY <2>4, <3>2, <4>1
    <3>3. CASE p > n
      <4>1. p \in (n + 1)..(e - 2) \/ p = e - 1
        BY <1>1, <2>1, <3>3
      <4>2. p # e - 1
        BY <2>2, <2>6, Distinct, Zenon
      <4> QED
        BY <2>4, <2>6, <4>1, <4>2, Zenon DEF HeaderLine
    <3> QED
      BY <1>1, <3>1, <3>2, <3>3
  <2>7. ASSUME NEW i \in 5..e, c[i] = "Location:" PROVE c[i - 1] = Lf
    <3>1. CASE i <= n
      BY <1>1, <2>5, <2>7, <3>1
    <3>2. CASE i = n + 1
      <4>1. i - 1 = n
        BY <1>1, <3>2
      <4> QED
        BY <2>5, <4>1, Zenon
    <3>3. CASE i > n + 1
      <4>1. i \in (n + 2)..(e - 2) \/ i = e - 1 \/ i = e
        BY <1>1, <2>1, <3>3
      <4> QED
        BY <2>2, <2>3, <2>7, <4>1, Distinct, Zenon
    <3> QED
      BY <1>1, <3>1, <3>2, <3>3
  <2> QED
    BY <1>2, <2>1, <2>2, <2>5, <2>6, <2>7, Zenon DEF Lines
<1>5. ASSUME Len(h) = 3 /\ h[1] = "Date:" /\ h[2] = Cr /\ h[3] = Lf PROVE Lines(c, e)
  <2>1. h[3 - 1] = Cr /\ \A j \in 2..(3 - 2) : FALSE
    BY <1>5
  <2> QED
    BY <1>4, <1>5, <2>1
<1>6. ASSUME Len(h) = 4 /\ h[1] = "Location:" /\ h[2] \in Urls /\ h[3] = Cr /\ h[4] = Lf
      PROVE  Lines(c, e)
  <2>1. h[4 - 1] = Cr /\ \A j \in 2..(4 - 2) : h[j] \in Urls
    BY <1>6
  <2> QED
    BY <1>4, <1>6, <2>1
<1>7. (Len(h) = 3 /\ h[1] = "Date:" /\ h[2] = Cr /\ h[3] = Lf)
      \/ (Len(h) = 4 /\ h[1] = "Location:" /\ h[2] \in Urls /\ h[3] = Cr /\ h[4] = Lf)
  BY HeaderForms, Zenon
<1>8. Lines(c, e)
  BY <1>5, <1>6, <1>7
<1> QED
  BY <1>8 DEF c, e

LEMMA StatusLineIsLine ==
    ASSUME NEW code \in {"200", "302"}
    PROVE  Lines(StatusLine(code), Len(StatusLine(code)))
<1> DEFINE a == <<"HTTP", code>>
           c == a \o Eol
<1>1. a \in Seq(Symbols) /\ Len(a) = 2 /\ a[1] = "HTTP" /\ a[2] = code
  BY DEF Symbols
<1>2. Eol \in Seq(Symbols) /\ Len(Eol) = 2 /\ Eol[1] = Cr /\ Eol[2] = Lf
  BY DEF Symbols, Eol
<1>3. /\ c \in Seq(Symbols) /\ Len(c) = Len(a) + Len(Eol)
      /\ \A i \in 1..Len(a) : c[i] = a[i]
      /\ \A i \in 1..Len(Eol) : c[Len(a) + i] = Eol[i]
  BY <1>1, <1>2, Joined, Zenon
<1> HIDE DEF a, c
<1>4. Len(c) = 4 /\ c[1] = "HTTP" /\ c[2] = code /\ c[3] = Cr /\ c[4] = Lf
  <2>1. c[2 + 1] = Eol[1] /\ c[2 + 2] = Eol[2]
    BY <1>1, <1>2, <1>3
  <2> QED
    BY <1>1, <1>2, <1>3, <2>1
<1>5. 4 \in 4..4 /\ (\A p \in 4..(4 - 1) : FALSE) /\ (\A i \in 5..4 : FALSE)
  OBVIOUS
<1>6. Lines(c, Len(c))
  BY <1>3, <1>4, <1>5, Zenon DEF Lines
<1> QED
  BY <1>6 DEF a, c, StatusLine

\* A complete answer.
Complete(a) == \E e \in Nat : Layout(a, e)

LEMMA AnswerLayout ==
    ASSUME NEW a, NEW body \in Bodies, Lines(a, Len(a))
    PROVE  Complete(a \o Eol \o body)
<1>1. body \in Seq(Symbols)
  <2>1. CASE body = <<>>
    BY <2>1
  <2>2. CASE body = [i \in 1..Space |-> "text"]
    <3>1. Space \in Nat /\ "text" \in Symbols
      BY ConstantsOK DEF ConstantsOK, Symbols
    <3>2. [i \in 1..Space |-> "text"] \in Seq(Symbols)
      BY <3>1
    <3> QED
      BY <2>2, <3>2
  <2>3. CASE body \in {Location(u) : u \in Urls}
    BY <2>3, HeaderForms, Zenon DEF Headers
  <2> QED
    BY <2>1, <2>2, <2>3 DEF Bodies
<1> DEFINE head == a \o Eol
           all == head \o body
<1>2. Eol \in Seq(Symbols) /\ Len(Eol) = 2 /\ Eol[1] = Cr /\ Eol[2] = Lf
  BY DEF Symbols, Eol
<1>3. a \in Seq(Symbols) /\ Len(a) \in Nat
  BY DEF Lines
<1>4. /\ head \in Seq(Symbols) /\ Len(head) = Len(a) + Len(Eol)
      /\ \A i \in 1..Len(Eol) : head[Len(a) + i] = Eol[i]
  BY <1>2, <1>3, Joined, Zenon
<1>5. Lines(head, Len(a))
  BY <1>2, LinesPrefix, Zenon
<1> HIDE DEF head
<1>6. Lines(all, Len(a))
  BY <1>1, <1>5, LinesPrefix, Zenon
<1>7. /\ Len(all) = Len(head) + Len(body) /\ Len(body) \in Nat
      /\ \A i \in 1..Len(head) : all[i] = head[i]
  BY <1>1, <1>4, Joined, Zenon
<1>8. Len(a) + 2 <= Len(all) /\ Len(a) + 1 \in 1..Len(head) /\ Len(a) + 2 \in 1..Len(head)
      /\ 1 \in 1..Len(Eol) /\ 2 \in 1..Len(Eol)
  BY <1>2, <1>3, <1>4, <1>7
<1>9. all[Len(a) + 1] = Cr /\ all[Len(a) + 2] = Lf
  BY <1>2, <1>4, <1>7, <1>8, Zenon
<1>10. Complete(all)
  BY <1>3, <1>6, <1>8, <1>9, Zenon DEF Layout, Complete
<1> QED
  BY <1>10 DEF head, all

-----------------------------------------------------------------------------
(* Reading it *)

\* s is a from behind position p up to position g.
PartOf(s, a, p, g) ==
    s \in Seq(Symbols) /\ Len(s) = g - p /\ \A k \in 1..(g - p) : s[k] = a[p + k]

\* The page buffer holds what was read behind position p.
PageFrom(p) == PartOf(pageBuffer, answer, p, got)

\* The location as the headers up to position p leave it.
LocationsUpTo(p) == {i \in 1..p : answer[i] = "Location:"}
LocationAt(p) ==
    IF LocationsUpTo(p) = {} THEN before ELSE answer[Max(LocationsUpTo(p)) + 1]

NoMoreHeaders == ~HasColon(pageBuffer) \/ LineEnds(pageBuffer) = {}

\* Headers are taken off one by one: the page buffer begins with a line, and the
\* location is that of the lines before it.  The loop over them ends at a line that
\* is not complete or at the blank line.
HeadersRead(e) ==
    \E p \in 4..e :
        /\ answer[p] = Lf /\ p <= got
        /\ PageFrom(p)
        /\ locationBuffer = LocationAt(p)
        /\ pc \in {"read", "close"} => NoMoreHeaders

AllHeadersRead(e) == e + 2 <= got /\ locationBuffer = LocationAt(e)

Parsed ==
    \E e \in 4..Len(answer) :
        /\ Layout(answer, e)
        /\ IF doneHeaders THEN AllHeadersRead(e) ELSE HeadersRead(e)

\* Before the first piece there is nothing to parse.
NothingRead ==
    /\ pc \in {"return", "connect", "write"} => statusCode = None /\ ~doneHeaders /\ firstPiece = 0
    /\ pc = "write" => before = locationBuffer
    /\ pc = "answer" \/ (pc = "read" /\ statusCode = None) =>
          /\ statusCode = None
          /\ got = 0 /\ pageBuffer = <<>> /\ before = locationBuffer
          /\ ~doneHeaders /\ firstPiece = 0
    /\ pc = "headers" => statusCode # None

PTypes ==
    /\ firstPiece \in Nat /\ doneHeaders \in BOOLEAN
    /\ pc = "answer" => Lines(answer, Len(answer))
    /\ pc \in {"read", "headers", "close"} => Complete(answer) /\ got \in 0..Len(answer)

PInv ==
    /\ PTypes /\ NothingRead
    /\ pc \in {"read", "headers", "close"} /\ firstPiece >= 4 => Parsed

LEMMA MinIs ==
    ASSUME NEW T \in SUBSET Int, NEW x \in T, \A y \in T : x <= y
    PROVE  Min(T) = x
<1>1. Min(T) \in T /\ \A y \in T : Min(T) <= y
  BY Zenon DEF Min
<1>2. Min(T) <= x /\ x <= Min(T)
  BY <1>1, Zenon
<1>3. PICK m \in Int : m = Min(T)
  BY <1>1, Zenon
<1>4. x \in Int
  BY Zenon
<1> QED
  BY <1>2, <1>3, <1>4

LEMMA MaxIs ==
    ASSUME NEW T \in SUBSET Int, NEW x \in T, \A y \in T : x >= y
    PROVE  Max(T) = x
<1>1. Max(T) \in T /\ \A y \in T : Max(T) >= y
  BY Zenon DEF Max
<1>2. Max(T) >= x /\ x >= Max(T)
  BY <1>1, Zenon
<1>3. PICK m \in Int : m = Max(T)
  BY <1>1, Zenon
<1>4. x \in Int
  BY Zenon
<1> QED
  BY <1>2, <1>3, <1>4

\* No blank line among the headers.
LEMMA NoBlankBefore ==
    ASSUME NEW a, NEW e, Lines(a, e), NEW j \in 3..e, a[j - 1] = Lf
    PROVE  a[j] # Cr
<1>1. e \in Nat /\ 4 <= e /\ a[2] \in {"200", "302"} /\ a[3] = Cr
  BY DEF Lines
<1>2. j # 3 /\ j # 4
  BY <1>1, Distinct
<1>3. j - 1 \in 4..(e - 1)
  BY <1>1, <1>2
<1>4. PICK q \in (j - 1 + 3)..e : HeaderLine(a, j - 1, q)
  BY <1>3, Zenon DEF Lines
<1>5. (j - 1) + 1 = j
  OBVIOUS
<1>6. a[j] \in {"Location:", "Date:"}
  BY <1>4, <1>5, Zenon DEF HeaderLine
<1> QED
  BY <1>6, Distinct, Zenon

\* A Location among the headers begins a complete line.
LEMMA LocationLine ==
    ASSUME NEW a, NEW e, Lines(a, e), NEW i \in 1..e, a[i] = "Location:"
    PROVE  a[i - 1] = Lf /\ i - 1 \in 4..(e - 1) /\ HeaderLine(a, i - 1, i + 3) /\ i + 3 <= e
<1>1. /\ e \in Nat /\ 4 <= e /\ a[1] = "HTTP" /\ a[2] \in {"200", "302"} /\ a[3] = Cr /\ a[4] = Lf
  BY DEF Lines
<1>2. i \in 5..e
  <2>1. i # 1 /\ i # 2 /\ i # 3 /\ i # 4
    BY <1>1, Distinct
  <2> QED
    BY <1>1, <2>1
<1>3. a[i - 1] = Lf
  BY <1>2 DEF Lines
<1>4. i - 1 \in 4..(e - 1)
  BY <1>1, <1>2
<1>5. PICK q \in (i - 1 + 3)..e : HeaderLine(a, i - 1, q)
  BY <1>3, <1>4, Zenon DEF Lines
<1>6. (i - 1) + 1 = i
  OBVIOUS
<1>7. q = (i - 1) + 4
  BY <1>5, <1>6, Zenon DEF HeaderLine
<1>8. q = i + 3
  BY <1>7
<1> QED
  BY <1>1, <1>3, <1>4, <1>5, <1>8

\* Line ends of the page buffer are line ends of the answer.
LEMMA PageEnds ==
    ASSUME NEW p \in Nat, got \in Nat, p <= got, PageFrom(p), NEW k \in Int
    PROVE  k \in LineEnds(pageBuffer)
             <=> k \in 1..(got - p - 1) /\ answer[p + k] = Cr /\ answer[p + k + 1] = Lf
<1>1. Len(pageBuffer) = got - p /\ \A m \in 1..(got - p) : pageBuffer[m] = answer[p + m]
  BY DEF PageFrom, PartOf
<1>2. LineEnds(pageBuffer) = {m \in 1..(got - p) : pageBuffer[m] = Cr /\ m < got - p
                                                     /\ pageBuffer[m + 1] = Lf}
  BY <1>1 DEF LineEnds, At
<1>3. CASE k \in 1..(got - p - 1)
  <2>1. k \in 1..(got - p) /\ k + 1 \in 1..(got - p) /\ k < got - p /\ p + (k + 1) = p + k + 1
    BY <1>3
  <2>2. pageBuffer[k] = answer[p + k] /\ pageBuffer[k + 1] = answer[p + (k + 1)]
    BY <1>1, <2>1
  <2> QED
    BY <1>2, <1>3, <2>1, <2>2, Zenon
<1>4. CASE k \notin 1..(got - p - 1)
  <2>1. ~(k \in 1..(got - p) /\ k < got - p)
    BY <1>4
  <2> QED
    BY <1>2, <1>4, <2>1, Zenon
<1> QED
  BY <1>3, <1>4

\* The first line end of a page buffer that begins with a header ends that header.
LEMMA FirstLineEnd ==
    ASSUME NEW e \in Nat, Layout(answer, e), NEW p \in 4..(e - 1), answer[p] = Lf,
           got \in Nat, p <= got, PageFrom(p), LineEnds(pageBuffer) # {}
    PROVE  \E q \in (p + 3)..e :
              /\ HeaderLine(answer, p, q) /\ q <= got
              /\ Min(LineEnds(pageBuffer)) = q - 1 - p
              /\ 1 \notin LineEnds(pageBuffer)
<1>1. PICK q \in (p + 3)..e : HeaderLine(answer, p, q)
  BY Zenon DEF Layout, Lines
<1>2. /\ answer[p + 1] \in {"Location:", "Date:"} /\ answer[q - 1] = Cr /\ answer[q] = Lf
      /\ \A j \in (p + 1)..(q - 2) : answer[j] \notin {Cr, Lf}
  BY <1>1, Zenon DEF HeaderLine
<1>3. LineEnds(pageBuffer) \subseteq Int
  BY DEF PageFrom, PartOf, LineEnds, At
<1>4. ASSUME NEW k \in LineEnds(pageBuffer) PROVE q - 1 - p <= k /\ q <= got
  <2>1. k \in 1..(got - p - 1) /\ answer[p + k] = Cr
    BY <1>3, <1>4, PageEnds
  <2>2. p + k \notin (p + 1)..(q - 2)
    BY <1>2, <2>1, Zenon
  <2> QED
    BY <2>1, <2>2
<1>5. q <= got
  BY <1>4
<1>6. q - 1 - p \in LineEnds(pageBuffer)
  <2>1. q - 1 - p \in Int /\ q - 1 - p \in 1..(got - p - 1)
    BY <1>5
  <2>2. p + (q - 1 - p) = q - 1 /\ p + (q - 1 - p) + 1 = q
    OBVIOUS
  <2> QED
    BY <1>2, <2>1, <2>2, PageEnds
<1>7. Min(LineEnds(pageBuffer)) = q - 1 - p
  BY <1>3, <1>4, <1>6, MinIs
<1>8. 1 \notin LineEnds(pageBuffer)
  <2>1. answer[p + 1] # Cr
    BY <1>2, Distinct, Zenon
  <2> QED
    BY <2>1, PageEnds
<1> QED
  BY <1>1, <1>5, <1>7, <1>8

\* A page buffer that begins with the blank line and has a line end has the blank line.
LEMMA BlankLineEnd ==
    ASSUME NEW e \in Nat, Layout(answer, e), got \in Nat, e <= got, PageFrom(e),
           LineEnds(pageBuffer) # {}
    PROVE  e + 2 <= got /\ pageBuffer[1] = Cr /\ 1 \in LineEnds(pageBuffer)
<1>1. LineEnds(pageBuffer) \subseteq Int
  BY DEF PageFrom, PartOf, LineEnds, At
<1>2. PICK k \in LineEnds(pageBuffer) : k \in 1..(got - e - 1)
  BY <1>1, PageEnds
<1>3. e + 2 <= got /\ 1 \in 1..(got - e - 1) /\ 1 \in 1..(got - e)
  BY <1>2
<1>4. answer[e + 1] = Cr /\ answer[e + 2] = Lf /\ e + 1 + 1 = e + 2
  BY DEF Layout
<1>5. 1 \in LineEnds(pageBuffer)
  BY <1>3, <1>4, PageEnds
<1> QED
  BY <1>3, <1>4, <1>5 DEF PageFrom, PartOf

\* What complete headers do to the location.
LEMMA NextLocation ==
    ASSUME NEW e \in Nat, Layout(answer, e), NEW p \in 4..(e - 1), answer[p] = Lf,
           NEW q \in (p + 3)..e, HeaderLine(answer, p, q)
    PROVE  LocationAt(q) = IF answer[p + 1] = "Location:" THEN answer[p + 2] ELSE LocationAt(p)
<1>1. /\ answer[q - 1] = Cr /\ answer[q] = Lf
      /\ \A j \in (p + 1)..(q - 2) : answer[j] \notin {Cr, Lf}
      /\ \A i \in 5..e : answer[i] = "Location:" => answer[i - 1] = Lf
  BY Zenon DEF HeaderLine, Layout, Lines
<1>2. ASSUME NEW i \in (p + 2)..q PROVE answer[i] # "Location:"
  <2>1. CASE i \in (p + 2)..(q - 2)
    <3>1. i - 1 \in (p + 1)..(q - 2) /\ i \in 5..e
      BY <2>1
    <3> QED
      BY <1>1, <3>1, Zenon
  <2>2. CASE i = q - 1 \/ i = q
    BY <1>1, <2>2, Distinct
  <2> QED
    BY <2>1, <2>2
<1>3. CASE answer[p + 1] = "Location:"
  <2>1. p + 1 \in LocationsUpTo(q) /\ LocationsUpTo(q) \in SUBSET Int
    BY <1>3 DEF LocationsUpTo
  <2>2. \A y \in LocationsUpTo(q) : p + 1 >= y
    <3> SUFFICES ASSUME NEW y \in 1..q, answer[y] = "Location:" PROVE p + 1 >= y
      BY DEF LocationsUpTo
    <3>1. y \notin (p + 2)..q
      BY <1>2
    <3> QED
      BY <3>1
  <2>3. Max(LocationsUpTo(q)) = p + 1
    BY <2>1, <2>2, MaxIs
  <2>4. LocationAt(q) = answer[p + 1 + 1]
    BY <2>1, <2>3, Zenon DEF LocationAt
  <2>5. p + 1 + 1 = p + 2
    OBVIOUS
  <2> QED
    BY <1>3, <2>4, <2>5, Zenon
<1>4. CASE answer[p + 1] # "Location:"
  <2>1. ASSUME NEW y \in 1..q, answer[y] = "Location:" PROVE y \in 1..p
    <3>1. y \notin (p + 2)..q /\ y # p + 1
      BY <1>2, <1>4, <2>1
    <3> QED
      BY <3>1
  <2>2. 1..p \subseteq 1..q
    OBVIOUS
  <2>3. LocationsUpTo(q) = LocationsUpTo(p)
    BY <2>1, <2>2, Zenon DEF LocationsUpTo
  <2> QED
    BY <1>4, <2>3, Zenon DEF LocationAt
<1> QED
  BY <1>3, <1>4

\* Lines are taken off a part of the answer.
LEMMA PartWithout ==
    ASSUME NEW s, NEW a, NEW p \in Nat, NEW g \in Nat, NEW r \in Nat, p <= r, r <= g,
           PartOf(s, a, p, g)
    PROVE  PartOf(From(s, r - p + 1), a, r, g)
<1>1. s \in Seq(Symbols) /\ Len(s) = g - p /\ \A k \in 1..(g - p) : s[k] = a[p + k]
  BY DEF PartOf
<1> DEFINE t == SubSeq(s, r - p + 1, g - p)
<1>2. t \in Seq(Symbols)
  BY <1>1
<1>3. Len(t) = g - r
  BY <1>1
<1>4. ASSUME NEW k \in 1..(g - r) PROVE t[k] = a[r + k]
  <2>1. t[k] = s[k + (r - p)]
    BY <1>1
  <2>2. k + (r - p) \in 1..(g - p) /\ p + (k + (r - p)) = r + k
    OBVIOUS
  <2>3. s[k + (r - p)] = a[p + (k + (r - p))]
    BY <1>1, <2>2, Zenon
  <2> QED
    BY <2>1, <2>2, <2>3
<1>5. From(s, r - p + 1) = t
  BY <1>1, Zenon DEF From
<1> QED
  BY <1>2, <1>3, <1>4, <1>5 DEF PartOf

\* A piece of the answer is added to a part of it.
LEMMA PartWith ==
    ASSUME NEW s, NEW a \in Seq(Symbols), NEW p \in Nat, NEW g \in Nat, NEW n \in Nat, p <= g,
           g + n <= Len(a), 1 <= n, PartOf(s, a, p, g)
    PROVE  PartOf(s \o SubSeq(a, g + 1, g + n), a, p, g + n)
<1>1. s \in Seq(Symbols) /\ Len(s) = g - p /\ \A k \in 1..(g - p) : s[k] = a[p + k]
  BY DEF PartOf
<1> DEFINE b == SubSeq(a, g + 1, g + n)
           t == s \o b
<1>2. b \in Seq(Symbols) /\ Len(b) = n /\ \A k \in 1..n : b[k] = a[g + k]
  <2>1. g + 1 \in Nat /\ g + n \in Nat /\ Len(a) \in Nat
    OBVIOUS
  <2>2. b \in Seq(Symbols)
    BY <2>1
  <2>3. Len(b) = n
    BY <2>1
  <2>4. \A k \in 1..n : b[k] = a[g + k]
    BY <2>1
  <2> QED
    BY <2>2, <2>3, <2>4
<1> HIDE DEF b
<1>3. /\ t \in Seq(Symbols) /\ Len(t) = (g - p) + n
      /\ \A i \in 1..(g - p) : t[i] = s[i]
      /\ \A i \in 1..n : t[(g - p) + i] = b[i]
  <2>1. /\ t \in Seq(Symbols) /\ Len(t) = Len(s) + Len(b)
        /\ \A i \in 1..Len(s) : t[i] = s[i]
        /\ \A i \in 1..Len(b) : t[Len(s) + i] = b[i]
    BY <1>1, <1>2, Joined, Zenon
  <2> HIDE DEF t
  <2> QED
    BY <1>1, <1>2, <2>1, Zenon
<1> HIDE DEF t
<1>4. ASSUME NEW k \in 1..(g + n - p) PROVE t[k] = a[p + k]
  <2>1. CASE k \in 1..(g - p)
    BY <1>1, <1>3, <2>1, Zenon
  <2>2. CASE k \notin 1..(g - p)
    <3>1. PICK i \in 1..n : k = (g - p) + i
      <4>1. k - (g - p) \in 1..n /\ k = (g - p) + (k - (g - p))
        BY <2>2
      <4> QED
        BY <4>1
    <3>2. g + i = p + k
      BY <3>1
    <3> QED
      BY <1>2, <1>3, <3>1, <3>2, Zenon
  <2> QED
    BY <2>1, <2>2
<1>5. Len(t) = g + n - p
  BY <1>3
<1>6. PartOf(t, a, p, g + n)
  BY <1>3, <1>4, <1>5 DEF PartOf
<1> QED
  BY <1>6 DEF t, b

-----------------------------------------------------------------------------
(* The steps of the parser *)

LEMMA AnswerIsText ==
    ASSUME NEW a, Complete(a)
    PROVE  a \in Seq(Symbols) /\ Len(a) \in Nat
<1>1. PICK e \in Nat : Layout(a, e)
  BY DEF Complete
<1> QED
  BY <1>1 DEF Layout, Lines

\* A piece behind the first one.
LEMMA ReadParses ==
    ASSUME PInv, Parsed, pc = "read", statusCode # None, NEW n \in 1..Space, Read(n)
    PROVE  Parsed'
<1>1. /\ n \in 1..(Len(answer) - got) /\ got' = got + n /\ pc' = "headers"
      /\ pageBuffer' = pageBuffer \o SubSeq(answer, got + 1, got + n)
      /\ UNCHANGED <<locationBuffer, doneHeaders, answer, before>>
  BY Zenon DEF Read
<1>2. answer \in Seq(Symbols) /\ Len(answer) \in Nat /\ got \in 0..Len(answer)
  BY AnswerIsText DEF PInv, PTypes
<1>3. PICK e \in 4..Len(answer) :
        Layout(answer, e) /\ IF doneHeaders THEN AllHeadersRead(e) ELSE HeadersRead(e)
  BY Zenon DEF Parsed
<1>4. \A p : LocationAt(p)' = LocationAt(p)
  BY <1>1 DEF LocationAt, LocationsUpTo
<1>5. CASE doneHeaders
  <2>1. AllHeadersRead(e)'
    BY <1>1, <1>2, <1>3, <1>4, <1>5 DEF AllHeadersRead
  <2> QED
    BY <1>1, <1>3, <1>5, <2>1, Zenon DEF Parsed
<1>6. CASE ~doneHeaders
  <2>1. PICK p \in 4..e : answer[p] = Lf /\ p <= got /\ PageFrom(p)
                          /\ locationBuffer = LocationAt(p)
    BY <1>3, <1>6, Zenon DEF HeadersRead
  <2>2. p \in Nat /\ got \in Nat /\ n \in Nat /\ 1 <= n /\ got + n <= Len(answer) /\ p <= got + n
    BY <1>1, <1>2, <2>1
  <2>3. PartOf(pageBuffer', answer, p, got + n)
    BY <1>1, <1>2, <2>1, <2>2, PartWith, Zenon DEF PageFrom
  <2>4. PageFrom(p)'
    BY <1>1, <2>3, Zenon DEF PageFrom
  <2>5. pc' \notin {"read", "close"}
    BY <1>1
  <2>6. HeadersRead(e)'
    BY <1>1, <1>4, <2>1, <2>2, <2>4, <2>5, Zenon DEF HeadersRead
  <2> QED
    BY <1>1, <1>3, <1>6, <2>6, Zenon DEF Parsed
<1> QED
  BY <1>5, <1>6

\* The first piece, if it has the status line with its end.
LEMMA FirstReadParses ==
    ASSUME PInv, pc = "read", statusCode = None, NEW n \in 1..Space, Read(n), firstPiece' >= 4
    PROVE  Parsed' /\ pc' = "headers"
<1> DEFINE page == pageBuffer \o SubSeq(answer, got + 1, got + n)
<1>1. /\ n \in 1..(Len(answer) - got) /\ got' = got + n
      /\ UNCHANGED <<locationBuffer, doneHeaders, answer, before>>
      /\ firstPiece' = n
      /\ IF At(page, Cr) = {} THEN pageBuffer' = page /\ pc' = "close"
         ELSE pageBuffer' = From(page, Min(At(page, Cr)) + 2) /\ pc' = "headers"
  BY Zenon DEF Read
<1>2. Complete(answer) /\ answer \in Seq(Symbols) /\ Len(answer) \in Nat
  BY AnswerIsText DEF PInv, PTypes
<1>3. got = 0 /\ pageBuffer = <<>> /\ before = locationBuffer /\ ~doneHeaders
  BY Zenon DEF PInv, NothingRead
<1>4. PICK e \in Nat : Layout(answer, e)
  BY <1>2, Zenon DEF Complete
<1>5. /\ e \in 4..Len(answer) /\ 4 \in 4..e
      /\ answer[1] = "HTTP" /\ answer[2] \in {"200", "302"} /\ answer[3] = Cr /\ answer[4] = Lf
  BY <1>2, <1>4 DEF Layout, Lines
<1>6. PartOf(<<>>, answer, 0, 0)
  BY DEF PartOf
<1>7. n \in Nat /\ 4 <= n /\ 0 + n <= Len(answer)
  BY <1>1, <1>2, <1>3
<1>8. PartOf(page, answer, 0, n)
  <2>1. PartOf(<<>> \o SubSeq(answer, 0 + 1, 0 + n), answer, 0, 0 + n)
    <3>1. 0 \in Nat /\ 0 <= 0 /\ 1 <= n
      BY <1>7
    <3> QED
      BY <1>2, <1>6, <1>7, <3>1, PartWith, Zenon
  <2>2. 0 + n = n
    BY <1>7
  <2> QED
    BY <1>3, <2>1, <2>2, Zenon
<1> HIDE DEF page
<1>9. Len(page) = n /\ \A k \in 1..n : page[k] = answer[k]
  BY <1>7, <1>8 DEF PartOf
<1>10. Min(At(page, Cr)) = 3 /\ At(page, Cr) # {}
  <2>1. At(page, Cr) = {k \in 1..n : answer[k] = Cr}
    BY <1>9 DEF At
  <2>2. 3 \in At(page, Cr) /\ At(page, Cr) \in SUBSET Int
    BY <1>5, <1>7, <2>1
  <2>3. \A k \in At(page, Cr) : 3 <= k
    <3>1. answer[1] # Cr /\ answer[2] # Cr
      BY <1>5, Distinct, Zenon
    <3> QED
      BY <1>7, <2>1, <3>1
  <2> QED
    BY <2>2, <2>3, MinIs
<1>11. pc' = "headers" /\ pageBuffer' = From(page, 5)
  BY <1>1, <1>10
<1>12. PartOf(pageBuffer', answer, 4, n)
  <2>1. PartOf(From(page, 4 - 0 + 1), answer, 4, n)
    BY <1>7, <1>8, PartWithout
  <2> QED
    BY <1>11, <2>1
<1>13. got' = n
  BY <1>1, <1>3, <1>7
<1>14. PageFrom(4)' /\ 4 <= got'
  BY <1>1, <1>7, <1>12, <1>13, Zenon DEF PageFrom
<1>15. LocationAt(4) = before
  <2>1. \A i \in 1..4 : answer[i] # "Location:"
    <3>1. \A i \in 1..4 : i = 1 \/ i = 2 \/ i = 3 \/ i = 4
      OBVIOUS
    <3>2. answer[1] # "Location:" /\ answer[2] # "Location:"
      BY <1>5
    <3>3. answer[3] # "Location:" /\ answer[4] # "Location:"
      BY <1>5, Distinct, Zenon
    <3> QED
      BY <3>1, <3>2, <3>3, Zenon
  <2>2. LocationsUpTo(4) = {}
    BY <2>1 DEF LocationsUpTo
  <2> QED
    BY <2>2, Zenon DEF LocationAt
<1>16. LocationAt(4)' = LocationAt(4)
  BY <1>1 DEF LocationAt, LocationsUpTo
<1>17. locationBuffer' = LocationAt(4)'
  BY <1>1, <1>3, <1>15, <1>16, Zenon
<1>18. pc' \notin {"read", "close"}
  BY <1>11
<1>19. HeadersRead(e)'
  BY <1>1, <1>5, <1>14, <1>17, <1>18, Zenon DEF HeadersRead
<1> QED
  BY <1>1, <1>3, <1>4, <1>5, <1>11, <1>19, Zenon DEF Parsed

\* A turn of the loop over the headers.
LEMMA StripParses ==
    ASSUME PInv, Parsed, StripHeader
    PROVE  Parsed'
<1>1. /\ ~doneHeaders /\ LineEnds(pageBuffer) # {} /\ pc = "headers" /\ pc' = "headers"
      /\ pageBuffer' = From(pageBuffer, Min(LineEnds(pageBuffer)) + 2)
      /\ doneHeaders' = (1 \in LineEnds(pageBuffer))
      /\ locationBuffer' = IF pageBuffer[1] = "Location:" THEN pageBuffer[2] ELSE locationBuffer
      /\ UNCHANGED <<answer, got, before>>
  BY Zenon DEF StripHeader, Goto, server, history
<1>2. answer \in Seq(Symbols) /\ Len(answer) \in Nat /\ got \in 0..Len(answer) /\ got \in Nat
  BY <1>1, AnswerIsText DEF PInv, PTypes
<1>3. PICK e \in 4..Len(answer) : Layout(answer, e) /\ HeadersRead(e)
  BY <1>1, Zenon DEF Parsed
<1>4. PICK p \in 4..e : answer[p] = Lf /\ p <= got /\ PageFrom(p) /\ locationBuffer = LocationAt(p)
  BY <1>3, Zenon DEF HeadersRead
<1>5. \A x : LocationAt(x)' = LocationAt(x)
  BY <1>1 DEF LocationAt, LocationsUpTo
<1>6. e \in Nat /\ p \in Nat
  BY <1>2
<1>7. CASE p = e
  <2>1. e + 2 <= got /\ pageBuffer[1] = Cr /\ 1 \in LineEnds(pageBuffer)
    BY <1>1, <1>2, <1>3, <1>4, <1>6, <1>7, BlankLineEnd
  <2>2. doneHeaders' /\ locationBuffer' = locationBuffer
    BY <1>1, <2>1, Distinct
  <2>3. AllHeadersRead(e)'
    BY <1>1, <1>4, <1>5, <1>7, <2>1, <2>2, Zenon DEF AllHeadersRead
  <2> QED
    BY <1>1, <1>3, <2>2, <2>3, Zenon DEF Parsed
<1>8. CASE p # e
  <2>1. p \in 4..(e - 1)
    BY <1>6, <1>8
  <2>2. PICK q \in (p + 3)..e :
          /\ HeaderLine(answer, p, q) /\ q <= got
          /\ Min(LineEnds(pageBuffer)) = q - 1 - p
          /\ 1 \notin LineEnds(pageBuffer)
    BY <1>1, <1>2, <1>3, <1>4, <1>6, <2>1, FirstLineEnd
  <2>3. q \in Nat /\ p <= q /\ q \in 4..e /\ (q - 1 - p) + 2 = q - p + 1
    BY <1>6
  <2>4. ~doneHeaders' /\ answer[q] = Lf
    BY <1>1, <2>2 DEF HeaderLine
  <2>5. PartOf(pageBuffer', answer, q, got)
    <3>1. pageBuffer' = From(pageBuffer, q - p + 1)
      BY <1>1, <2>2, <2>3, Zenon
    <3> QED
      BY <1>2, <1>4, <1>6, <2>2, <2>3, <3>1, PartWithout, Zenon DEF PageFrom
  <2>6. PageFrom(q)'
    BY <1>1, <2>5, Zenon DEF PageFrom
  <2>7. pageBuffer[1] = answer[p + 1] /\ pageBuffer[2] = answer[p + 2]
    <3>1. 1 \in 1..(got - p) /\ 2 \in 1..(got - p)
      BY <1>2, <1>6, <2>2
    <3> QED
      BY <1>4, <3>1, Zenon DEF PageFrom, PartOf
  <2>8. LocationAt(q) = IF answer[p + 1] = "Location:" THEN answer[p + 2] ELSE LocationAt(p)
    BY <1>3, <1>4, <1>6, <2>1, <2>2, NextLocation
  <2>9. locationBuffer' = LocationAt(q)'
    BY <1>1, <1>4, <1>5, <2>7, <2>8, Zenon
  <2>10. pc' \notin {"read", "close"}
    BY <1>1
  <2>11. HeadersRead(e)'
    BY <1>1, <2>2, <2>3, <2>4, <2>6, <2>9, <2>10, Zenon DEF HeadersRead
  <2> QED
    BY <1>1, <1>3, <2>4, <2>11, Zenon DEF Parsed
<1> QED
  BY <1>7, <1>8

\* The end of that loop, and of the reading.
LEMMA EndParses ==
    ASSUME Parsed, HeadersEnd \/ ReadEnds
    PROVE  Parsed'
<1>1. UNCHANGED <<answer, got, before, doneHeaders, locationBuffer>>
  BY DEF HeadersEnd, ReadEnds, server, history, parse
<1>2. PICK e \in 4..Len(answer) :
        Layout(answer, e) /\ IF doneHeaders THEN AllHeadersRead(e) ELSE HeadersRead(e)
  BY Zenon DEF Parsed
<1>3. \A x : LocationAt(x)' = LocationAt(x)
  BY <1>1 DEF LocationAt, LocationsUpTo
<1>4. CASE doneHeaders
  <2>1. AllHeadersRead(e)'
    BY <1>1, <1>2, <1>3, <1>4, Zenon DEF AllHeadersRead
  <2> QED
    BY <1>1, <1>2, <1>4, <2>1, Zenon DEF Parsed
<1>5. CASE ~doneHeaders
  <2>1. PICK p \in 4..e :
          /\ answer[p] = Lf /\ p <= got /\ PageFrom(p) /\ locationBuffer = LocationAt(p)
          /\ pc \in {"read", "close"} => NoMoreHeaders
    BY <1>2, <1>5, Zenon DEF HeadersRead
  <2>2. pageBuffer' = pageBuffer
    BY <1>5 DEF HeadersEnd, ReadEnds, parse
  <2>3. NoMoreHeaders
    BY <1>5, <2>1 DEF HeadersEnd, ReadEnds, Goto, NoMoreHeaders
  <2>4. PageFrom(p)' /\ NoMoreHeaders'
    BY <1>1, <2>1, <2>2, <2>3 DEF PageFrom, NoMoreHeaders
  <2>5. HeadersRead(e)'
    BY <1>1, <1>3, <2>1, <2>4, Zenon DEF HeadersRead
  <2> QED
    BY <1>1, <1>2, <1>5, <2>5, Zenon DEF Parsed
<1> QED
  BY <1>4, <1>5

LEMMA InitPInv == Init => PInv
<1> SUFFICES ASSUME Init PROVE PInv
  OBVIOUS
<1>1. pc = "return" /\ statusCode = None /\ doneHeaders = FALSE /\ firstPiece = 0
  BY Zenon DEF Init
<1>2. doneHeaders \in BOOLEAN /\ ~doneHeaders
  BY <1>1, Zenon
<1> QED
  BY <1>1, <1>2 DEF PInv, PTypes, NothingRead

LEMMA NextPInv == PInv /\ [Next]_vars => PInv'
<1> SUFFICES ASSUME PInv, [Next]_vars PROVE PInv'
  OBVIOUS
<1> USE DEF Goto, args, parse, server, history
<1>1. ASSUME NEW d \in Data, Call(d) PROVE PInv'
  BY <1>1 DEF Call, PInv, PTypes, NothingRead
<1>2. CASE Connect
  BY <1>2 DEF Connect, PInv, PTypes, NothingRead
<1>3. CASE ConnectFails \/ WriteFails
  BY <1>3 DEF ConnectFails, WriteFails, PInv, PTypes, NothingRead
<1>4. ASSUME NEW n \in 1..3, Write(n) PROVE PInv'
  <2>1. /\ pc = "write" /\ UNCHANGED <<statusCode, doneHeaders, firstPiece, locationBuffer, before>>
        /\ \/ UNCHANGED <<pc, pageBuffer, answer, got>>
           \/ /\ pc' = "answer" /\ pageBuffer' = <<>> /\ got' = 0
              /\ \E code \in {"200", "302"} : answer' = StatusLine(code)
    BY <1>4 DEF Write, Codes
  <2>2. pc' # pc => Lines(answer', Len(answer'))
    BY <2>1, StatusLineIsLine
  <2> QED
    BY <2>1, <2>2 DEF PInv, PTypes, NothingRead
<1>5. ASSUME NEW n \in 1..Space, Read(n) PROVE PInv'
  <2>1. /\ pc = "read" /\ n \in 1..(Len(answer) - got) /\ got' = got + n
        /\ UNCHANGED <<locationBuffer, doneHeaders, answer, before>>
    BY <1>5 DEF Read
  <2>2. Complete(answer) /\ got \in 0..Len(answer) /\ Len(answer) \in Nat
    BY <2>1, AnswerIsText DEF PInv, PTypes
  <2>3. got' \in 0..Len(answer')
    BY <2>1, <2>2
  <2>4. CASE statusCode # None
    <3>1. pc' = "headers" /\ UNCHANGED <<statusCode, firstPiece>>
      BY <1>5, <2>4 DEF Read
    <3>2. firstPiece >= 4 => Parsed'
      BY <1>5, <2>1, <2>4, ReadParses DEF PInv
    <3> QED
      BY <2>1, <2>2, <2>3, <2>4, <3>1, <3>2 DEF PInv, PTypes, NothingRead
  <2>5. CASE statusCode = None
    <3> DEFINE page == pageBuffer \o SubSeq(answer, got + 1, got + n)
    <3>1. /\ statusCode' \in CodesFound(page)
          /\ firstPiece' = n
          /\ IF At(page, Cr) = {} THEN pc' = "close" ELSE pc' = "headers"
      BY <1>5, <2>5, Zenon DEF Read
    <3>2. n \in Nat /\ n + got <= Len(answer) /\ got = 0 /\ pageBuffer = <<>>
      BY <2>1, <2>2, <2>5 DEF PInv, NothingRead
    <3>3. PartOf(page, answer, 0, n)
      <4>1. PartOf(<<>>, answer, 0, 0)
        BY DEF PartOf
      <4>2. 0 \in Nat /\ 0 <= 0 /\ 1 <= n /\ 0 + n <= Len(answer) /\ n \in Nat /\ 0 + n = n
        BY <2>2, <3>2
      <4>3. PartOf(<<>> \o SubSeq(answer, 0 + 1, 0 + n), answer, 0, 0 + n)
        BY <2>2, <4>1, <4>2, AnswerIsText, PartWith, Zenon
      <4> QED
        BY <3>2, <4>2, <4>3, Zenon
    <3> HIDE DEF page
    <3>4. Len(page) = n /\ \A k \in 1..n : page[k] = answer[k]
      BY <3>2, <3>3 DEF PartOf
    <3>5. /\ answer[1] # Cr /\ answer[2] # Cr /\ answer[2] # None
      <4>1. PICK e \in Nat : Layout(answer, e)
        BY <2>2 DEF Complete
      <4>2. answer[1] = "HTTP" /\ answer[2] \in {"200", "302"}
        BY <4>1 DEF Layout, Lines
      <4> QED
        BY <4>2, Distinct, ConstantsOK, Zenon DEF ConstantsOK
    <3>6. pc' = "headers" => statusCode' # None
      <4> SUFFICES ASSUME At(page, Cr) # {} PROVE statusCode' # None
        BY <3>1
      <4>1. PICK k \in 1..n : answer[k] = Cr
        BY <3>4 DEF At
      <4>2. k # 1 /\ k # 2
        BY <3>5, <4>1
      <4>3. n > 1 /\ 2 \in 1..n
        BY <3>2, <4>2
      <4>4. CodesFound(page) = {page[2]}
        BY <3>4, <4>3 DEF CodesFound
      <4> QED
        BY <3>1, <3>4, <3>5, <4>3, <4>4
    <3>7. firstPiece' >= 4 => Parsed'
      BY <1>5, <2>1, <2>5, FirstReadParses
    <3>8. pc' \in {"headers", "close"}
      BY <3>1
    <3> QED
      BY <2>1, <2>2, <2>3, <3>1, <3>2, <3>6, <3>7, <3>8 DEF PInv, PTypes, NothingRead
  <2> QED
    BY <2>4, <2>5
<1>6. CASE StripHeader
  <2>1. /\ pc = "headers" /\ pc' = "headers" /\ UNCHANGED <<statusCode, answer, got, firstPiece>>
        /\ doneHeaders' = (1 \in LineEnds(pageBuffer))
    BY <1>6 DEF StripHeader
  <2>2. doneHeaders' \in BOOLEAN
    BY <2>1
  <2>3. firstPiece >= 4 => Parsed'
    BY <1>6, <2>1, StripParses DEF PInv
  <2> QED
    BY <2>1, <2>2, <2>3 DEF PInv, PTypes, NothingRead
<1>7. CASE HeadersEnd \/ ReadEnds
  <2>1. /\ pc \in {"read", "headers"} /\ pc' \in {"read", "close"}
        /\ pc' = "read" => pc = "headers"
        /\ UNCHANGED <<statusCode, answer, got, firstPiece, doneHeaders>>
    BY <1>7 DEF HeadersEnd, ReadEnds
  <2>2. firstPiece >= 4 => Parsed'
    BY <1>7, <2>1, EndParses DEF PInv
  <2> QED
    BY <2>1, <2>2 DEF PInv, PTypes, NothingRead
<1>8. CASE Close
  BY <1>8 DEF Close, PInv, PTypes, NothingRead
<1>9. ASSUME NEW h \in Headers, SendHeader(h) PROVE PInv'
  <2>1. /\ pc = "answer" /\ pc' = pc /\ answer' = answer \o h
        /\ UNCHANGED <<pageBuffer, locationBuffer, statusCode, doneHeaders, firstPiece, before,
                       got>>
    BY <1>9 DEF SendHeader
  <2>2. Lines(answer', Len(answer'))
    BY <2>1, AppendHeader DEF PInv, PTypes
  <2> QED
    BY <2>1, <2>2 DEF PInv, PTypes, NothingRead
<1>10. ASSUME NEW body \in Bodies, SendBody(body) PROVE PInv'
  <2>1. /\ pc = "answer" /\ pc' = "read" /\ answer' = answer \o Eol \o body
        /\ UNCHANGED <<pageBuffer, locationBuffer, statusCode, doneHeaders, firstPiece, before,
                       got>>
    BY <1>10 DEF SendBody
  <2>2. Complete(answer')
    BY <2>1, AnswerLayout DEF PInv, PTypes
  <2>3. got' = 0 /\ Len(answer') \in Nat
    BY <2>1, <2>2, AnswerIsText DEF PInv, NothingRead
  <2> QED
    BY <2>1, <2>2, <2>3 DEF PInv, PTypes, NothingRead
<1>11. CASE UNCHANGED vars
  <2>1. /\ UNCHANGED <<pc, statusCode, answer, got, firstPiece, doneHeaders, before>>
        /\ UNCHANGED <<locationBuffer, pageBuffer>>
    BY <1>11 DEF vars
  <2>2. Parsed => Parsed'
    BY <2>1 DEF Parsed, AllHeadersRead, HeadersRead, LocationAt, LocationsUpTo, PageFrom,
                NoMoreHeaders
  <2> QED
    BY <2>1, <2>2 DEF PInv, PTypes, NothingRead
<1> QED
  BY <1>1, <1>2, <1>3, <1>4, <1>5, <1>6, <1>7, <1>8, <1>9, <1>10, <1>11 DEF Next, Step

-----------------------------------------------------------------------------
(* Where a redirect leads *)

\* The headers are over behind the blank line.
LEMMA OverBehindBlank ==
    ASSUME NEW e \in Nat, Layout(answer, e), NEW i \in Nat
    PROVE  HeadersOver(i) <=> e + 3 <= i
<1>1. /\ Lines(answer, e) /\ e \in 4..Len(answer) /\ e + 2 <= Len(answer) /\ Len(answer) \in Nat
      /\ answer[e] = Lf /\ answer[e + 1] = Cr /\ answer[e + 2] = Lf
  BY DEF Layout, Lines
<1>2. LineEnds(answer) = {j \in 1..Len(answer) : answer[j] = Cr /\ j < Len(answer)
                                                    /\ answer[j + 1] = Lf}
  BY DEF LineEnds, At
<1>3. ASSUME e + 3 <= i PROVE HeadersOver(i)
  <2>1. e + 1 \in 3..(i - 2) /\ e + 1 \in 1..Len(answer) /\ e + 1 < Len(answer)
        /\ (e + 1) - 1 = e /\ (e + 1) + 1 = e + 2
    BY <1>1, <1>3
  <2>2. answer[(e + 1) - 1] = Lf /\ e + 1 \in LineEnds(answer)
    BY <1>1, <1>2, <2>1
  <2> QED
    BY <2>1, <2>2, Zenon DEF HeadersOver
<1>4. ASSUME HeadersOver(i) PROVE e + 3 <= i
  <2>1. PICK j \in 3..(i - 2) : answer[j - 1] = Lf /\ j \in LineEnds(answer)
    BY <1>4 DEF HeadersOver
  <2>2. answer[j] = Cr
    BY <1>2, <2>1
  <2>3. j \notin 3..e
    BY <1>1, <2>1, <2>2, NoBlankBefore
  <2> QED
    BY <2>1, <2>3
<1> QED
  BY <1>3, <1>4

\* The Location headers that were read, by what HTTP says.
LEMMA LocationsReadAre ==
    ASSUME NEW e \in Nat, Layout(answer, e), got \in 0..Len(answer), NEW i
    PROVE  i \in LocationsRead
             <=> i \in 1..e /\ i + 3 <= got /\ answer[i] = "Location:"
<1>1. /\ answer \in Seq(Symbols) /\ Len(answer) \in Nat /\ got \in Nat /\ e <= Len(answer)
      /\ answer[e + 1] = Cr /\ answer[e + 2] = Lf
  BY DEF Layout, Lines
<1>2. Len(Received) = got /\ \A k \in 1..got : Received[k] = answer[k]
  BY <1>1 DEF Received
<1>3. At(Received, "Location:") = {k \in 1..got : answer[k] = "Location:"}
  BY <1>2 DEF At
<1>4. i \in LocationsRead
        <=> i \in 1..got /\ answer[i] = "Location:" /\ ~HeadersOver(i) /\ i + 3 <= got
  BY <1>3, Zenon DEF LocationsRead
<1>5. ASSUME i \in LocationsRead PROVE i \in 1..e /\ i + 3 <= got /\ answer[i] = "Location:"
  <2>1. i \in 1..got /\ answer[i] = "Location:" /\ ~HeadersOver(i) /\ i + 3 <= got
    BY <1>4, <1>5, Zenon
  <2>2. i \in Nat /\ ~(e + 3 <= i)
    BY <2>1, OverBehindBlank
  <2>3. i # e + 1 /\ i # e + 2
    BY <1>1, <2>1, Distinct, Zenon
  <2> QED
    BY <2>1, <2>2, <2>3
<1>6. ASSUME i \in 1..e, i + 3 <= got, answer[i] = "Location:" PROVE i \in LocationsRead
  <2>1. i \in Nat /\ ~(e + 3 <= i) /\ i \in 1..got
    BY <1>1, <1>6
  <2>2. ~HeadersOver(i)
    BY <2>1, OverBehindBlank
  <2> QED
    BY <1>4, <1>6, <2>1, <2>2, Zenon
<1> QED
  BY <1>5, <1>6

\* A complete Location header that was read is before the page buffer, if no header
\* is left to take off.
LEMMA NoneLeft ==
    ASSUME NEW e \in Nat, Layout(answer, e), got \in Nat, NEW p \in 4..e, answer[p] = Lf, p <= got,
           PageFrom(p), NoMoreHeaders,
           NEW i \in 1..e, answer[i] = "Location:", i + 3 <= got
    PROVE  i <= p
<1> SUFFICES ASSUME p < i PROVE FALSE
  OBVIOUS
<1>1. Lines(answer, e) /\ p \in 4..(e - 1)
  BY DEF Layout
<1>2. answer[i - 1] = Lf /\ HeaderLine(answer, i - 1, i + 3)
  BY <1>1, LocationLine
<1>3. PICK q \in (p + 3)..e : HeaderLine(answer, p, q)
  BY <1>1, Zenon DEF Lines
<1>4. /\ answer[p + 1] \in {"Location:", "Date:"} /\ answer[q - 1] = Cr /\ answer[q] = Lf
      /\ \A j \in (p + 1)..(q - 2) : answer[j] \notin {Cr, Lf}
      /\ answer[p + 1] = "Location:" => q = p + 4
  BY <1>3, Zenon DEF HeaderLine
<1>5. q <= got
  <2>1. CASE i = p + 1
    BY <1>4, <2>1
  <2>2. CASE i # p + 1
    <3>1. i - 1 \notin (p + 1)..(q - 2) /\ i - 1 # q - 1
      BY <1>2, <1>4, Distinct, Zenon
    <3> QED
      BY <2>2, <3>1
  <2> QED
    BY <2>1, <2>2
<1>6. LineEnds(pageBuffer) # {}
  <2>1. q - 1 - p \in Int /\ q - 1 - p \in 1..(got - p - 1)
        /\ p + (q - 1 - p) = q - 1 /\ p + (q - 1 - p) + 1 = q /\ p \in Nat
    BY <1>5
  <2>2. q - 1 - p \in LineEnds(pageBuffer)
    BY <1>4, <2>1, PageEnds
  <2> QED
    BY <2>2
<1>7. HasColon(pageBuffer)
  <2>1. 1 \in 1..(got - p)
    BY <1>5
  <2>2. 1 \in 1..Len(pageBuffer) /\ pageBuffer[1] = answer[p + 1]
    BY <2>1 DEF PageFrom, PartOf
  <2>3. 1 \in At(pageBuffer, "Location:") \cup At(pageBuffer, "Date:")
    BY <1>4, <2>2, Zenon DEF At
  <2> QED
    BY <2>3 DEF HasColon
<1> QED
  BY <1>6, <1>7 DEF NoMoreHeaders

\* However the answer is cut into pieces, the location after it is that of the last
\* complete Location header that was read, or still that of an earlier answer: for all
\* urls, numbers of headers and sizes of the page buffer.
THEOREM RedirectFound == Spec => []RedirectTarget
<1>1. PInv => RedirectTarget
  <2> SUFFICES ASSUME PInv, pc = "close", firstPiece >= 4
               PROVE  locationBuffer = IF LocationsRead = {} THEN before
                                       ELSE answer[Max(LocationsRead) + 1]
    BY DEF RedirectTarget
  <2>1. Complete(answer) /\ got \in 0..Len(answer) /\ Len(answer) \in Nat /\ got \in Nat
    BY AnswerIsText DEF PInv, PTypes
  <2>2. PICK e \in 4..Len(answer) :
          Layout(answer, e) /\ IF doneHeaders THEN AllHeadersRead(e) ELSE HeadersRead(e)
    BY Zenon DEF PInv, Parsed
  <2>3. e \in Nat /\ Lines(answer, e)
    BY <2>1, <2>2 DEF Layout
  <2>4. ASSUME NEW p \in 4..e, locationBuffer = LocationAt(p), LocationsRead = LocationsUpTo(p)
        PROVE  locationBuffer = IF LocationsRead = {} THEN before
                                ELSE answer[Max(LocationsRead) + 1]
    BY <2>4, Zenon DEF LocationAt
  <2>5. CASE doneHeaders
    <3>1. e + 2 <= got /\ locationBuffer = LocationAt(e)
      BY <2>2, <2>5 DEF AllHeadersRead
    <3>2. ASSUME NEW i \in LocationsUpTo(e) PROVE i \in LocationsRead
      <4>1. i \in 1..e /\ answer[i] = "Location:"
        BY DEF LocationsUpTo
      <4>2. i + 3 <= e
        BY <2>3, <4>1, LocationLine
      <4>3. i + 3 <= got
        BY <2>1, <2>3, <3>1, <4>1, <4>2
      <4> QED
        BY <2>1, <2>2, <2>3, <4>1, <4>3, LocationsReadAre
    <3>3. ASSUME NEW i \in LocationsRead PROVE i \in LocationsUpTo(e)
      BY <2>1, <2>2, <2>3, LocationsReadAre DEF LocationsUpTo
    <3>4. LocationsRead = LocationsUpTo(e)
      BY <3>2, <3>3, Zenon
    <3>5. e \in 4..e
      BY <2>1
    <3> QED
      BY <2>4, <3>1, <3>4, <3>5
  <2>6. CASE ~doneHeaders
    <3>1. PICK p \in 4..e : answer[p] = Lf /\ p <= got /\ PageFrom(p)
                            /\ locationBuffer = LocationAt(p) /\ NoMoreHeaders
      BY <2>2, <2>6 DEF HeadersRead
    <3>2. ASSUME NEW i \in LocationsUpTo(p) PROVE i \in LocationsRead
      <4>1. i \in 1..p /\ i \in 1..e /\ answer[i] = "Location:"
        BY <2>3 DEF LocationsUpTo
      <4>2. PICK r \in Int, q \in Int : r = i - 1 /\ q = i + 3 /\ HeaderLine(answer, r, q)
        <5>1. HeaderLine(answer, i - 1, i + 3) /\ i - 1 \in Int /\ i + 3 \in Int
          BY <2>3, <4>1, LocationLine
        <5> QED
          BY <5>1, Zenon
      <4>3. answer[q - 1] = Cr /\ \A j \in (r + 1)..(q - 2) : answer[j] \notin {Cr, Lf}
        BY <4>2, Zenon DEF HeaderLine
      <4>4. p \notin (r + 1)..(q - 2) /\ p # q - 1
        BY <3>1, <4>3, Distinct, Zenon
      <4>5. i + 3 <= got
        BY <2>1, <2>3, <3>1, <4>1, <4>2, <4>4
      <4> QED
        BY <2>1, <2>2, <2>3, <4>1, <4>5, LocationsReadAre
    <3>3. ASSUME NEW i \in LocationsRead PROVE i \in LocationsUpTo(p)
      <4>1. i \in 1..e /\ i + 3 <= got /\ answer[i] = "Location:"
        BY <2>1, <2>2, <2>3, LocationsReadAre
      <4>2. i <= p
        BY <2>1, <2>2, <2>3, <3>1, <4>1, NoneLeft
      <4> QED
        BY <2>3, <4>1, <4>2 DEF LocationsUpTo
    <3>4. LocationsRead = LocationsUpTo(p)
      BY <3>2, <3>3, Zenon
    <3> QED
      BY <2>4, <3>1, <3>4
  <2> QED
    BY <2>5, <2>6
<1> QED
  BY <1>1, InitPInv, NextPInv, PTL DEF Spec
===========================================================================
