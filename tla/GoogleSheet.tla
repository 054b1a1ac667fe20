---------------------------- MODULE GoogleSheet ----------------------------
(***************************************************************************)
(* googleSheet_connect() of main/googleSheet.cpp, called over and over by  *)
(* loopTask30min: one HTTP request over TLS, an answer read piece by piece *)
(* into a static page buffer, and another call for the place the answer    *)
(* redirects to, which a second static buffer holds from call to call.     *)
(*                                                                         *)
(* The TLS library and the server are external: a request is accepted in   *)
(* parts, an answer comes in pieces of any size, either may fail anywhere, *)
(* and a call that has to be repeated (WANT_READ, WANT_WRITE) leaves all   *)
(* as it is.  An answer is a sequence of symbols, the two characters of a  *)
(* line end among them; the first piece holds the HTTP version at least,   *)
(* and a Location fits into its buffer.                                    *)
(***************************************************************************)
EXTENDS Naturals, Sequences, FiniteSets, SequencesExt, FiniteSetsExt

CONSTANTS WebUrl,        \* WEB_URL
          Urls,          \* what a Location header may hold
          Data,          \* the query strings of loopTask30min
          Space,         \* sizeof(pageBuffer) - 1
          MaxRedirects,  \* how often a server redirects, or seems to, in a row
          MaxHead,       \* length of an answer's status line and headers
          None           \* no url, no status, no answer

Cr == "\r"
Lf == "\n"

ASSUME ConstantsOK ==
    /\ Space \in Nat /\ MaxRedirects \in Nat /\ MaxHead \in Nat
    /\ None \notin Urls \cup {WebUrl, "200", "302"}
    /\ Urls \cap {Cr, Lf, "Location:"} = {}   \* a url has no line end

Eol == <<Cr, Lf>>
Location(u) == <<"Location:", u>> \o Eol

\* What the answers of a server are made of: a status line, headers, and a body
\* that may be longer than the page buffer or look like a header.
StatusLine(code) == <<"HTTP", code>> \o Eol
Headers == {<<"Date:">> \o Eol} \cup {Location(u) : u \in Urls}
Bodies == {<<>>, [i \in 1..Space |-> "text"]} \cup {Location(u) : u \in Urls}

VARIABLES pageBuffer, locationBuffer,   \* the static buffers
          aliased,      \* whether the argument url is locationBuffer
          data,         \* the argument data
          statusCode, doneHeaders,
          written,      \* written_bytes
          pc,           \* the next step of the call
          open,         \* number of TLS connections that exist
          connectedTo,  \* the url the connection was made to
          request,      \* what the server has received on it
          answer,       \* what the server sends
          got,          \* how much of it was read
          redirects,    \* counter for the bound
          firstPiece,   \* history: length of the first piece
          before        \* history: locationBuffer when the connection was made

args == <<aliased, data>>
parse == <<pageBuffer, locationBuffer, statusCode, doneHeaders>>
server == <<connectedTo, request, answer, got>>
history == <<firstPiece, before>>
vars == <<args, parse, written, pc, open, server, redirects, history>>

url == IF aliased THEN locationBuffer ELSE WebUrl

Init ==
    /\ pageBuffer = <<>> /\ locationBuffer = None
    /\ aliased = FALSE /\ data = None
    /\ statusCode = None /\ doneHeaders = FALSE /\ written = 0
    /\ pc = "return" /\ open = 0
    /\ connectedTo = None /\ request = <<>> /\ answer = <<>> /\ got = 0
    /\ redirects = 0
    /\ firstPiece = 0 /\ before = None

Goto(a, b) == pc = a /\ pc' = b

-----------------------------------------------------------------------------
(* The call, and the request *)

\* loopTask30min
Call(d) ==
    /\ Goto("return", "connect")
    /\ aliased' = FALSE /\ data' = d
    /\ redirects' = 0
    /\ UNCHANGED <<parse, written, open, server, history>>

\* Mutant of Connect: the location of the last answer is cleared first.
ConnectAfresh ==
    /\ Goto("connect", "write")
    /\ open' = open + 1
    /\ connectedTo' = url
    /\ locationBuffer' = None
    /\ before' = locationBuffer
    /\ UNCHANGED <<args, pageBuffer, statusCode, doneHeaders, written, request, answer, got,
                   redirects, firstPiece>>

Connect ==
    /\ Goto("connect", "write")
    /\ open' = open + 1
    /\ connectedTo' = url
    /\ before' = locationBuffer
    /\ UNCHANGED <<args, parse, written, request, answer, got, redirects, firstPiece>>

ConnectFails ==
    /\ Goto("connect", "return")
    /\ UNCHANGED <<args, parse, written, open, server, redirects, history>>

Request(u, d) == <<"GET", u, d>>

\* What a server may answer with.
Codes == {"200"} \cup IF redirects < MaxRedirects THEN {"302"} ELSE {}

\* The request is composed again for each part of it that is sent; with the last
\* part the page buffer is cleared for the answer, which a server begins.
Write(n) ==
    /\ pc = "write"
    /\ n \in 1..(Len(Request(url, data)) - written)
    /\ request' = request \o SubSeq(Request(url, data), written + 1, written + n)
    /\ written' = written + n
    /\ IF written' < Len(Request(url, data))
       THEN UNCHANGED <<pc, pageBuffer, answer, got>>
       ELSE /\ pc' = "answer" /\ pageBuffer' = <<>> /\ got' = 0
            /\ answer' \in {StatusLine(code) : code \in Codes}
    /\ UNCHANGED <<args, locationBuffer, statusCode, doneHeaders, open, connectedTo,
                   redirects, history>>

\* Mutant of WriteFails: the connection is not deleted.
WriteLeaks ==
    /\ Goto("write", "return")
    /\ UNCHANGED <<args, parse, written, open, server, redirects, history>>

WriteFails ==
    /\ Goto("write", "return")
    /\ open' = open - 1
    /\ connectedTo' = None /\ request' = <<>> /\ written' = 0
    /\ before' = None
    /\ UNCHANGED <<args, parse, answer, got, redirects, firstPiece>>

-----------------------------------------------------------------------------
(* The answer *)

\* The server completes its answer, while the call waits for the first piece: any
\* number of headers, a blank line and a body.
SendHeader(h) ==
    /\ pc = "answer"
    /\ Len(answer) + Len(h) <= MaxHead
    /\ answer' = answer \o h
    /\ UNCHANGED <<args, parse, written, pc, open, connectedTo, request, got, redirects, history>>

SendBody(body) ==
    /\ Goto("answer", "read")
    /\ answer' = answer \o Eol \o body
    /\ UNCHANGED <<args, parse, written, open, connectedTo, request, got, redirects, history>>

At(s, x) == {i \in 1..Len(s) : s[i] = x}
LineEnds(s) == {i \in At(s, Cr) : i < Len(s) /\ s[i + 1] = Lf}
HasColon(s) == At(s, "Location:") \cup At(s, "Date:") # {}
From(s, i) == SubSeq(s, i, Len(s))

\* The status code is what follows the first space of the first piece.  The search
\* in a piece that holds neither a space nor a line end goes on in the memory behind
\* the buffer, and finds there what it may.
CodesFound(page) == IF Len(page) > 1 THEN {page[2]} ELSE {None} \cup Codes

\* A piece arrives.  The first one must bring the end of the status line.
Read(n) ==
    /\ pc = "read"
    /\ n \in 1..(Len(answer) - got) /\ Len(pageBuffer) + n <= Space
    /\ got' = got + n
    /\ LET page == pageBuffer \o SubSeq(answer, got + 1, got + n)
       IN  IF statusCode # None
           THEN pageBuffer' = page /\ pc' = "headers" /\ UNCHANGED <<statusCode, firstPiece>>
           ELSE /\ statusCode' \in CodesFound(page)
                /\ firstPiece' = n
                /\ IF At(page, Cr) = {}
                   THEN pageBuffer' = page /\ pc' = "close"
                   ELSE pageBuffer' = From(page, Min(At(page, Cr)) + 2) /\ pc' = "headers"
    /\ UNCHANGED <<args, locationBuffer, doneHeaders, written, open, connectedTo, request,
                   answer, redirects, before>>

\* Mutant of StripHeader: the blank line does not end the headers.
StripAnyLine ==
    /\ Goto("headers", "headers")
    /\ ~doneHeaders /\ HasColon(pageBuffer) /\ LineEnds(pageBuffer) # {}
    /\ pageBuffer' = From(pageBuffer, Min(LineEnds(pageBuffer)) + 2)
    /\ locationBuffer' = IF pageBuffer[1] = "Location:" THEN pageBuffer[2] ELSE locationBuffer
    /\ UNCHANGED <<args, statusCode, doneHeaders, written, open, server, redirects, history>>

\* One turn of the loop over the headers.
StripHeader ==
    /\ Goto("headers", "headers")
    /\ ~doneHeaders /\ HasColon(pageBuffer) /\ LineEnds(pageBuffer) # {}
    /\ pageBuffer' = From(pageBuffer, Min(LineEnds(pageBuffer)) + 2)
    /\ doneHeaders' = (1 \in LineEnds(pageBuffer))
    /\ locationBuffer' = IF pageBuffer[1] = "Location:" THEN pageBuffer[2] ELSE locationBuffer
    /\ UNCHANGED <<args, statusCode, written, open, server, redirects, history>>

HeadersEnd ==
    /\ Goto("headers", "read")
    /\ doneHeaders \/ ~HasColon(pageBuffer) \/ LineEnds(pageBuffer) = {}
    /\ pageBuffer' = IF doneHeaders THEN <<>> ELSE pageBuffer
    /\ UNCHANGED <<args, locationBuffer, statusCode, doneHeaders, written, open, server,
                   redirects, history>>

\* Mutant of ReadEnds: a closed connection is taken for a call to repeat.
ReadRepeated ==
    /\ Goto("read", IF got = Len(answer) THEN "read" ELSE "close")
    /\ UNCHANGED <<args, parse, written, open, server, redirects, history>>

\* The read returns an error, or 0: the connection is closed or there is no space.
ReadEnds ==
    /\ Goto("read", "close")
    /\ UNCHANGED <<args, parse, written, open, server, redirects, history>>

\* The connection is deleted; the call is repeated for a redirect, or returns.
\* Its local variables and what belonged to the connection are gone.
Close ==
    /\ pc = "close"
    /\ open' = open - 1
    /\ connectedTo' = None /\ request' = <<>> /\ answer' = <<>> /\ got' = 0
    /\ statusCode' = None /\ doneHeaders' = FALSE /\ written' = 0
    /\ firstPiece' = 0 /\ before' = None
    /\ IF statusCode = "302" /\ locationBuffer # None
       THEN /\ redirects' = redirects + 1
            /\ pc' = "connect"
            /\ aliased' = TRUE /\ data' = None
       ELSE pc' = "return" /\ UNCHANGED <<args, redirects>>
    /\ UNCHANGED <<pageBuffer, locationBuffer>>

Step ==
    \/ Connect \/ \E n \in 1..3 : Write(n)
    \/ \E h \in Headers : SendHeader(h)
    \/ \E body \in Bodies : SendBody(body)
    \/ \E n \in 1..Space : Read(n)
    \/ StripHeader \/ HeadersEnd \/ Close
    \/ (got = Len(answer) \/ Len(pageBuffer) = Space) /\ ReadEnds

Next ==
    \/ Step
    \/ \E d \in Data : Call(d)
    \/ ConnectFails \/ WriteFails \/ ReadEnds

Spec == Init /\ [][Next]_vars /\ WF_vars(Step)

-----------------------------------------------------------------------------
(* Properties *)

\* The Location headers of what was read, by what HTTP says: lines before the
\* first blank one.
Received == SubSeq(answer, 1, got)
HeadersOver(i) == \E j \in 3..(i - 2) : answer[j - 1] = Lf /\ j \in LineEnds(answer)
LocationsRead ==
    {i \in At(Received, "Location:") : ~HeadersOver(i) /\ i + 3 <= got}

\* However the answer is cut into pieces, the location after it is that of its
\* last complete Location header; without one it is still that of an earlier
\* answer, possibly of an earlier call.  The first piece must hold the status
\* line with both characters of its end.
RedirectTarget ==
    pc = "close" /\ firstPiece >= 4 =>
        locationBuffer = IF LocationsRead = {} THEN before
                         ELSE answer[Max(LocationsRead) + 1]

\* The server that was connected to receives exactly the request for the url that
\* was called, although its parts are composed anew from an argument that may be
\* the buffer the answer is going to change.
RequestIntact ==
    pc = "read" /\ got = 0 => request = Request(connectedTo, data) /\ connectedTo # None

\* Every path deletes its connection: there is none when a call returns or is
\* repeated for a redirect, and never more than one.
OneConnection == open = IF pc \in {"return", "connect"} THEN 0 ELSE 1

\* Every call returns, if the server does not redirect for ever.
CallReturns == pc # "return" ~> pc = "return"
=============================================================================
