------------------------------ MODULE HttpServer ------------------------------
(***************************************************************************)
(* muduo's HTTP layer on one TcpConnection: HttpServer::onMessage runs     *)
(* HttpContext::parseRequest over the connection's input buffer each time  *)
(* handleRead has appended bytes to it, answers a request once the context *)
(* reaches kGotAll, and answers a malformed request line with 400 and      *)
(* shutdown().                                                             *)
(*                                                                         *)
(* Data is abstracted to lines: findCRLF() succeeds exactly when a whole   *)
(* line is buffered, so bytes arrive here as whole lines.  A line is the   *)
(* sequence of its space-separated words and whether it contains ':'.      *)
(* A header line "F: V" is <<F, V>> with colon TRUE: addHeader() cuts the  *)
(* field at the colon and trims the blanks around the value.  The peer     *)
(* sends a script of lines, several per read() when it wishes; a client    *)
(* that does not pipeline sends no byte of a request before the previous   *)
(* response.  What the kernel does with the output (TcpServer.tla) is left *)
(* out: a response counts once send() accepts it.                          *)
(***************************************************************************)
EXTENDS Naturals, Sequences, TLC

CONSTANTS
    Methods,          \* method words setMethod() accepts
    Scripts,          \* the line sequences a peer may send
    MaxChunk,         \* most lines one read() delivers
    Pipelining,       \* whether the peer sends ahead of the responses
    DefaultCallback   \* httpCallback_ is detail::defaultHttpCallback

ASSUME MaxChunk \in Nat \ {0} /\ Pipelining \in BOOLEAN
       /\ DefaultCallback \in BOOLEAN

VARIABLES
    script,       \* the peer's lines
    sent,         \* how many of them the server has read
    inputBuffer,  \* inputBuffer_: lines read and not yet retrieved
    context,      \* the connection's HttpContext (state_ and request_)
    connState,    \* TcpConnection::state_: "Connected" or "Disconnecting"
    responses,    \* statuses of the responses send() accepted, in order
    aborted       \* an assert() has failed and the process has stopped

vars == <<script, sent, inputBuffer, context, connState, responses, aborted>>

\* HttpRequest(): method_ kInvalid, version_ kUnknown, no headers; reset()
\* (HttpContext.h) swaps request_ with such a request and state_ back to
\* kExpectRequestLine.
FreshContext ==
    [state |-> "ExpectRequestLine", method |-> "Invalid",
     version |-> "Unknown", headers |-> <<>>]

Blank(l) == ~l.colon /\ l.words = <<>>

\* Requests among the first n lines of the peer's script.
RequestsIn(n) == Len(SelectSeq(SubSeq(script, 1, n), Blank))

-----------------------------------------------------------------------------
\* setMethod(start, end): assert(method_ == kInvalid), then method_ is the
\* word if it names a method, kInvalid otherwise.
SetMethod(w) == IF w \in Methods THEN w ELSE "Invalid"

\* processRequestLine(begin, end) on context c.  The method is set when the
\* line has a first space, even if the rest of the line is then refused;
\* the version is the text after the second space and must be exactly
\* HTTP/1.0 or HTTP/1.1.  assertFail: setMethod() found method_ set.
ProcessRequestLine(c, l) ==
    LET w      == l.words
        space1 == Len(w) >= 2
        method == IF space1 THEN SetMethod(w[1]) ELSE c.method
        ok     == space1 /\ method # "Invalid" /\ Len(w) = 3
                  /\ w[3] \in {"HTTP/1.0", "HTTP/1.1"}
    IN  [assertFail |-> space1 /\ c.method # "Invalid",
         ok  |-> ok,
         ctx |-> [c EXCEPT !.method  = method,
                           !.version = IF ~ok THEN @
                                       ELSE IF w[3] = "HTTP/1.1" THEN "Http11"
                                       ELSE "Http10"]]

\* addHeader(start, colon, end): headers_[field] = value.
AddHeader(c, l) == [c EXCEPT !.headers = (l.words[1] :> l.words[2]) @@ @]

\* getHeader(field): the value, or the empty string.
GetHeader(c, f) == IF f \in DOMAIN c.headers THEN c.headers[f] ELSE ""

\* parseRequest(buf): the while (hasMore) loop.  A request line is
\* retrieved only when accepted; a header line or the line that ends the
\* headers (any line without ':') is always retrieved.  The result carries
\* the context, the buffer left, the return value and an assert failure.
RECURSIVE ParseRequest(_, _)
ParseRequest(c, b) ==
    LET Stop(c2, b2, ok) == [ctx |-> c2, buf |-> b2, ok |-> ok, abort |-> FALSE]
    IN
    CASE c.state = "ExpectRequestLine" /\ b # <<>> ->
           LET r == ProcessRequestLine(c, Head(b)) IN
           IF r.assertFail THEN [Stop(c, b, FALSE) EXCEPT !.abort = TRUE]
           ELSE IF r.ok
                THEN ParseRequest([r.ctx EXCEPT !.state = "ExpectHeaders"], Tail(b))
                ELSE Stop(r.ctx, b, FALSE)
      [] c.state = "ExpectHeaders" /\ b # <<>> ->
           IF Head(b).colon THEN ParseRequest(AddHeader(c, Head(b)), Tail(b))
           ELSE Stop([c EXCEPT !.state = "GotAll"], Tail(b), TRUE)
      [] OTHER -> Stop(c, b, TRUE)

-----------------------------------------------------------------------------
\* send(buf): accepted only while state_ == kConnected.
Send(status) ==
    IF connState = "Connected" THEN Append(responses, status) ELSE responses

\* onRequest(conn, req): close on "Connection: close", or on HTTP/1.0
\* without "Keep-Alive"; defaultHttpCallback answers 404 and always closes.
\* The response is sent, then shutdown() if it closes.
OnRequest(c) ==
    LET hdr   == GetHeader(c, "Connection")
        close == \/ hdr = "close"
                 \/ c.version = "Http10" /\ hdr # "Keep-Alive"
                 \/ DefaultCallback
    IN  /\ responses' = Send(IF DefaultCallback THEN "404" ELSE "200")
        /\ connState' = IF close THEN "Disconnecting" ELSE connState

\* onMessage(conn, buf): parse; on failure send 400 and shutdown(); on
\* kGotAll run onRequest and reset() the context.
OnMessage(b) ==
    LET r == ParseRequest(context, b) IN
    IF r.abort
    THEN /\ aborted' = TRUE
         /\ UNCHANGED <<inputBuffer, context, connState, responses>>
    ELSE /\ inputBuffer' = r.buf
         /\ aborted' = FALSE
         /\ CASE ~r.ok ->
                   /\ responses' = Send("400")
                   /\ connState' = "Disconnecting"
                   /\ context' = r.ctx
              [] r.ctx.state = "GotAll" ->
                   /\ OnRequest(r.ctx)
                   /\ context' = FreshContext
              [] OTHER ->
                   /\ context' = r.ctx
                   /\ UNCHANGED <<connState, responses>>

\* handleRead(): readFd() appends the k lines the peer has sent next, and
\* n > 0 runs the message callback.  A peer that does not pipeline sends
\* no line of a request before it has the previous response.
Receive(k) ==
    /\ ~aborted
    /\ sent + k <= Len(script)
    /\ Pipelining \/ RequestsIn(sent + k - 1) <= Len(responses)
    /\ sent' = sent + k
    /\ OnMessage(inputBuffer \o SubSeq(script, sent + 1, sent + k))
    /\ UNCHANGED script

\* onConnection(): a connected TcpConnection gets a fresh HttpContext.
Init ==
    /\ script \in Scripts
    /\ sent = 0
    /\ inputBuffer = <<>>
    /\ context = FreshContext
    /\ connState = "Connected"
    /\ responses = <<>>
    /\ aborted = FALSE

Next == \E k \in 1 .. MaxChunk : Receive(k)

\* The peer keeps sending what it has, and the kernel delivers it.
Spec == Init /\ [][Next]_vars /\ WF_vars(Next)

-----------------------------------------------------------------------------
(* Properties.                                                             *)

TypeOK ==
    /\ sent \in 0 .. Len(script)
    /\ context.state \in {"ExpectRequestLine", "ExpectHeaders", "GotAll"}
    /\ connState \in {"Connected", "Disconnecting"}
    /\ aborted \in BOOLEAN

\* Every request the peer sends on a connection that stays open is
\* answered: onMessage() does not leave a whole request sitting in the
\* input buffer once the peer has nothing more to send.
RequestsAnswered ==
    <>(connState = "Disconnecting" \/ Len(responses) = RequestsIn(Len(script)))

====
