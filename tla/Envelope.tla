------------------------------ MODULE Envelope ------------------------------
(***************************************************************************)
(* The response writer of mcpmw/envelope.go and the plain ResponseWriter   *)
(* of net/http it stands in front of, as operators on records: a composing *)
(* module keeps one of each per request and applies the calls a handler    *)
(* makes.                                                                  *)
(*                                                                         *)
(* A header map is its Content-Type. A body is the sequence of the texts   *)
(* the handler wrote, told apart only by what mapSDKError looks for.       *)
(***************************************************************************)
EXTENDS Integers, Sequences

OK == 200
BadRequest == 400
Unauthorized == 401
Forbidden == 403
Statuses == {OK, BadRequest, Unauthorized, Forbidden}

NoType == "none"
ContentTypes == {NoType, "text/plain", "text/event-stream", "application/json"}

\* "malformed" counts at the start of a body, "unhandled" and "missing" anywhere.
Texts == {"malformed", "unhandled", "missing", "other"}

-----------------------------------------------------------------------------
(* net/http's ResponseWriter: the headers are fixed by the first WriteHeader,
   explicit or implied, and later ones are ignored. `seen` is how much of the
   body a Flush or the end of the handler has pushed to the client. *)

NoCode == 0
NoRpc  == [code |-> NoCode, id |-> "null"]

\* `rpc` is the body when it is a JSON-RPC error envelope.
NewPlain == [header |-> NoType, status |-> 0, sent |-> NoType, body |-> <<>>,
             rpc |-> NoRpc, seen |-> 0]

PlainWriteHeader(w, s) ==
    IF w.status # 0 THEN w ELSE [w EXCEPT !.status = s, !.sent = w.header]

PlainWrite(w, p) ==
    LET v == PlainWriteHeader(w, OK) IN [v EXCEPT !.body = Append(@, p)]

PlainFlush(w) ==
    LET v == PlainWriteHeader(w, OK) IN [v EXCEPT !.seen = Len(v.body)]

\* The handler returned: what is left is sent.
PlainEnd(w) == PlainFlush(w)

-----------------------------------------------------------------------------
(* bufferedResponseWriter in front of a plain writer *)

NewBuffered == [header |-> NoType, status |-> 0, body |-> <<>>,
                passthrough |-> FALSE, under |-> NewPlain]

\* next.ServeHTTP(w, r): no buffer at all, every call goes to the writer itself.
Bypassed == [NewBuffered EXCEPT !.passthrough = TRUE]

\* maps.Copy: a header the handler never set leaves the underlying one alone.
CopyHeader(to, from) == IF from = NoType THEN to ELSE from

\* flush: hand over headers, status and body once and pass through from then on.
Flush(b) ==
    LET headed  == [b.under EXCEPT !.header = CopyHeader(@, b.header)]
        started == IF b.status = 0 THEN headed ELSE PlainWriteHeader(headed, b.status)
        full    == IF b.body = <<>> THEN started
                   ELSE [PlainWriteHeader(started, OK) EXCEPT !.body = @ \o b.body]
    IN  IF b.passthrough THEN b
        ELSE [b EXCEPT !.passthrough = TRUE, !.under = full, !.body = <<>>]

SetHeader(b, c) ==
    IF b.passthrough THEN [b EXCEPT !.under.header = c] ELSE [b EXCEPT !.header = c]

\* Mutant: an event stream is recognised only by its status.
StreamsOnStatusOnly(s, c) == s < BadRequest

Streams(s, c) == s < BadRequest \/ c = "text/event-stream"

WriteHeader(b, s) ==
    CASE b.passthrough  -> [b EXCEPT !.under = PlainWriteHeader(@, s)]
      [] b.status # 0 /\ ~ b.passthrough -> b
      [] OTHER -> LET c == [b EXCEPT !.status = s]
                  IN  IF Streams(s, b.header) THEN Flush(c) ELSE c

Write(b, p) ==
    LET c == IF b.passthrough \/ b.status # 0 THEN b ELSE WriteHeader(b, OK)
    IN  IF c.passthrough THEN [c EXCEPT !.under = PlainWrite(@, p)]
        ELSE [c EXCEPT !.body = Append(@, p)]

\* Flush of the http.Flusher interface: nothing to push while buffering.
FlushCall(b) == IF b.passthrough THEN [b EXCEPT !.under = PlainFlush(@)] ELSE b

-----------------------------------------------------------------------------
(* The rewriting at the end of the handler *)

\* Mutant: every client error is rewritten.
ShouldRewriteAny4xx(b) ==
    ~ b.passthrough /\ b.status >= BadRequest /\ b.header = "text/plain"

shouldRewrite(b) ==
    ~ b.passthrough /\ b.status = BadRequest /\ b.header = "text/plain"

Mentions(body, text) == \E i \in DOMAIN body : body[i] = text

\* mapSDKError; NoCode when the text is no known error.
mapSDKError(body) ==
    CASE body # <<>> /\ Head(body) = "malformed" -> -32700
      [] Mentions(body, "unhandled")              -> -32601
      [] Mentions(body, "missing")                -> -32600
      [] OTHER                                    -> NoCode

\* extractID: the id of a request that parses and has one.
extractID(request) == IF request = "call" THEN "id" ELSE "null"

\* envelope, after next.ServeHTTP: the plain writer the client's answer is on.
Finish(b, request) ==
    LET code == mapSDKError(b.body) IN
    IF shouldRewrite(b) /\ code # NoCode
    THEN PlainEnd([b.under EXCEPT !.header = "application/json",
                                  !.status = OK, !.sent = "application/json",
                                  !.rpc = [code |-> code, id |-> extractID(request)]])
    ELSE PlainEnd(Flush(b).under)
=============================================================================
