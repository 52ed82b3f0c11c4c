----------------------------- MODULE MCResource -----------------------------
(* ResourceServer for TLC. *)
EXTENDS ResourceServer, TLC

Config(v, i, u, a) == [TokenValidator |-> v, Introspector |-> i,
                       AllowUnauthenticated |-> u, ExpectedAudience |-> a]

FullConfig == {Config(TRUE, TRUE, TRUE, TRUE)}

\* Both kinds of tokens, each kind alone, authentication switched off, and the
\* configuration nobody filled in.
SampleConfigs == FullConfig \cup
    {Config(TRUE, FALSE, TRUE, FALSE), Config(FALSE, TRUE, TRUE, FALSE),
     Config(FALSE, FALSE, TRUE, FALSE), Config(FALSE, FALSE, FALSE, FALSE)}

\* envelope.go says that "successful streaming responses are unaffected". A handler
\* that names text/event-stream and flushes before its first byte shows otherwise:
\* net/http sends status and headers, the buffering writer drops the Flush.
ASSUME FirstFlushIsLost ==
    LET stream == "text/event-stream" IN
    /\ PlainFlush([NewPlain EXCEPT !.header = stream]).status = OK
    /\ FlushCall(SetHeader(NewBuffered, stream)).under = NewPlain

\* Requests are interchangeable in every property.
Symmetry == Permutations(Requests)
=============================================================================
