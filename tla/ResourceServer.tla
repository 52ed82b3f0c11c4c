--------------------------- MODULE ResourceServer ---------------------------
(***************************************************************************)
(* The protected MCP endpoint as mcpkit.New composes it: the Origin        *)
(* allowlist (mcpmw/origin.go), bearer authentication with personal access *)
(* tokens and OAuth tokens (oauth/middleware.go, oauth/pat.go), the        *)
(* JSON-RPC envelope (mcpmw/envelope.go), and behind it the consumer's     *)
(* handler, guarded by RequireScopeForTarget when Guard is set.            *)
(*                                                                         *)
(* A request is a goroutine; a step ends where another goroutine can be    *)
(* observed: a call of the PAT service or of the introspector, a clock     *)
(* read, a write of the response. The usage recorder of an accepted PAT    *)
(* is a goroutine of its own, named after the request that started it.     *)
(***************************************************************************)
EXTENDS Envelope, FiniteSets

CONSTANTS
    Requests,             \* HTTP requests, each used once
    PATs, OAuthTokens,    \* the credentials clients hold
    NoToken, Garbage,     \* no usable Authorization header; a token nobody issued
    Targets,              \* what a PAT may be bound to
    Target,               \* what the requests act on
    NoTarget,             \* the boundary of a PAT with full access
    Configs,              \* the BearerConfigs mcpkit.New is given
    AllowLoopback,        \* Config.AllowLoopback
    Guard,                \* the handler sits behind RequireScopeForTarget
    MaxUsageRecorders,    \* slots of the usage limiter
    Expiry,               \* when every OAuth token expires
    MaxTime,              \* bound on the clock
    MaxChanges,           \* bound on the changes of credentials
    MaxCalls,             \* bound on the writer calls of a request's handler
    Reduced               \* TLC's runs leave interleavings out, see Alone and Quiet

Tokens == PATs \cup OAuthTokens

\* Which of its parts a BearerConfig sets. New fills the validator in from
\* Config.Validator: this is the configuration after that.
BearerConfig == [TokenValidator: BOOLEAN, Introspector: BOOLEAN,
                 AllowUnauthenticated: BOOLEAN, ExpectedAudience: BOOLEAN]

ASSUME ConstantsAssumption ==
    /\ PATs \cap OAuthTokens = {}
    /\ NoToken # Garbage /\ {NoToken, Garbage} \cap Tokens = {}
    /\ Target \in Targets /\ NoTarget \notin Targets
    /\ Configs \subseteq BearerConfig
    /\ {AllowLoopback, Guard, Reduced} \subseteq BOOLEAN
    /\ MaxUsageRecorders \in Nat \ {0}
    /\ {Expiry, MaxTime, MaxChanges} \subseteq Nat /\ MaxCalls \in Nat
ASSUME RequestsAssumption == IsFiniteSet(Requests)

VARIABLES
    cfg,        \* the BearerConfig, fixed when the server is built
    now,        \* what BearerConfig.Now returns
    changes,    \* changes of credentials so far
    cred,       \* the consumer's token rows, by token
    pc, token,  \* of a request: where it is, the token it presents
    body,       \* its method and body
    arrived,    \* when it arrived
    pat,        \* the PATEntity ValidateToken gave it
    ctx,        \* what the middleware put on its context
    writer,     \* its response writer
    calls,      \* writer calls its handler made
    limiter,    \* tokens in usageLimiter
    recorder,   \* whether the usage recorder it started is still running
    ran,        \* requests whose tool ran
    inForce,    \* history: the rows its token had since it arrived
    direct      \* history: its answer without the envelope (but see FlushDirect)

asked  == <<token, body>>
config == <<cfg, now, changes, cred>>
usage  == <<limiter, recorder>>
answer == <<writer, calls, direct>>
vars == <<cfg, now, changes, cred, pc, token, body, arrived, pat, ctx, writer, calls,
          limiter, recorder, ran, inForce, direct>>

\* A token row: whether the issuer still honours it, whether it carries the
\* guarded scope and the expected audience, whether it expires at all, and the
\* boundary of a PAT.
Row == [live: BOOLEAN, scope: BOOLEAN, audience: BOOLEAN, expires: BOOLEAN,
        boundary: Targets \cup {NoTarget}]
NoRow == [live |-> FALSE, scope |-> FALSE, audience |-> FALSE, expires |-> FALSE,
          boundary |-> NoTarget]

\* Audience and expiry tell OAuth tokens apart, the boundary PATs.
RowsFit(rows) == /\ \A t \in PATs : rows[t].audience /\ ~ rows[t].expires
                 /\ \A t \in OAuthTokens : rows[t].boundary = NoTarget

Origins == {"empty", "allowed", "loopback", "foreign"}
\* What the envelope makes of a request: not a POST, a body that cannot be read,
\* one with a JSON-RPC id, one without (or that does not parse).
Bodies  == {"get", "unreadable", "call", "noID"}

Context == [source: {"none", "disabled", "pat", "oauth2"}, scope: BOOLEAN,
            boundary: Targets \cup {NoTarget}]
NoContext == [source |-> "none", scope |-> FALSE, boundary |-> NoTarget]

Serving   == {"validate", "resolve", "introspect", "checkExpiry", "guard", "handler",
              "answered"}
Locations == {"idle", "done"} \cup Serving

Goto(r, l) == pc' = [pc EXCEPT ![r] = l]

Init ==
    /\ cfg \in Configs
    /\ now = 0 /\ changes = 0
    /\ cred \in [Tokens -> {row \in Row : row.live}] /\ RowsFit(cred)
    /\ \A t \in PATs : cred[t].scope
    /\ pc = [r \in Requests |-> "idle"]
    /\ token = [r \in Requests |-> NoToken]
    /\ body = [r \in Requests |-> "get"]
    /\ arrived = [r \in Requests |-> 0]
    /\ pat = [r \in Requests |-> NoRow]
    /\ ctx = [r \in Requests |-> NoContext]
    /\ writer = [r \in Requests |-> NewBuffered]
    /\ calls = [r \in Requests |-> 0]
    /\ limiter = 0
    /\ recorder = [r \in Requests |-> FALSE]
    /\ ran = {}
    /\ inForce = [r \in Requests |-> {}]
    /\ direct = [r \in Requests |-> NewPlain]

-----------------------------------------------------------------------------
(* Environment *)

Tick ==
    /\ now < MaxTime
    /\ now' = now + 1
    /\ UNCHANGED <<cfg, changes, cred, pc, asked, arrived, pat, ctx, answer, usage, ran,
                   inForce>>

\* The issuer revokes a token or gives a PAT another scope or boundary.
Change(t, row) ==
    /\ changes < MaxChanges
    /\ cred[t].live /\ row # cred[t]
    /\ t \in OAuthTokens => row = [cred[t] EXCEPT !.live = FALSE]
    /\ changes' = changes + 1
    /\ cred' = [cred EXCEPT ![t] = row] /\ RowsFit(cred')
    /\ inForce' = [r \in Requests |->
                      IF pc[r] \in Serving /\ token[r] = t
                      THEN inForce[r] \cup {row} ELSE inForce[r]]
    /\ UNCHANGED <<cfg, now, pc, asked, arrived, pat, ctx, answer, usage, ran>>

-----------------------------------------------------------------------------
(* Answers of the middleware, outside the envelope *)

\* A middleware refuses the request: it writes status and body itself.
Refuse(r, status, type) ==
    LET w == PlainEnd(PlainWrite(PlainWriteHeader([NewPlain EXCEPT !.header = type],
                                                  status), "other"))
    IN  /\ writer' = [writer EXCEPT ![r] = [Bypassed EXCEPT !.under = w]]
        /\ direct' = [direct EXCEPT ![r] = w]
        /\ Goto(r, "answered")
        /\ UNCHANGED <<body, calls>>

\* writeBearerChallenge with 401.
Challenge(r) == Refuse(r, Unauthorized, "application/json")

\* What a request asks and its handler writes is its own affair: when Reduced, all
\* of it is followed only where nothing else has happened yet and the OAuth rows
\* have what no handler sees, and one case of it elsewhere.
Alone(r) ==
    Reduced => /\ now = 0 /\ changes = 0
               /\ \A q \in Requests \ {r} : pc[q] = "idle"
               /\ \A t \in OAuthTokens : cred[t].audience /\ cred[t].expires

\* envelope: only a POST whose body can be read is buffered.
Enter(r) ==
    /\ \E b \in (IF Alone(r) THEN Bodies ELSE {"call"}) :
          /\ body' = [body EXCEPT ![r] = b]
          /\ writer' = [writer EXCEPT ![r] =
                           IF b \in {"call", "noID"} THEN NewBuffered ELSE Bypassed]
    /\ Goto(r, "guard")
    /\ UNCHANGED <<calls, direct>>

-----------------------------------------------------------------------------
(* Origin, then Bearer up to its first call *)

OriginAllowed(origin) ==
    origin \in {"empty", "allowed"} \/ (origin = "loopback" /\ AllowLoopback)

AuthDisabled ==
    ~ cfg.Introspector /\ ~ cfg.TokenValidator /\ cfg.AllowUnauthenticated

\* A token that is no valid PAT is tried as an OAuth token.
FallThrough(r) ==
    IF cfg.Introspector THEN Goto(r, "introspect") /\ UNCHANGED <<body, answer>>
    ELSE Challenge(r)

\* The order of Bearer's checks after the Origin check.
Authenticate(r, t) ==
    CASE AuthDisabled -> Enter(r)
      [] ~ AuthDisabled /\ t = NoToken -> Challenge(r)
      [] ~ AuthDisabled /\ t # NoToken /\ cfg.TokenValidator ->
             Goto(r, "validate") /\ UNCHANGED <<body, answer>>
      [] OTHER -> FallThrough(r)

Arrive(r, t, origin) ==
    /\ pc[r] = "idle"
    /\ token' = [token EXCEPT ![r] = t]
    /\ arrived' = [arrived EXCEPT ![r] = now]
    /\ inForce' = [inForce EXCEPT ![r] = IF t \in Tokens THEN {cred[t]} ELSE {}]
    /\ IF OriginAllowed(origin)
       THEN /\ Authenticate(r, t)
            /\ ctx' = IF AuthDisabled
                      THEN [ctx EXCEPT ![r] = [@ EXCEPT !.source = "disabled"]] ELSE ctx
       ELSE Refuse(r, Forbidden, "text/plain") /\ UNCHANGED ctx
    /\ UNCHANGED <<config, pat, usage, ran>>

-----------------------------------------------------------------------------
(* PATValidator.ValidateAndResolve: two calls of the consumer's service, each
   of which may fail *)

ServiceFails(r) ==
    /\ pc[r] \in {"validate", "resolve"}
    /\ FallThrough(r)
    /\ UNCHANGED <<config, token, arrived, pat, ctx, usage, ran, inForce>>

\* Mutants: the PAT is on the context before GetTokenScope has answered; the error
\* of ValidateToken is not looked at.
ValidateTokenEarlyContext(r) ==
    /\ pc[r] = "validate"
    /\ IF token[r] \in PATs /\ cred[token[r]].live
       THEN /\ pat' = [pat EXCEPT ![r] = cred[token[r]]]
            /\ ctx' = [ctx EXCEPT ![r] = [source |-> "pat", scope |-> cred[token[r]].scope,
                                          boundary |-> NoTarget]]
            /\ Goto(r, "resolve") /\ UNCHANGED <<body, answer>>
       ELSE FallThrough(r) /\ UNCHANGED <<pat, ctx>>
    /\ UNCHANGED <<config, token, arrived, usage, ran, inForce>>
ValidateTokenAnyway(r) ==
    /\ pc[r] = "validate"
    /\ IF token[r] \in PATs
       THEN /\ pat' = [pat EXCEPT ![r] = cred[token[r]]]
            /\ Goto(r, "resolve") /\ UNCHANGED <<body, answer>>
       ELSE FallThrough(r) /\ UNCHANGED pat
    /\ UNCHANGED <<config, token, arrived, ctx, usage, ran, inForce>>

ValidateToken(r) ==
    /\ pc[r] = "validate"
    /\ IF token[r] \in PATs /\ cred[token[r]].live
       THEN /\ pat' = [pat EXCEPT ![r] = cred[token[r]]]
            /\ Goto(r, "resolve") /\ UNCHANGED <<body, answer>>
       ELSE FallThrough(r) /\ UNCHANGED pat
    /\ UNCHANGED <<config, token, arrived, ctx, usage, ran, inForce>>

\* recordPATUsage: a full limiter drops the record.
recordPATUsage(r) ==
    IF limiter < MaxUsageRecorders
    THEN limiter' = limiter + 1 /\ recorder' = [recorder EXCEPT ![r] = TRUE]
    ELSE UNCHANGED usage

\* GetTokenScope, then contextWithPAT: the scopes of the first call with the
\* boundary of the second.
GetTokenScope(r) ==
    /\ pc[r] = "resolve"
    /\ recordPATUsage(r)
    /\ ctx' = [ctx EXCEPT ![r] = [source |-> "pat", scope |-> pat[r].scope,
                                  boundary |-> cred[token[r]].boundary]]
    /\ pat' = [pat EXCEPT ![r] = NoRow]
    /\ Enter(r)
    /\ UNCHANGED <<config, token, arrived, ran, inForce>>

\* Mutant: the slot is not given back.
RecordUsageKeepsSlot(r) ==
    /\ recorder[r]
    /\ recorder' = [recorder EXCEPT ![r] = FALSE]
    /\ UNCHANGED <<config, pc, asked, arrived, pat, ctx, answer, limiter, ran, inForce>>

\* The recorder's goroutine: RecordUsage returns, at the latest when its
\* context times out, and the deferred receive frees the slot.
RecordUsage(r) ==
    /\ recorder[r]
    /\ recorder' = [recorder EXCEPT ![r] = FALSE]
    /\ limiter' = limiter - 1
    /\ UNCHANGED <<config, pc, asked, arrived, pat, ctx, answer, ran, inForce>>

-----------------------------------------------------------------------------
(* OAuth tokens *)

\* IntrospectToken: the issuer still has the token. Whether it looks at the
\* expiry is its own affair; Bearer does so below.
IntrospectToken(r) ==
    /\ pc[r] = "introspect"
    /\ \/ Challenge(r) /\ UNCHANGED ctx
       \/ /\ token[r] \in OAuthTokens /\ cred[token[r]].live
          /\ cfg.ExpectedAudience => cred[token[r]].audience
          /\ ctx' = [ctx EXCEPT ![r] = [source |-> "oauth2",
                                        scope |-> cred[token[r]].scope,
                                        boundary |-> NoTarget]]
          /\ Goto(r, "checkExpiry") /\ UNCHANGED <<body, answer>>
    /\ UNCHANGED <<config, token, arrived, pat, usage, ran, inForce>>

\* !expiresAt.IsZero() && expiresAt.Before(cfg.Now())
CheckExpiry(r) ==
    /\ pc[r] = "checkExpiry"
    /\ IF cred[token[r]].expires /\ Expiry < now THEN Challenge(r) ELSE Enter(r)
    /\ UNCHANGED <<config, token, arrived, pat, ctx, usage, ran, inForce>>

-----------------------------------------------------------------------------
(* The guarded handler *)

patCoversTarget(c, t) == c.boundary \in {NoTarget, t}

\* RequireScope, then RequireScopeForTarget when the target resolves to t.
Allowed(c, t) ==
    \/ c.source = "disabled"
    \/ c.scope /\ (c.source = "pat" => patCoversTarget(c, t))

\* A call on the response writer, and the same call on a plain one.
Call(r, b, w) ==
    /\ writer' = [writer EXCEPT ![r] = b]
    /\ direct' = [direct EXCEPT ![r] = w]

\* The handler's tool runs.
Run(r) ==
    /\ Guard => Allowed(ctx[r], Target)
    /\ ran' = ran \cup {r}
    /\ UNCHANGED answer

\* writeBearerChallenge inside the envelope: 401 for a context without scopes; a
\* PAT is also refused when the target does not resolve.
Deny(r, status) ==
    /\ Guard /\ (ctx[r].source = "pat" \/ ~ Allowed(ctx[r], Target))
    /\ status = Unauthorized => ~ ctx[r].scope
    /\ Call(r, Write(WriteHeader(SetHeader(writer[r], "application/json"), status),
                     "other"),
               PlainWrite(PlainWriteHeader([direct[r] EXCEPT !.header = "application/json"],
                                           status), "other"))
    /\ calls' = [calls EXCEPT ![r] = MaxCalls]
    /\ UNCHANGED ran

Authorize(r) ==
    /\ pc[r] = "guard"
    /\ Run(r) \/ \E status \in {Unauthorized, Forbidden} : Deny(r, status)
    /\ Goto(r, "handler")
    /\ UNCHANGED <<config, token, body, arrived, pat, ctx, usage, inForce>>

Buffered(r) == body[r] \in {"call", "noID"}

\* What a Flush makes of the answer without the envelope. net/http takes a first
\* Flush for WriteHeader(200); a buffering writer loses it, and the answer goes on
\* as if it had not been made.
FlushDirect(d, buffered) == IF buffered /\ d.status = 0 THEN d ELSE PlainFlush(d)

\* Whatever the handler writes, in any order: headers may follow the status, and
\* a Flush may come first.
HandlerCall(r) ==
    /\ pc[r] = "handler" /\ calls[r] < MaxCalls /\ Alone(r)
    /\ calls' = [calls EXCEPT ![r] = @ + 1]
    /\ \/ \E c \in ContentTypes \ {NoType} :
             Call(r, SetHeader(writer[r], c), [direct[r] EXCEPT !.header = c])
       \/ \E s \in Statuses \ {Unauthorized} :
             Call(r, WriteHeader(writer[r], s), PlainWriteHeader(direct[r], s))
       \/ \E p \in Texts : Call(r, Write(writer[r], p), PlainWrite(direct[r], p))
       \/ Call(r, FlushCall(writer[r]), FlushDirect(direct[r], Buffered(r)))
    /\ UNCHANGED <<config, pc, asked, arrived, pat, ctx, usage, ran, inForce>>

\* The handler returns; envelope rewrites or flushes.
Return(r) ==
    /\ pc[r] = "handler"
    /\ Call(r, [Bypassed EXCEPT !.under = Finish(writer[r], body[r])], PlainEnd(direct[r]))
    /\ Goto(r, "answered")
    /\ UNCHANGED <<config, asked, arrived, pat, ctx, calls, usage, ran, inForce>>

\* The goroutine ends and its variables with it.
Close(r) ==
    /\ pc[r] = "answered"
    /\ Goto(r, "done")
    /\ token' = [token EXCEPT ![r] = NoToken]
    /\ body' = [body EXCEPT ![r] = "get"]
    /\ arrived' = [arrived EXCEPT ![r] = 0]
    /\ pat' = [pat EXCEPT ![r] = NoRow]
    /\ ctx' = [ctx EXCEPT ![r] = NoContext]
    /\ writer' = [writer EXCEPT ![r] = NewBuffered]
    /\ calls' = [calls EXCEPT ![r] = 0]
    /\ direct' = [direct EXCEPT ![r] = NewPlain]
    /\ ran' = ran \ {r}
    /\ inForce' = [inForce EXCEPT ![r] = {}]
    /\ UNCHANGED <<config, usage>>

-----------------------------------------------------------------------------
Authentication(r) ==
    \/ ValidateToken(r) \/ ServiceFails(r) \/ GetTokenScope(r)
    \/ IntrospectToken(r) \/ CheckExpiry(r)

Handler(r) == HandlerCall(r) \/ Return(r)

Serve(r) ==
    \/ Authentication(r) \/ Authorize(r) \/ Handler(r) \/ Close(r)

\* What a handler writes concerns nobody else: when Reduced, it runs to its end.
Quiet == Reduced => \A r \in Requests : pc[r] \notin {"handler", "answered"}

Next ==
    \/ Quiet /\ Tick
    \/ Quiet /\ \E t \in Tokens, row \in Row : Change(t, row)
    \/ Quiet /\ \E r \in Requests, t \in Tokens \cup {NoToken, Garbage}, o \in Origins :
          Arrive(r, t, o)
    \/ \E r \in Requests : /\ Quiet \/ pc[r] \in {"handler", "answered"}
                           /\ Serve(r)
    \/ Quiet /\ \E r \in Requests : RecordUsage(r)

Spec == Init /\ [][Next]_vars

-----------------------------------------------------------------------------
(* Properties *)

\* A request holds a context only between its authentication and its end.
ContextsFit ==
    \A r \in Requests :
        pc[r] \in {"idle", "validate", "resolve", "introspect", "done"} => ctx[r] = NoContext

\* The shape of the endpoint's state, and nobody known before they are authenticated.
TypeOK ==
    /\ cfg \in BearerConfig
    /\ now \in Nat /\ changes \in Nat
    /\ cred \in [Tokens -> Row]
    /\ pc \in [Requests -> Locations]
    /\ token \in [Requests -> Tokens \cup {NoToken, Garbage}]
    /\ body \in [Requests -> Bodies]
    /\ arrived \in [Requests -> Nat]
    /\ pat \in [Requests -> Row]
    /\ ctx \in [Requests -> Context]
    /\ ContextsFit
    /\ calls \in [Requests -> Nat]
    /\ limiter \in Nat
    /\ recorder \in [Requests -> BOOLEAN]
    /\ ran \subseteq Requests
    /\ inForce \in [Requests -> SUBSET Row]

\* Nothing runs on borrowed authority: a tool behind RequireScopeForTarget runs
\* only for a PAT that was honoured with the scope, and bound to nothing or to
\* the target, since the request arrived, or for an OAuth token honoured with
\* scope and audience that never expires or had not expired on arrival, whatever
\* is revoked, rebound or expires between the calls; without any, only when
\* configured so.
AuthorityWasGranted ==
    Guard => \A r \in ran :
        \/ /\ token[r] \in PATs
           /\ \E row \in inForce[r] : row.live /\ row.scope
           /\ \E row \in inForce[r] : row.boundary \in {NoTarget, Target}
        \/ /\ token[r] \in OAuthTokens
           /\ \E row \in inForce[r] : /\ row.live /\ row.scope
                                      /\ cfg.ExpectedAudience => row.audience
                                      /\ row.expires => arrived[r] <= Expiry
        \/ AuthDisabled

\* What the endpoint's protocol errors become, and nothing else: the client of a
\* finished request got what the handler and the middlewares wrote, unless a
\* POST met 400, text/plain and a known SDK error, which it got as a JSON-RPC
\* envelope with status 200 and its own id. An error answer that was buffered has
\* the headers as the handler left them, not as they were at its WriteHeader.
\* A Flush before the first status or byte is lost (FlushDirect): what follows is
\* the answer of a handler that did not make it.
EnvelopeTransparent ==
    \A r \in Requests : pc[r] = "answered" =>
        LET d == direct[r]
            code == mapSDKError(d.body)
            held == /\ Buffered(r)
                    /\ ~ (d.status < BadRequest \/ d.sent = "text/event-stream")
            rewritten == /\ held /\ r \in ran
                         /\ d.status = BadRequest /\ d.header = "text/plain"
                         /\ code # NoCode
            rpc == [code |-> code, id |-> IF body[r] = "call" THEN "id" ELSE "null"]
            a == writer[r].under
        IN  IF rewritten
            THEN /\ a.status = OK /\ a.sent = "application/json"
                 /\ a.body = <<>> /\ a.rpc = rpc
            ELSE a = IF held THEN [d EXCEPT !.sent = d.header] ELSE d

\* Once a successful or event-stream answer has a status or a first byte it is not
\* held back: at every moment from then on the client's connection is in the state
\* a plain writer would have it in. (FirstFlushIsLost: not before.)
StreamsUnheldOnceStarted ==
    \A r \in Requests :
        LET d == direct[r]
        IN  (d.status # 0 /\ (d.status < BadRequest \/ d.sent = "text/event-stream"))
                => writer[r].under = d

\* No slot of the usage limiter is lost or lent twice: it holds one entry per
\* recorder that is still running, and never more than its capacity.
SlotsAccounted ==
    /\ limiter = Cardinality({r \in Requests : recorder[r]})
    /\ limiter <= MaxUsageRecorders

\* What CHANGELOG.md says of BearerConfig.RequiredScopes, here the guarded scope:
\* Bearer itself enforces it.
RequiredScopesEnforced == \A r \in ran : AuthDisabled \/ ctx[r].scope
=============================================================================
