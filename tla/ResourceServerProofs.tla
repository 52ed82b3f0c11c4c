------------------------ MODULE ResourceServerProofs ------------------------
(***************************************************************************)
(* Proofs about the protected endpoint for any number of requests, tokens, *)
(* targets and limiter slots, any configuration, and any number of changes *)
(* of credentials: every slot of the usage limiter is accounted for, and   *)
(* no tool runs on authority its token never had.                          *)
(*                                                                         *)
(* The authority of a request is spread over its steps: a PAT's row is     *)
(* read twice, an OAuth token's row and the clock once each, and by the    *)
(* time the tool runs none of them need hold any more. The inductive       *)
(* invariant Traced therefore ties what a request carries, the PATEntity   *)
(* of the first call and then its context, to rows its token had since     *)
(* the request arrived.                                                    *)
(*                                                                         *)
(* The second half is about the JSON-RPC envelope, which holds back what a *)
(* handler writes until it knows whether to rewrite it. What the client    *)
(* finally has is compared with `direct`, what it would have had without   *)
(* the envelope; while the handler runs the two differ by what is buffered,*)
(* and the inductive invariant Mirrored says by exactly how much.          *)
(***************************************************************************)
EXTENDS ResourceServer, FiniteSetTheorems, TLAPS

\* What request r was granted, as AuthorityWasGranted states it.
Granted(r) ==
    \/ /\ token[r] \in PATs
       /\ \E row \in inForce[r] : row.live /\ row.scope
       /\ \E row \in inForce[r] : row.boundary \in {NoTarget, Target}
    \/ /\ token[r] \in OAuthTokens
       /\ \E row \in inForce[r] : /\ row.live /\ row.scope
                                  /\ cfg.ExpectedAudience => row.audience
                                  /\ row.expires => arrived[r] <= Expiry
    \/ AuthDisabled

\* The context of a PAT comes from two of its rows.
FromPAT(r) ==
    /\ token[r] \in PATs
    /\ \E row \in inForce[r] : row.live /\ row.scope = ctx[r].scope
    /\ \E row \in inForce[r] : row.boundary = ctx[r].boundary

\* The context of an OAuth token comes from one of its rows, all of which expire
\* or none.
FromOAuth(r) ==
    /\ token[r] \in OAuthTokens
    /\ \E row \in inForce[r] : /\ row.live /\ row.scope = ctx[r].scope
                               /\ cfg.ExpectedAudience => row.audience
                               /\ row.expires = cred[token[r]].expires

RequestTraced(r) ==
    /\ arrived[r] <= now
    /\ pc[r] \in {"idle", "validate", "resolve", "introspect"} => ~ recorder[r]
    /\ pc[r] \in {"idle", "validate", "resolve", "introspect", "done"} =>
          ctx[r] = NoContext
    /\ r \in ran => pc[r] \in {"handler", "answered"}
    /\ pc[r] \in Serving /\ token[r] \in Tokens => cred[token[r]] \in inForce[r]
    /\ pc[r] = "resolve" =>
          token[r] \in PATs /\ pat[r] \in inForce[r] /\ pat[r].live
    /\ pc[r] = "checkExpiry" => ctx[r].source = "oauth2" /\ FromOAuth(r)
    /\ pc[r] = "guard" =>
          \/ ctx[r].source = "disabled" /\ AuthDisabled
          \/ ctx[r].source = "pat" /\ FromPAT(r)
          \/ /\ ctx[r].source = "oauth2" /\ FromOAuth(r)
             /\ cred[token[r]].expires => arrived[r] <= Expiry

Traced == \A r \in Requests : RequestTraced(r)

Earned == Guard => \A r \in ran : Granted(r)

IInv == TypeOK /\ SlotsAccounted /\ Traced /\ Earned

-----------------------------------------------------------------------------
(* The usage limiter *)

Recorders == {r \in Requests : recorder[r]}

LEMMA RecordersFinite == IsFiniteSet(Recorders)
<1>1. Recorders \subseteq Requests
  BY DEF Recorders
<1> QED
  BY <1>1, FS_Subset, RequestsAssumption

\* Starting a recorder takes one slot, if there is one.
LEMMA StartRecorder ==
    ASSUME TypeOK, SlotsAccounted, NEW r \in Requests, recordPATUsage(r),
           ~ recorder[r]
    PROVE  limiter' \in Nat /\ recorder' \in [Requests -> BOOLEAN] /\ SlotsAccounted'
<1>1. CASE limiter < MaxUsageRecorders
  <2>1. limiter' = limiter + 1 /\ recorder' = [recorder EXCEPT ![r] = TRUE]
    BY <1>1 DEF recordPATUsage
  <2>2. Recorders' = Recorders \cup {r} /\ r \notin Recorders
    BY <2>1 DEF Recorders, TypeOK
  <2>3. Cardinality(Recorders') = Cardinality(Recorders) + 1
    BY <2>2, RecordersFinite, FS_AddElement
  <2> QED
    BY <1>1, <2>1, <2>3, ConstantsAssumption DEF TypeOK, SlotsAccounted, Recorders
<1>2. CASE ~ (limiter < MaxUsageRecorders)
  BY <1>2 DEF recordPATUsage, usage, TypeOK, SlotsAccounted
<1> QED
  BY <1>1, <1>2

\* A recorder that ends gives its slot back.
LEMMA EndRecorder ==
    ASSUME TypeOK, SlotsAccounted, NEW r \in Requests, RecordUsage(r)
    PROVE  limiter' \in Nat /\ recorder' \in [Requests -> BOOLEAN] /\ SlotsAccounted'
<1>1. recorder[r] /\ limiter' = limiter - 1 /\ recorder' = [recorder EXCEPT ![r] = FALSE]
  BY DEF RecordUsage
<1>2. r \in Recorders /\ Recorders' = Recorders \ {r}
  BY <1>1 DEF Recorders, TypeOK
<1>3. /\ Cardinality(Recorders) \in Nat
      /\ Cardinality(Recorders') = Cardinality(Recorders) - 1
  BY <1>2, RecordersFinite, FS_RemoveElement, FS_CardinalityType
<1>4. Cardinality(Recorders') \in Nat
  <2>1. IsFiniteSet(Recorders')
    BY <1>2, RecordersFinite, FS_Subset
  <2> QED
    BY <2>1, FS_CardinalityType
<1> QED
  BY <1>1, <1>3, <1>4, ConstantsAssumption DEF TypeOK, SlotsAccounted, Recorders

-----------------------------------------------------------------------------
(* Types *)

LEMMA InitHolds == Init => IInv
<1> SUFFICES ASSUME Init PROVE IInv
  OBVIOUS
<1> USE DEF Init
<1>1. TypeOK
  BY ConstantsAssumption
     DEF TypeOK, ContextsFit, Row, NoRow, Context, NoContext, Locations, Bodies, BearerConfig
<1>2. SlotsAccounted
  <2>1. {r \in Requests : recorder[r]} = {}
    OBVIOUS
  <2>2. Cardinality({r \in Requests : recorder[r]}) = 0
    BY <2>1, FS_EmptySet
  <2> QED
    BY <2>2, ConstantsAssumption DEF SlotsAccounted
<1>3. Traced
  BY DEF Traced, RequestTraced, Serving
<1> QED
  BY <1>1, <1>2, <1>3 DEF IInv, Earned

\* A request's entry in a table is replaced by one of the same type.
LEMMA UpdateType ==
    ASSUME NEW S, NEW f \in [Requests -> S], NEW r \in Requests, NEW x \in S
    PROVE  [f EXCEPT ![r] = x] \in [Requests -> S]
OBVIOUS

\* The helpers that answer a request or pass it on.
LEMMA RefuseTypes ==
    ASSUME TypeOK, NEW r \in Requests, NEW status, NEW type, Refuse(r, status, type)
    PROVE  /\ pc' = [pc EXCEPT ![r] = "answered"] /\ pc' \in [Requests -> Locations]
           /\ body' \in [Requests -> Bodies] /\ calls' \in [Requests -> Nat]
BY DEF TypeOK, Refuse, Goto, Locations, Serving

LEMMA EnterTypes ==
    ASSUME TypeOK, NEW r \in Requests, Enter(r)
    PROVE  /\ pc' = [pc EXCEPT ![r] = "guard"] /\ pc' \in [Requests -> Locations]
           /\ body' \in [Requests -> Bodies] /\ calls' \in [Requests -> Nat]
BY DEF TypeOK, Enter, Goto, Locations, Serving, Bodies

LEMMA FallThroughTypes ==
    ASSUME TypeOK, NEW r \in Requests, FallThrough(r)
    PROVE  /\ pc' \in {[pc EXCEPT ![r] = "answered"], [pc EXCEPT ![r] = "introspect"]}
           /\ pc' \in [Requests -> Locations]
           /\ body' \in [Requests -> Bodies] /\ calls' \in [Requests -> Nat]
<1>1. CASE cfg.Introspector
  BY <1>1 DEF TypeOK, FallThrough, Goto, Locations, Serving, answer
<1>2. CASE ~ cfg.Introspector
  BY <1>2, RefuseTypes DEF FallThrough, Challenge
<1> QED
  BY <1>1, <1>2

LEMMA AuthenticateTypes ==
    ASSUME TypeOK, NEW r \in Requests, NEW t, Authenticate(r, t)
    PROVE  /\ pc' \in [Requests -> Locations]
           /\ body' \in [Requests -> Bodies] /\ calls' \in [Requests -> Nat]
           /\ AuthDisabled => pc' = [pc EXCEPT ![r] = "guard"]
           /\ ~ AuthDisabled => pc' \in {[pc EXCEPT ![r] = l] :
                                            l \in {"answered", "introspect", "validate"}}
<1>1. CASE AuthDisabled
  BY <1>1, EnterTypes DEF Authenticate
<1>2. CASE ~ AuthDisabled /\ t = NoToken
  BY <1>2, RefuseTypes DEF Authenticate, Challenge
<1>3. CASE ~ AuthDisabled /\ t # NoToken /\ cfg.TokenValidator
  BY <1>3 DEF Authenticate, TypeOK, Goto, Locations, Serving, answer
<1>4. CASE ~ AuthDisabled /\ t # NoToken /\ ~ cfg.TokenValidator
  BY <1>4, FallThroughTypes DEF Authenticate
<1> QED
  BY <1>1, <1>2, <1>3, <1>4

-----------------------------------------------------------------------------
(* Where authority comes from *)

\* A request a step leaves alone keeps its trace; rows may join those in force.
LEMMA OthersTraced ==
    ASSUME NEW q \in Requests, RequestTraced(q),
           cfg' = cfg, arrived[q] <= now => arrived[q] <= now',
           pc'[q] = pc[q], token'[q] = token[q], arrived'[q] = arrived[q],
           pat'[q] = pat[q], ctx'[q] = ctx[q], recorder[q] \/ ~ recorder'[q],
           q \in ran' => q \in ran, inForce[q] \subseteq inForce'[q],
           pc[q] \in Serving /\ token[q] \in Tokens => cred'[token[q]] \in inForce'[q],
           token[q] \in OAuthTokens => cred'[token[q]].expires = cred[token[q]].expires
    PROVE  RequestTraced(q)'
<1> USE DEF RequestTraced
<1>1. FromPAT(q) => FromPAT(q)'
  BY DEF FromPAT
<1>2. FromOAuth(q) => FromOAuth(q)'
  BY DEF FromOAuth
<1>3. AuthDisabled => AuthDisabled'
  BY DEF AuthDisabled
<1>4. FromOAuth(q) => cred'[token'[q]].expires = cred[token[q]].expires
  BY DEF FromOAuth
<1> QED
  BY <1>1, <1>2, <1>3, <1>4

LEMMA TracedStep ==
    ASSUME IInv, [Next]_vars
    PROVE  Traced'
<1> USE DEF IInv
<1> SUFFICES ASSUME NEW q \in Requests PROVE RequestTraced(q)'
  BY DEF Traced
<1>q. RequestTraced(q) /\ now \in Nat /\ arrived[q] \in Nat
  BY DEF Traced, TypeOK
<1>0. ASSUME UNCHANGED vars
      PROVE  RequestTraced(q)'
  BY <1>0, <1>q, OthersTraced DEF vars, RequestTraced
<1>1. ASSUME Tick
      PROVE  RequestTraced(q)'
  BY <1>1, <1>q, OthersTraced DEF Tick, RequestTraced, asked, answer, usage
<1>2. ASSUME NEW t \in Tokens, NEW row \in Row, Change(t, row)
      PROVE  RequestTraced(q)'
  <2>1. inForce[q] \subseteq inForce'[q]
    BY <1>2 DEF Change
  <2>2. pc[q] \in Serving /\ token[q] \in Tokens => cred'[token[q]] \in inForce'[q]
    BY <1>2, <1>q DEF Change, TypeOK, RequestTraced
  <2>3. token[q] \in OAuthTokens => cred'[token[q]].expires = cred[token[q]].expires
    BY <1>2 DEF Change, TypeOK, Row, Tokens
  <2> QED
    BY <1>2, <1>q, <2>1, <2>2, <2>3, OthersTraced DEF Change, asked, answer, usage
<1>3. ASSUME NEW r \in Requests, NEW t \in Tokens \cup {NoToken, Garbage},
             NEW o \in Origins, Arrive(r, t, o)
      PROVE  RequestTraced(q)'
  <2>1. CASE q = r
    <3>1. \/ /\ AuthDisabled /\ pc'[r] = "guard" /\ ctx'[r].source = "disabled"
          \/ /\ pc'[r] \in {"answered", "introspect", "validate"} /\ ctx'[r] = ctx[r]
      <4>1. CASE OriginAllowed(o) /\ AuthDisabled
        BY <1>3, <4>1, AuthenticateTypes DEF Arrive, TypeOK, Context
      <4>2. CASE OriginAllowed(o) /\ ~ AuthDisabled
        BY <1>3, <4>2, AuthenticateTypes DEF Arrive, TypeOK
      <4>3. CASE ~ OriginAllowed(o)
        BY <1>3, <4>3, RefuseTypes DEF Arrive, TypeOK
      <4> QED
        BY <4>1, <4>2, <4>3
    <3>2. ctx[r] = NoContext /\ ~ recorder[r] /\ r \notin ran
      BY <1>3, <1>q, <2>1 DEF Arrive, RequestTraced
    <3>3. arrived'[r] = now /\ token'[r] = t
          /\ (t \in Tokens => cred'[t] \in inForce'[r])
      BY <1>3 DEF Arrive, TypeOK, config
    <3>4. now' = now /\ cfg' = cfg /\ recorder' = recorder /\ ran' = ran
      BY <1>3 DEF Arrive, config, usage
    <3> QED
      BY <1>q, <2>1, <3>1, <3>2, <3>3, <3>4 DEF RequestTraced, AuthDisabled
  <2>2. CASE q # r
    <3>1. pc'[q] = pc[q] /\ ctx'[q] = ctx[q]
      <4>1. CASE OriginAllowed(o)
        BY <1>3, <4>1, <2>2, AuthenticateTypes DEF Arrive, TypeOK
      <4>2. CASE ~ OriginAllowed(o)
        BY <1>3, <4>2, <2>2, RefuseTypes DEF Arrive, TypeOK
      <4> QED
        BY <4>1, <4>2
    <3> QED
      BY <1>3, <1>q, <2>2, <3>1, OthersTraced DEF Arrive, TypeOK, config, usage, RequestTraced
  <2> QED
    BY <2>1, <2>2
<1>4. ASSUME NEW r \in Requests, ServiceFails(r)
      PROVE  RequestTraced(q)'
  <2>1. CASE q = r
    BY <1>4, <1>q, <2>1, FallThroughTypes
       DEF ServiceFails, RequestTraced, TypeOK, config, usage, Serving
  <2>2. CASE q # r
    BY <1>4, <1>q, <2>2, FallThroughTypes, OthersTraced
       DEF ServiceFails, RequestTraced, TypeOK, config, usage
  <2> QED
    BY <2>1, <2>2
<1>5. ASSUME NEW r \in Requests, ValidateToken(r)
      PROVE  RequestTraced(q)'
  <2>1. CASE q = r /\ token[r] \in PATs /\ cred[token[r]].live
    BY <1>5, <1>q, <2>1
       DEF ValidateToken, RequestTraced, TypeOK, Goto, config, usage, Serving, Tokens
  <2>2. CASE q = r /\ ~ (token[r] \in PATs /\ cred[token[r]].live)
    BY <1>5, <1>q, <2>2, FallThroughTypes
       DEF ValidateToken, RequestTraced, TypeOK, config, usage, Serving
  <2>3. CASE q # r
    <3>1. pc'[q] = pc[q] /\ pat'[q] = pat[q]
      BY <1>5, <2>3, FallThroughTypes DEF ValidateToken, TypeOK, Goto
    <3> QED
      BY <1>5, <1>q, <2>3, <3>1, OthersTraced
         DEF ValidateToken, RequestTraced, TypeOK, config, usage
  <2> QED
    BY <2>1, <2>2, <2>3
<1>6. ASSUME NEW r \in Requests, GetTokenScope(r)
      PROVE  RequestTraced(q)'
  <2>1. CASE q = r
    <3>1. pc'[r] = "guard"
      BY <1>6, EnterTypes DEF GetTokenScope, TypeOK
    <3>2. token[r] \in PATs /\ pat[r] \in inForce[r] /\ pat[r].live
          /\ cred[token[r]] \in inForce[r]
      BY <1>6, <1>q, <2>1 DEF GetTokenScope, RequestTraced, Serving, Tokens
    <3>3. ctx'[r].source = "pat" /\ FromPAT(r)'
      BY <1>6, <3>2 DEF GetTokenScope, FromPAT, TypeOK
    <3> QED
      BY <1>6, <1>q, <2>1, <3>1, <3>2, <3>3
         DEF GetTokenScope, RequestTraced, TypeOK, config, Serving
  <2>2. CASE q # r
    <3>1. pc'[q] = pc[q] /\ recorder'[q] = recorder[q]
      BY <1>6, <2>2, EnterTypes DEF GetTokenScope, recordPATUsage, usage, TypeOK
    <3> QED
      BY <1>6, <1>q, <2>2, <3>1, OthersTraced DEF GetTokenScope, RequestTraced, TypeOK, config
  <2> QED
    BY <2>1, <2>2
<1>7. ASSUME NEW r \in Requests, IntrospectToken(r)
      PROVE  RequestTraced(q)'
  <2>1. CASE q = r /\ Challenge(r) /\ UNCHANGED ctx
    BY <1>7, <1>q, <2>1, RefuseTypes
       DEF IntrospectToken, Challenge, RequestTraced, TypeOK, config, usage, Serving
  <2>2. CASE q = r /\ ~ (Challenge(r) /\ UNCHANGED ctx)
    <3>1. /\ pc'[r] = "checkExpiry" /\ token[r] \in OAuthTokens /\ cred[token[r]].live
          /\ cfg.ExpectedAudience => cred[token[r]].audience
          /\ ctx'[r].source = "oauth2" /\ ctx'[r].scope = cred[token[r]].scope
      BY <1>7, <2>2 DEF IntrospectToken, Goto, TypeOK
    <3>2. cred[token[r]] \in inForce[r]
      BY <1>7, <1>q, <2>2, <3>1 DEF IntrospectToken, RequestTraced, Serving, Tokens
    <3>3. FromOAuth(r)'
      BY <1>7, <3>1, <3>2 DEF IntrospectToken, FromOAuth, config
    <3> QED
      BY <1>7, <1>q, <2>2, <3>1, <3>2, <3>3
         DEF IntrospectToken, RequestTraced, TypeOK, config, usage
  <2>3. CASE q # r
    <3>1. pc'[q] = pc[q] /\ ctx'[q] = ctx[q]
      BY <1>7, <2>3, RefuseTypes DEF IntrospectToken, Challenge, TypeOK, Goto
    <3> QED
      BY <1>7, <1>q, <2>3, <3>1, OthersTraced
         DEF IntrospectToken, RequestTraced, TypeOK, config, usage
  <2> QED
    BY <2>1, <2>2, <2>3
<1>8. ASSUME NEW r \in Requests, CheckExpiry(r)
      PROVE  RequestTraced(q)'
  <2>1. CASE q = r
    <3>1. pc'[r] \in {"answered", "guard"} /\ (pc'[r] = "guard" /\ cred[token[r]].expires => now <= Expiry)
      BY <1>8, <1>q, RefuseTypes, EnterTypes, ConstantsAssumption
         DEF CheckExpiry, Challenge, TypeOK
    <3>2. ctx[r].source = "oauth2" /\ FromOAuth(r)
      BY <1>8, <1>q, <2>1 DEF CheckExpiry, RequestTraced
    <3>3. FromOAuth(r)'
      BY <1>8, <3>2 DEF CheckExpiry, FromOAuth, config
    <3> QED
      BY <1>8, <1>q, <2>1, <3>1, <3>2, <3>3, ConstantsAssumption
         DEF CheckExpiry, RequestTraced, config, usage, Serving
  <2>2. CASE q # r
    <3>1. pc'[q] = pc[q]
      BY <1>8, <2>2, RefuseTypes, EnterTypes DEF CheckExpiry, Challenge, TypeOK
    <3> QED
      BY <1>8, <1>q, <2>2, <3>1, OthersTraced DEF CheckExpiry, RequestTraced, config, usage
  <2> QED
    BY <2>1, <2>2
<1>9. ASSUME NEW r \in Requests, Authorize(r)
      PROVE  RequestTraced(q)'
  <2>0. ran' \subseteq ran \cup {r}
    BY <1>9 DEF Authorize, Run, Deny
  <2>1. CASE q = r
    BY <1>9, <1>q, <2>1 DEF Authorize, Goto, RequestTraced, TypeOK, config, usage, Serving
  <2>2. CASE q # r
    BY <1>9, <1>q, <2>0, <2>2, OthersTraced
       DEF Authorize, Goto, RequestTraced, TypeOK, config, usage
  <2> QED
    BY <2>1, <2>2
<1>10. ASSUME NEW r \in Requests, HandlerCall(r)
       PROVE  RequestTraced(q)'
  BY <1>10, <1>q, OthersTraced DEF HandlerCall, RequestTraced, config, usage, asked
<1>11. ASSUME NEW r \in Requests, Return(r)
       PROVE  RequestTraced(q)'
  <2>1. CASE q = r
    BY <1>11, <1>q, <2>1
       DEF Return, Goto, RequestTraced, TypeOK, config, usage, asked, Serving
  <2>2. CASE q # r
    BY <1>11, <1>q, <2>2, OthersTraced
       DEF Return, Goto, RequestTraced, TypeOK, config, usage, asked
  <2> QED
    BY <2>1, <2>2
<1>12. ASSUME NEW r \in Requests, Close(r)
       PROVE  RequestTraced(q)'
  <2>1. CASE q = r
    BY <1>12, <1>q, <2>1
       DEF Close, Goto, RequestTraced, TypeOK, config, usage, Serving
  <2>2. CASE q # r
    BY <1>12, <1>q, <2>2, OthersTraced DEF Close, Goto, RequestTraced, TypeOK, config, usage
  <2> QED
    BY <2>1, <2>2
<1>13. ASSUME NEW r \in Requests, RecordUsage(r)
       PROVE  RequestTraced(q)'
  <2>1. recorder[q] \/ ~ recorder'[q]
    BY <1>13 DEF RecordUsage, TypeOK
  <2> QED
    BY <1>13, <1>q, <2>1, OthersTraced DEF RecordUsage, RequestTraced, config, asked, answer
<1> QED
  BY <1>0, <1>1, <1>2, <1>3, <1>4, <1>5, <1>6, <1>7, <1>8, <1>9, <1>10, <1>11, <1>12,
     <1>13 DEF Next, Serve, Authentication, Handler

\* Every step keeps the types and the slots.
LEMMA TypeStep ==
    ASSUME IInv, [Next]_vars
    PROVE  TypeOK' /\ SlotsAccounted'
<1> USE DEF IInv
<1>t. ContextsFit'
  BY TracedStep DEF Traced, RequestTraced, ContextsFit
<1> USE <1>t
<1>0. ASSUME UNCHANGED vars
      PROVE  TypeOK' /\ SlotsAccounted'
  BY <1>0 DEF vars, TypeOK, SlotsAccounted
<1>1. ASSUME Tick
      PROVE  TypeOK' /\ SlotsAccounted'
  BY <1>1 DEF Tick, TypeOK, SlotsAccounted, usage, answer, asked
<1>2. ASSUME NEW t \in Tokens, NEW row \in Row, Change(t, row)
      PROVE  TypeOK' /\ SlotsAccounted'
  BY <1>2 DEF Change, TypeOK, SlotsAccounted, usage, answer, asked
<1>3. ASSUME NEW r \in Requests, NEW t \in Tokens \cup {NoToken, Garbage},
             NEW o \in Origins, Arrive(r, t, o)
      PROVE  TypeOK' /\ SlotsAccounted'
  <2>1. /\ pc' \in [Requests -> Locations]
        /\ body' \in [Requests -> Bodies] /\ calls' \in [Requests -> Nat]
    BY <1>3, AuthenticateTypes, RefuseTypes DEF Arrive
  <2>2. ctx' \in [Requests -> Context]
    BY <1>3 DEF Arrive, TypeOK, Context
  <2>3. inForce' \in [Requests -> SUBSET Row]
    BY <1>3 DEF Arrive, TypeOK
  <2> QED
    BY <1>3, <2>1, <2>2, <2>3 DEF Arrive, TypeOK, SlotsAccounted, config, usage
<1>4. ASSUME NEW r \in Requests, ServiceFails(r)
      PROVE  TypeOK' /\ SlotsAccounted'
  BY <1>4, FallThroughTypes DEF ServiceFails, TypeOK, SlotsAccounted, config, usage
<1>5. ASSUME NEW r \in Requests, ValidateToken(r)
      PROVE  TypeOK' /\ SlotsAccounted'
  <2>1. /\ pc' \in [Requests -> Locations] /\ body' \in [Requests -> Bodies]
        /\ calls' \in [Requests -> Nat] /\ pat' \in [Requests -> Row]
    <3>1. CASE token[r] \in PATs /\ cred[token[r]].live
      BY <1>5, <3>1 DEF ValidateToken, TypeOK, Goto, Locations, Serving, answer, Tokens
    <3>2. CASE ~ (token[r] \in PATs /\ cred[token[r]].live)
      BY <1>5, <3>2, FallThroughTypes DEF ValidateToken, TypeOK
    <3> QED
      BY <3>1, <3>2
  <2> QED
    BY <1>5, <2>1 DEF ValidateToken, TypeOK, SlotsAccounted, config, usage
<1>6. ASSUME NEW r \in Requests, GetTokenScope(r)
      PROVE  TypeOK' /\ SlotsAccounted'
  <2>1. ~ recorder[r]
    BY <1>6 DEF GetTokenScope, Traced, RequestTraced
  <2>2. limiter' \in Nat /\ recorder' \in [Requests -> BOOLEAN] /\ SlotsAccounted'
    BY <1>6, <2>1, StartRecorder DEF GetTokenScope
  <2>3. /\ pc' \in [Requests -> Locations]
        /\ body' \in [Requests -> Bodies] /\ calls' \in [Requests -> Nat]
    BY <1>6, EnterTypes DEF GetTokenScope
  <2>4. ctx' \in [Requests -> Context] /\ pat' \in [Requests -> Row]
    <3>1. token[r] \in Tokens
      BY <1>6 DEF GetTokenScope, Traced, RequestTraced, Tokens
    <3>2. /\ pat[r].scope \in BOOLEAN
          /\ cred[token[r]].boundary \in Targets \cup {NoTarget}
      BY <3>1 DEF TypeOK, Row
    <3>3. [source |-> "pat", scope |-> pat[r].scope,
           boundary |-> cred[token[r]].boundary] \in Context
      BY <3>2 DEF Context
    <3>4. NoRow \in Row
      BY DEF NoRow, Row
    <3>5. /\ ctx' = [ctx EXCEPT ![r] = [source |-> "pat", scope |-> pat[r].scope,
                                        boundary |-> cred[token[r]].boundary]]
          /\ pat' = [pat EXCEPT ![r] = NoRow]
      BY <1>6 DEF GetTokenScope
    <3>6. ctx \in [Requests -> Context] /\ pat \in [Requests -> Row]
      BY DEF TypeOK
    <3>7. ctx' \in [Requests -> Context]
      BY <3>3, <3>5, <3>6, UpdateType, Zenon
    <3> QED
      BY <3>4, <3>5, <3>6, <3>7, UpdateType, Zenon
  <2> QED
    BY <1>6, <2>2, <2>3, <2>4 DEF GetTokenScope, TypeOK, config
<1>7. ASSUME NEW r \in Requests, IntrospectToken(r)
      PROVE  TypeOK' /\ SlotsAccounted'
  <2>1. /\ pc' \in [Requests -> Locations] /\ body' \in [Requests -> Bodies]
        /\ calls' \in [Requests -> Nat] /\ ctx' \in [Requests -> Context]
    <3>1. CASE Challenge(r) /\ UNCHANGED ctx
      BY <3>1, RefuseTypes DEF Challenge, TypeOK
    <3>2. CASE ~ (Challenge(r) /\ UNCHANGED ctx)
      <4>1. /\ pc' = [pc EXCEPT ![r] = "checkExpiry"] /\ UNCHANGED <<body, calls>>
            /\ token[r] \in Tokens
            /\ ctx' = [ctx EXCEPT ![r] = [source |-> "oauth2",
                                          scope |-> cred[token[r]].scope,
                                          boundary |-> NoTarget]]
        BY <1>7, <3>2 DEF IntrospectToken, Goto, answer, Tokens
      <4>2. cred[token[r]].scope \in BOOLEAN
        BY <4>1 DEF TypeOK, Row
      <4>3. [source |-> "oauth2", scope |-> cred[token[r]].scope,
             boundary |-> NoTarget] \in Context
        BY <4>2 DEF Context
      <4>4. ctx \in [Requests -> Context]
        BY DEF TypeOK
      <4>5. ctx' \in [Requests -> Context]
        BY <4>1, <4>3, <4>4, UpdateType, Zenon
      <4> QED
        BY <4>1, <4>5 DEF TypeOK, Locations, Serving
    <3> QED
      BY <3>1, <3>2
  <2> QED
    BY <1>7, <2>1 DEF IntrospectToken, TypeOK, SlotsAccounted, config, usage
<1>8. ASSUME NEW r \in Requests, CheckExpiry(r)
      PROVE  TypeOK' /\ SlotsAccounted'
  <2>1. /\ pc' \in [Requests -> Locations]
        /\ body' \in [Requests -> Bodies] /\ calls' \in [Requests -> Nat]
    BY <1>8, RefuseTypes, EnterTypes DEF CheckExpiry, Challenge
  <2> QED
    BY <1>8, <2>1 DEF CheckExpiry, TypeOK, SlotsAccounted, config, usage
<1>9. ASSUME NEW r \in Requests, Authorize(r)
      PROVE  TypeOK' /\ SlotsAccounted'
  <2>1. calls' \in [Requests -> Nat] /\ ran' \subseteq Requests
    BY <1>9, ConstantsAssumption DEF Authorize, Run, Deny, TypeOK, answer
  <2> QED
    BY <1>9, <2>1 DEF Authorize, Goto, TypeOK, Locations, Serving, SlotsAccounted,
                      config, usage
<1>10. ASSUME NEW r \in Requests, HandlerCall(r)
       PROVE  TypeOK' /\ SlotsAccounted'
  BY <1>10 DEF HandlerCall, TypeOK, SlotsAccounted, config, usage, asked
<1>11. ASSUME NEW r \in Requests, Return(r)
       PROVE  TypeOK' /\ SlotsAccounted'
  BY <1>11 DEF Return, Goto, TypeOK, Locations, Serving, SlotsAccounted, config, usage,
               asked
<1>12. ASSUME NEW r \in Requests, Close(r)
       PROVE  TypeOK' /\ SlotsAccounted'
  BY <1>12 DEF Close, Goto, TypeOK, Locations, Bodies, Row, NoRow, Context, NoContext,
               SlotsAccounted, config, usage
<1>13. ASSUME NEW r \in Requests, RecordUsage(r)
       PROVE  TypeOK' /\ SlotsAccounted'
  BY <1>13, EndRecorder DEF RecordUsage, TypeOK, config, asked, answer
<1> QED
  BY <1>0, <1>1, <1>2, <1>3, <1>4, <1>5, <1>6, <1>7, <1>8, <1>9, <1>10, <1>11, <1>12,
     <1>13 DEF Next, Serve, Authentication, Handler

\* What was granted stays granted while the request's token, arrival and the
\* configuration stay and the rows in force only grow.
LEMMA GrantedStays ==
    ASSUME NEW r, Granted(r), cfg' = cfg, token'[r] = token[r],
           arrived'[r] = arrived[r], inForce[r] \subseteq inForce'[r]
    PROVE  Granted(r)'
BY DEF Granted, AuthDisabled

\* The guard lets a tool run only for a context that was earned.
LEMMA GuardGrants ==
    ASSUME NEW r \in Requests, RequestTraced(r), ctx[r] \in Context, pc[r] = "guard",
           Allowed(ctx[r], Target)
    PROVE  Granted(r)
<1>1. CASE ctx[r].source = "disabled"
  BY <1>1 DEF RequestTraced, Granted
<1>2. CASE ctx[r].source = "pat"
  <2>1. ctx[r].scope /\ ctx[r].boundary \in {NoTarget, Target} /\ FromPAT(r)
    BY <1>2 DEF RequestTraced, Allowed, patCoversTarget
  <2> QED
    BY <2>1 DEF FromPAT, Granted
<1>3. CASE ctx[r].source = "oauth2"
  <2>1. ctx[r].scope /\ FromOAuth(r) /\ (cred[token[r]].expires => arrived[r] <= Expiry)
    BY <1>3 DEF RequestTraced, Allowed
  <2> QED
    BY <2>1 DEF FromOAuth, Granted
<1> QED
  BY <1>1, <1>2, <1>3 DEF RequestTraced

LEMMA EarnedStep ==
    ASSUME IInv, [Next]_vars
    PROVE  Earned'
<1> USE DEF IInv
<1> SUFFICES ASSUME Guard, NEW q \in ran' PROVE Granted(q)'
  BY DEF Earned
<1>q. q \in ran => Granted(q) /\ q \in Requests /\ pc[q] \in {"handler", "answered"}
  BY DEF Earned, Traced, RequestTraced, TypeOK
<1>0. ASSUME UNCHANGED vars
      PROVE  Granted(q)'
  BY <1>0, <1>q, GrantedStays DEF vars
<1>1. ASSUME Tick
      PROVE  Granted(q)'
  BY <1>1, <1>q, GrantedStays DEF Tick, asked
<1>2. ASSUME NEW t \in Tokens, NEW row \in Row, Change(t, row)
      PROVE  Granted(q)'
  BY <1>2, <1>q, GrantedStays DEF Change, asked
<1>3. ASSUME NEW r \in Requests, NEW t \in Tokens \cup {NoToken, Garbage},
             NEW o \in Origins, Arrive(r, t, o)
      PROVE  Granted(q)'
  <2>1. q \in ran /\ q # r /\ cfg' = cfg
    BY <1>3, <1>q DEF Arrive, config
  <2>2. /\ token' = [token EXCEPT ![r] = t]
        /\ arrived' = [arrived EXCEPT ![r] = now]
        /\ inForce' = [inForce EXCEPT ![r] = IF t \in Tokens THEN {cred[t]} ELSE {}]
    BY <1>3 DEF Arrive
  <2> QED
    BY <1>q, <2>1, <2>2, GrantedStays DEF TypeOK
<1>4. ASSUME NEW r \in Requests, Authentication(r)
      PROVE  Granted(q)'
  <2>1. UNCHANGED <<config, token, arrived, ran, inForce>>
    BY <1>4 DEF Authentication, ServiceFails, ValidateToken, GetTokenScope,
                IntrospectToken, CheckExpiry
  <2> QED
    BY <1>q, <2>1, GrantedStays DEF config
<1>5. ASSUME NEW r \in Requests, Authorize(r)
      PROVE  Granted(q)'
  <2>1. UNCHANGED <<config, token, arrived, inForce>> /\ pc[r] = "guard"
    BY <1>5 DEF Authorize
  <2>2. Granted(q)
    <3>1. CASE q \in ran
      BY <3>1, <1>q
    <3>2. CASE q \notin ran
      <4>1. q = r /\ Allowed(ctx[r], Target)
        BY <1>5, <3>2 DEF Authorize, Run, Deny
      <4>2. RequestTraced(r) /\ ctx[r] \in Context
        BY DEF Traced, TypeOK
      <4> QED
        BY <2>1, <4>1, <4>2, GuardGrants
    <3> QED
      BY <3>1, <3>2
  <2> QED
    BY <2>1, <2>2, GrantedStays DEF config
<1>6. ASSUME NEW r \in Requests, Handler(r)
      PROVE  Granted(q)'
  BY <1>6, <1>q, GrantedStays DEF Handler, HandlerCall, Return, config, asked
<1>7. ASSUME NEW r \in Requests, Close(r)
      PROVE  Granted(q)'
  <2>1. q \in ran /\ q # r /\ cfg' = cfg
    BY <1>7 DEF Close, config
  <2> QED
    BY <1>7, <1>q, <2>1, GrantedStays DEF Close, TypeOK
<1>8. ASSUME NEW r \in Requests, RecordUsage(r)
      PROVE  Granted(q)'
  BY <1>8, <1>q, GrantedStays DEF RecordUsage, config, asked
<1> QED
  BY <1>0, <1>1, <1>2, <1>3, <1>4, <1>5, <1>6, <1>7, <1>8 DEF Next, Serve

LEMMA Invariance == Spec => []IInv
<1>1. IInv /\ [Next]_vars => IInv'
  BY TypeStep, TracedStep, EarnedStep DEF IInv
<1> QED
  BY <1>1, InitHolds, PTL DEF Spec

-----------------------------------------------------------------------------
(* Theorems *)

\* The endpoint's state keeps its types, whatever order the goroutines run in.
THEOREM ResourceTypeCorrect == Spec => []TypeOK
<1>1. IInv => TypeOK
  BY DEF IInv
<1> QED
  BY <1>1, Invariance, PTL

\* recordPATUsage: the limiter holds one entry per running usage recorder and is
\* never filled beyond its capacity, for every capacity and number of requests.
THEOREM SlotsAreAccounted == Spec => []SlotsAccounted
<1>1. IInv => SlotsAccounted
  BY DEF IInv
<1> QED
  BY <1>1, Invariance, PTL

\* Bearer and RequireScopeForTarget: a guarded tool runs only on authority its
\* token had since the request arrived, for all configurations, requests and
\* changes of credentials.
THEOREM AuthorityIsGranted == Spec => []AuthorityWasGranted
<1>1. IInv => AuthorityWasGranted
  BY DEF IInv, Earned, Granted, AuthorityWasGranted
<1> QED
  BY <1>1, Invariance, PTL
-----------------------------------------------------------------------------
(* The envelope's writer in front of a plain one *)

\* What the two writers of a request hold while its handler runs. `seen` of the
\* plain one runs ahead of a buffer that has nothing to push yet.
PlainWriter == [header: ContentTypes, status: Statuses \cup {0}, sent: ContentTypes,
                body: Seq(Texts), rpc: {NoRpc}, seen: Nat]
BufferedWriter == [header: ContentTypes, status: Statuses \cup {0}, body: Seq(Texts),
                   passthrough: BOOLEAN, under: PlainWriter]

\* Writer b has passed everything on to where plain writer d is, or holds back
\* all of it, which it does only of an answer it may have to rewrite.
Mirrors(b, d, buffered) ==
    /\ b \in BufferedWriter /\ d \in PlainWriter
    /\ b.passthrough =>
          b.under = d /\ (buffered => d.status # 0 /\ Streams(d.status, d.sent))
    /\ ~ b.passthrough =>
          /\ buffered /\ b.under = NewPlain
          /\ b.header = d.header /\ b.status = d.status /\ b.body = d.body
          /\ d.status = 0 => d.body = <<>> /\ d.sent = NoType /\ d.seen = 0
          /\ d.status # 0 => ~ Streams(d.status, d.sent)

\* An error answer that is no event stream waits for the end of the handler.
Held(d, buffered) ==
    buffered /\ ~ (d.status < BadRequest \/ d.sent = "text/event-stream")

\* What a finished request's client has, as EnvelopeTransparent states it.
Rewritten(r) ==
    /\ Held(direct[r], Buffered(r)) /\ r \in ran
    /\ direct[r].status = BadRequest /\ direct[r].header = "text/plain"
    /\ mapSDKError(direct[r].body) # NoCode

Delivered(r) ==
    LET a == writer[r].under IN
    IF Rewritten(r)
    THEN /\ a.status = OK /\ a.sent = "application/json" /\ a.body = <<>>
         /\ a.rpc = [code |-> mapSDKError(direct[r].body), id |-> extractID(body[r])]
    ELSE a = IF Held(direct[r], Buffered(r)) THEN [direct[r] EXCEPT !.sent = direct[r].header]
             ELSE direct[r]

RequestMirrored(r) ==
    /\ pc[r] \notin {"guard", "handler", "answered"} =>
          writer[r] = NewBuffered /\ direct[r] = NewPlain /\ body[r] = "get"
    /\ pc[r] = "guard" =>
          writer[r] = (IF Buffered(r) THEN NewBuffered ELSE Bypassed) /\ direct[r] = NewPlain
    /\ pc[r] = "handler" =>
          /\ Mirrors(writer[r], direct[r], Buffered(r))
          /\ r \notin ran => /\ direct[r].status # 0 /\ calls[r] = MaxCalls
                            /\ direct[r].header = "application/json"
    /\ pc[r] = "answered" => Delivered(r)
    /\ r \in ran => pc[r] \in {"handler", "answered"}

Mirrored ==
    /\ writer = [r \in Requests |-> writer[r]] /\ direct = [r \in Requests |-> direct[r]]
    /\ \A r \in Requests : RequestMirrored(r)

LEMMA StatusFacts == OK \in Statuses /\ BadRequest \in Statuses /\ \A s \in Statuses : s # 0 /\ s \in Nat
BY DEF Statuses, OK, BadRequest, Unauthorized, Forbidden

\* The calls of a plain writer, field by field.
LEMMA PlainCalls ==
    ASSUME NEW d \in PlainWriter
    PROVE  /\ \A c \in ContentTypes : [d EXCEPT !.header = c] \in PlainWriter
           /\ \A s \in Statuses :
                 /\ PlainWriteHeader(d, s) \in PlainWriter
                 /\ PlainWriteHeader(d, s).header = d.header
                 /\ PlainWriteHeader(d, s).body = d.body
                 /\ PlainWriteHeader(d, s).seen = d.seen
                 /\ d.status # 0 => PlainWriteHeader(d, s) = d
                 /\ d.status = 0 => /\ PlainWriteHeader(d, s).status = s
                                    /\ PlainWriteHeader(d, s).sent = d.header
           /\ \A p \in Texts :
                 /\ PlainWrite(d, p) \in PlainWriter
                 /\ PlainWrite(d, p).header = d.header
                 /\ PlainWrite(d, p).body = Append(d.body, p)
                 /\ PlainWrite(d, p).status = PlainWriteHeader(d, OK).status
                 /\ PlainWrite(d, p).sent = PlainWriteHeader(d, OK).sent
           /\ /\ PlainFlush(d) \in PlainWriter
              /\ PlainFlush(d).header = d.header /\ PlainFlush(d).body = d.body
              /\ PlainFlush(d).seen = Len(d.body)
              /\ PlainFlush(d).status = PlainWriteHeader(d, OK).status
              /\ PlainFlush(d).sent = PlainWriteHeader(d, OK).sent
<1> USE DEF PlainWriter
<1>1. \A c \in ContentTypes : [d EXCEPT !.header = c] \in PlainWriter
  OBVIOUS
<1>2. ASSUME NEW s \in Statuses
      PROVE  /\ PlainWriteHeader(d, s) \in PlainWriter
             /\ PlainWriteHeader(d, s).header = d.header
             /\ PlainWriteHeader(d, s).body = d.body
             /\ PlainWriteHeader(d, s).seen = d.seen
             /\ d.status # 0 => PlainWriteHeader(d, s) = d
             /\ d.status = 0 => /\ PlainWriteHeader(d, s).status = s
                                /\ PlainWriteHeader(d, s).sent = d.header
  BY DEF PlainWriteHeader
<1>3. OK \in Statuses
  BY DEF Statuses
<1>4. ASSUME NEW p \in Texts
      PROVE  /\ PlainWrite(d, p) \in PlainWriter
             /\ PlainWrite(d, p).header = d.header
             /\ PlainWrite(d, p).body = Append(d.body, p)
             /\ PlainWrite(d, p).status = PlainWriteHeader(d, OK).status
             /\ PlainWrite(d, p).sent = PlainWriteHeader(d, OK).sent
  <2> DEFINE v == PlainWriteHeader(d, OK)
  <2>1. v \in PlainWriter /\ v.header = d.header /\ v.body = d.body
    BY <1>2, <1>3
  <2>2. PlainWrite(d, p) = [v EXCEPT !.body = Append(v.body, p)]
    BY DEF PlainWrite
  <2>3. Append(v.body, p) \in Seq(Texts)
    BY <2>1
  <2> HIDE DEF v
  <2>4. [v EXCEPT !.body = Append(v.body, p)] \in PlainWriter
    BY <2>1, <2>3
  <2> QED
    BY <2>1, <2>2, <2>4 DEF v
<1>5. /\ PlainFlush(d) \in PlainWriter
      /\ PlainFlush(d).header = d.header /\ PlainFlush(d).body = d.body
      /\ PlainFlush(d).seen = Len(d.body)
      /\ PlainFlush(d).status = PlainWriteHeader(d, OK).status
      /\ PlainFlush(d).sent = PlainWriteHeader(d, OK).sent
  <2> DEFINE v == PlainWriteHeader(d, OK)
  <2>1. v \in PlainWriter /\ v.header = d.header /\ v.body = d.body
    BY <1>2, <1>3
  <2>2. PlainFlush(d) = [v EXCEPT !.seen = Len(v.body)]
    BY DEF PlainFlush
  <2>3. Len(v.body) \in Nat
    BY <2>1
  <2> HIDE DEF v
  <2>4. [v EXCEPT !.seen = Len(v.body)] \in PlainWriter
    BY <2>1, <2>3
  <2> QED
    BY <2>1, <2>2, <2>4 DEF v
<1> QED
  BY <1>1, <1>2, <1>4, <1>5

\* Two plain writers that agree field by field are the same.
LEMMA SamePlain ==
    ASSUME NEW v \in PlainWriter, NEW w \in PlainWriter,
           v.header = w.header, v.status = w.status, v.sent = w.sent, v.body = w.body,
           v.seen = w.seen
    PROVE  v = w
BY DEF PlainWriter

\* A buffered writer is changed a few fields at a time.
LEMMA PassthroughUpdate ==
    ASSUME NEW b \in BufferedWriter, NEW x \in BOOLEAN
    PROVE  [b EXCEPT !.passthrough = x] \in BufferedWriter
BY DEF BufferedWriter

LEMMA HandOverUpdate ==
    ASSUME NEW b \in BufferedWriter, NEW x \in BOOLEAN, NEW w \in PlainWriter,
           NEW t \in Seq(Texts)
    PROVE  [b EXCEPT !.passthrough = x, !.under = w, !.body = t] \in BufferedWriter
BY DEF BufferedWriter

LEMMA NewWriters ==
    /\ NewPlain \in PlainWriter /\ NewBuffered \in BufferedWriter /\ Bypassed \in BufferedWriter
    /\ NewBuffered.passthrough = FALSE /\ Bypassed.passthrough = TRUE
    /\ NewBuffered.under = NewPlain /\ Bypassed.under = NewPlain
    /\ NewPlain.status = 0 /\ NewPlain.body = <<>> /\ NewPlain.sent = NoType
    /\ NewPlain.seen = 0 /\ NewPlain.header = NoType
    /\ NewBuffered.status = 0 /\ NewBuffered.body = <<>> /\ NewBuffered.header = NoType
<1>1. NewPlain \in PlainWriter /\ NewPlain.status = 0 /\ NewPlain.body = <<>> /\ NewPlain.sent = NoType
      /\ NewPlain.seen = 0 /\ NewPlain.header = NoType
  BY DEF NewPlain, PlainWriter, ContentTypes
<1>2. NewBuffered \in BufferedWriter
  BY <1>1 DEF NewBuffered, BufferedWriter, ContentTypes
<1>3. Bypassed \in BufferedWriter
  <2>1. TRUE \in BOOLEAN
    OBVIOUS
  <2> QED
    BY <1>2, <2>1, PassthroughUpdate, Zenon DEF Bypassed
<1>4. Bypassed.passthrough = TRUE /\ Bypassed.under = NewPlain
  BY DEF Bypassed, NewBuffered
<1> QED
  BY <1>1, <1>2, <1>3, <1>4 DEF NewBuffered

\* flush hands headers, status and body over, each as the handler left it.
LEMMA FlushHandsOver ==
    ASSUME NEW b \in BufferedWriter, ~ b.passthrough, b.under = NewPlain,
           b.status = 0 => b.body = <<>>
    PROVE  /\ Flush(b) \in BufferedWriter /\ Flush(b).passthrough = TRUE
           /\ Flush(b).under \in PlainWriter
           /\ Flush(b).under.header = b.header /\ Flush(b).under.status = b.status
           /\ Flush(b).under.sent = (IF b.status = 0 THEN NoType ELSE b.header)
           /\ Flush(b).under.body = b.body /\ Flush(b).under.seen = 0
<1> DEFINE headed  == [b.under EXCEPT !.header = CopyHeader(@, b.header)]
           started == IF b.status = 0 THEN headed ELSE PlainWriteHeader(headed, b.status)
           full    == IF b.body = <<>> THEN started
                      ELSE [PlainWriteHeader(started, OK) EXCEPT !.body = @ \o b.body]
<1>0. /\ b.header \in ContentTypes /\ b.status \in Statuses \cup {0} /\ b.body \in Seq(Texts)
      /\ NewPlain \in PlainWriter /\ OK \in Statuses
  BY NewWriters DEF BufferedWriter, Statuses
<1>1. headed \in PlainWriter /\ headed.header = b.header /\ headed.status = 0
      /\ headed.sent = NoType /\ headed.body = <<>> /\ headed.seen = 0
  <2>1. CopyHeader(NewPlain.header, b.header) = b.header
    BY NewWriters DEF CopyHeader
  <2>2. headed = [NewPlain EXCEPT !.header = b.header]
    BY <2>1
  <2> HIDE DEF headed
  <2> QED
    BY <1>0, <2>2, NewWriters DEF PlainWriter
<1> HIDE DEF headed
<1>2. started \in PlainWriter /\ started.header = b.header /\ started.status = b.status
      /\ started.sent = (IF b.status = 0 THEN NoType ELSE b.header)
      /\ started.body = <<>> /\ started.seen = 0
  BY <1>0, <1>1, PlainCalls
<1>3. b.body # <<>> => PlainWriteHeader(started, OK) = started
  BY <1>0, <1>2, PlainCalls DEF Statuses
<1> HIDE DEF started
<1>4. full \in PlainWriter /\ full.header = started.header /\ full.status = started.status
      /\ full.sent = started.sent /\ full.body = b.body /\ full.seen = started.seen
  <2>1. CASE b.body = <<>>
    BY <1>2, <2>1
  <2>2. CASE b.body # <<>>
    <3>1. <<>> \o b.body = b.body
      BY <1>0
    <3>2. full = [started EXCEPT !.body = b.body]
      BY <1>2, <1>3, <2>2, <3>1
    <3> HIDE DEF full
    <3> QED
      BY <1>0, <1>2, <3>2 DEF PlainWriter
  <2> QED
    BY <2>1, <2>2
<1>5. Flush(b) = [b EXCEPT !.passthrough = TRUE, !.under = full, !.body = <<>>]
  BY DEF Flush, full, started, headed
<1> HIDE DEF full
<1>6. TRUE \in BOOLEAN /\ <<>> \in Seq(Texts)
  OBVIOUS
<1>7. [b EXCEPT !.passthrough = TRUE, !.under = full, !.body = <<>>] \in BufferedWriter
  BY <1>0, <1>4, <1>6, HandOverUpdate
<1>8. Flush(b).passthrough = TRUE /\ Flush(b).under = full
  BY <1>5 DEF BufferedWriter
<1> QED
  BY <1>2, <1>4, <1>5, <1>7, <1>8

\* Each call of a handler keeps the two writers together.
LEMMA WriteHeaderMirrors ==
    ASSUME NEW b, NEW d, NEW buffered, Mirrors(b, d, buffered), NEW s \in Statuses
    PROVE  Mirrors(WriteHeader(b, s), PlainWriteHeader(d, s), buffered)
<1> USE DEF Mirrors
<1>0. /\ s # 0 /\ d.status \in Statuses \cup {0}
      /\ b.header \in ContentTypes /\ b.passthrough \in BOOLEAN
  BY StatusFacts DEF PlainWriter, BufferedWriter
<1>1. CASE b.passthrough
  <2>1. WriteHeader(b, s) = [b EXCEPT !.under = PlainWriteHeader(d, s)]
    BY <1>1 DEF WriteHeader
  <2>2. PlainWriteHeader(d, s) \in PlainWriter
    BY PlainCalls
  <2>3. /\ WriteHeader(b, s) \in BufferedWriter
        /\ WriteHeader(b, s).passthrough = b.passthrough
        /\ WriteHeader(b, s).under = PlainWriteHeader(d, s)
    BY <2>1, <2>2 DEF BufferedWriter
  <2>4. buffered => PlainWriteHeader(d, s) = d
    BY <1>1, PlainCalls
  <2> QED
    BY <1>1, <2>2, <2>3, <2>4
<1>2. CASE ~ b.passthrough /\ b.status # 0
  <2>1. WriteHeader(b, s) = b
    BY <1>2 DEF WriteHeader
  <2>2. PlainWriteHeader(d, s) = d
    BY <1>2, PlainCalls
  <2> QED
    BY <2>1, <2>2
<1>3. CASE ~ b.passthrough /\ b.status = 0
  <2> DEFINE c == [b EXCEPT !.status = s]
             w == PlainWriteHeader(d, s)
  <2>1. WriteHeader(b, s) = IF Streams(s, b.header) THEN Flush(c) ELSE c
    BY <1>3 DEF WriteHeader
  <2>2. /\ c \in BufferedWriter /\ c.passthrough = b.passthrough /\ c.under = NewPlain
        /\ c.status = s /\ c.header = b.header /\ c.body = <<>>
    BY <1>3 DEF BufferedWriter
  <2>3. /\ w \in PlainWriter /\ w.status = s /\ w.sent = b.header /\ w.header = b.header
        /\ w.body = <<>> /\ w.seen = 0
    BY <1>3, PlainCalls
  <2> HIDE DEF c, w
  <2>4. CASE Streams(s, b.header)
    <3>1. /\ Flush(c) \in BufferedWriter /\ Flush(c).passthrough = TRUE
          /\ Flush(c).under \in PlainWriter
          /\ Flush(c).under.header = b.header /\ Flush(c).under.status = s
          /\ Flush(c).under.sent = b.header
          /\ Flush(c).under.body = <<>> /\ Flush(c).under.seen = 0
      BY <1>0, <1>3, <2>2, FlushHandsOver
    <3>2. Flush(c).under = w
      BY <2>3, <3>1, SamePlain
    <3>3. Mirrors(Flush(c), w, buffered)
      BY <1>0, <2>3, <2>4, <3>1, <3>2
    <3> QED
      BY <2>1, <2>4, <3>3 DEF w
  <2>5. CASE ~ Streams(s, b.header)
    <3>1. Mirrors(c, w, buffered)
      BY <1>0, <1>3, <2>2, <2>3, <2>5
    <3> QED
      BY <2>1, <2>5, <3>1 DEF w
  <2> QED
    BY <2>4, <2>5
<1> QED
  BY <1>0, <1>1, <1>2, <1>3

LEMMA WriteMirrors ==
    ASSUME NEW b, NEW d, NEW buffered, Mirrors(b, d, buffered), NEW p \in Texts
    PROVE  Mirrors(Write(b, p), PlainWrite(d, p), buffered)
<1> DEFINE c == IF b.passthrough \/ b.status # 0 THEN b ELSE WriteHeader(b, OK)
           v == PlainWriteHeader(d, OK)
<1>0. OK \in Statuses /\ OK # 0 /\ d \in PlainWriter /\ b \in BufferedWriter
  BY StatusFacts DEF Mirrors
<1>1. Mirrors(c, v, buffered) \/ (b.passthrough /\ c = b)
  <2>1. CASE b.passthrough
    BY <2>1
  <2>2. CASE ~ b.passthrough /\ b.status # 0
    <3>1. v = d /\ c = b
      BY <1>0, <2>2, PlainCalls DEF Mirrors
    <3> QED
      BY <3>1
  <2>3. CASE ~ b.passthrough /\ b.status = 0
    BY <1>0, <2>3, WriteHeaderMirrors
  <2> QED
    BY <2>1, <2>2, <2>3
<1>2. /\ v \in PlainWriter /\ v.status # 0
      /\ PlainWrite(d, p) \in PlainWriter /\ PlainWrite(d, p).header = v.header
      /\ PlainWrite(d, p).body = Append(v.body, p)
      /\ PlainWrite(d, p).status = v.status /\ PlainWrite(d, p).sent = v.sent
  <2>1. v \in PlainWriter /\ v.header = d.header /\ v.body = d.body /\ v.status # 0
    BY <1>0, PlainCalls
  <2> QED
    BY <1>0, <2>1, PlainCalls
<1>3. Write(b, p) = IF c.passthrough THEN [c EXCEPT !.under = PlainWrite(@, p)]
                    ELSE [c EXCEPT !.body = Append(@, p)]
  BY DEF Write
<1>4. CASE c.passthrough
  <2>1. c.under \in {v, d} /\ c \in BufferedWriter /\ c.passthrough \in BOOLEAN
        /\ (buffered => v.status # 0 /\ Streams(v.status, v.sent))
    <3>1. CASE Mirrors(c, v, buffered)
      BY <1>4, <3>1 DEF Mirrors, BufferedWriter
    <3>2. CASE b.passthrough /\ c = b
      <4>1. buffered => v = d
        BY <1>0, <3>2, PlainCalls DEF Mirrors
      <4> QED
        BY <1>0, <3>2, <4>1 DEF Mirrors, BufferedWriter
    <3> QED
      BY <1>1, <3>1, <3>2
  <2>2. PlainWrite(v, p) = PlainWrite(d, p)
    <3>1. PlainWriteHeader(v, OK) = v
      BY <1>0, <1>2, PlainCalls
    <3> QED
      BY <3>1 DEF PlainWrite
  <2> HIDE DEF c, v
  <2>3. Write(b, p) = [c EXCEPT !.under = PlainWrite(d, p)]
    BY <1>3, <1>4, <2>1, <2>2
  <2>4. /\ Write(b, p) \in BufferedWriter /\ Write(b, p).passthrough = c.passthrough
        /\ Write(b, p).under = PlainWrite(d, p)
    BY <1>2, <2>1, <2>3 DEF BufferedWriter
  <2> QED
    BY <1>2, <1>4, <2>1, <2>4 DEF Mirrors
<1>5. CASE ~ c.passthrough
  <2>1. Mirrors(c, v, buffered)
    BY <1>1, <1>5
  <2> HIDE DEF c, v
  <2>2. Append(c.body, p) \in Seq(Texts)
    BY <2>1 DEF Mirrors, BufferedWriter
  <2>3. /\ Write(b, p) \in BufferedWriter /\ Write(b, p).passthrough = c.passthrough
        /\ Write(b, p).under = c.under /\ Write(b, p).header = c.header
        /\ Write(b, p).status = c.status /\ Write(b, p).body = Append(c.body, p)
    BY <1>3, <1>5, <2>1, <2>2 DEF Mirrors, BufferedWriter
  <2> QED
    BY <1>2, <1>5, <2>1, <2>3 DEF Mirrors
<1> QED
  BY <1>4, <1>5

LEMMA FlushMirrors ==
    ASSUME NEW b, NEW d, NEW buffered \in BOOLEAN, Mirrors(b, d, buffered)
    PROVE  Mirrors(FlushCall(b), FlushDirect(d, buffered), buffered)
<1> USE DEF Mirrors
<1>0. OK \in Statuses /\ (d.status # 0 => PlainWriteHeader(d, OK) = d) /\ b.passthrough \in BOOLEAN
  BY PlainCalls DEF Statuses, BufferedWriter
<1>1. /\ PlainFlush(d) \in PlainWriter /\ PlainFlush(d).header = d.header
      /\ PlainFlush(d).body = d.body
      /\ d.status # 0 => PlainFlush(d).status = d.status /\ PlainFlush(d).sent = d.sent
  BY <1>0, PlainCalls
<1>2. CASE b.passthrough
  <2>0. FlushDirect(d, buffered) = PlainFlush(d)
    BY <1>2 DEF FlushDirect
  <2>1. FlushCall(b) = [b EXCEPT !.under = PlainFlush(d)]
    BY <1>2 DEF FlushCall
  <2>2. FlushCall(b) \in BufferedWriter /\ FlushCall(b).passthrough = b.passthrough
        /\ FlushCall(b).under = PlainFlush(d)
    BY <1>1, <2>1 DEF BufferedWriter
  <2> QED
    BY <1>1, <1>2, <2>0, <2>2
<1>3. CASE ~ b.passthrough /\ d.status = 0
  <2>1. FlushCall(b) = b /\ FlushDirect(d, buffered) = d
    BY <1>3 DEF FlushCall, FlushDirect
  <2> QED
    BY <2>1
<1>4. CASE ~ b.passthrough /\ d.status # 0
  <2>1. FlushCall(b) = b /\ FlushDirect(d, buffered) = PlainFlush(d)
    BY <1>4 DEF FlushCall, FlushDirect
  <2> QED
    BY <1>1, <1>4, <2>1
<1> QED
  BY <1>0, <1>2, <1>3, <1>4

LEMMA NewMirrors ==
    ASSUME NEW buffered \in BOOLEAN
    PROVE  Mirrors(IF buffered THEN NewBuffered ELSE Bypassed, NewPlain, buffered)
<1>1. CASE buffered
  <2>1. Mirrors(NewBuffered, NewPlain, buffered)
    BY <1>1, NewWriters DEF Mirrors
  <2> QED
    BY <1>1, <2>1
<1>2. CASE ~ buffered
  <2>1. Mirrors(Bypassed, NewPlain, buffered)
    BY <1>2, NewWriters DEF Mirrors
  <2> QED
    BY <1>2, <2>1
<1> QED
  BY <1>1, <1>2

LEMMA SetHeaderMirrors ==
    ASSUME NEW b, NEW d, NEW buffered, Mirrors(b, d, buffered), NEW c \in ContentTypes
    PROVE  /\ Mirrors(SetHeader(b, c), [d EXCEPT !.header = c], buffered)
           /\ [d EXCEPT !.header = c].status = d.status /\ [d EXCEPT !.header = c].header = c
<1> DEFINE w == [d EXCEPT !.header = c]
<1>0. b.passthrough \in BOOLEAN /\ b \in BufferedWriter /\ d \in PlainWriter
  BY DEF Mirrors, BufferedWriter
<1>1. /\ w \in PlainWriter /\ w.status = d.status /\ w.header = c /\ w.body = d.body
      /\ w.sent = d.sent /\ w.seen = d.seen
  BY <1>0 DEF PlainWriter
<1>2. CASE b.passthrough
  <2>1. SetHeader(b, c) = [b EXCEPT !.under = w]
    BY <1>2 DEF SetHeader, Mirrors
  <2> HIDE DEF w
  <2>2. SetHeader(b, c) \in BufferedWriter /\ SetHeader(b, c).passthrough = b.passthrough
        /\ SetHeader(b, c).under = w
    BY <1>0, <1>1, <2>1 DEF BufferedWriter
  <2>3. Mirrors(SetHeader(b, c), w, buffered)
    BY <1>1, <1>2, <2>2 DEF Mirrors
  <2> QED
    BY <1>1, <2>3 DEF w
<1>3. CASE ~ b.passthrough
  <2> HIDE DEF w
  <2>1. SetHeader(b, c) = [b EXCEPT !.header = c]
    BY <1>3 DEF SetHeader
  <2>2. /\ SetHeader(b, c) \in BufferedWriter /\ SetHeader(b, c).passthrough = b.passthrough
        /\ SetHeader(b, c).under = b.under /\ SetHeader(b, c).header = c
        /\ SetHeader(b, c).status = b.status /\ SetHeader(b, c).body = b.body
    BY <1>0, <2>1 DEF BufferedWriter
  <2>3. Mirrors(SetHeader(b, c), w, buffered)
    BY <1>1, <1>3, <2>2 DEF Mirrors
  <2> QED
    BY <1>1, <2>3 DEF w
<1> QED
  BY <1>0, <1>2, <1>3

\* envelope after the handler: the one answer it rewrites, and the rest as a
\* plain writer would have sent it.
LEMMA FinishDelivers ==
    ASSUME NEW b, NEW d, NEW buffered \in BOOLEAN, Mirrors(b, d, buffered), NEW request,
           NEW a, a = Finish(b, request), NEW e, e = PlainEnd(d)
    PROVE  IF /\ Held(e, buffered) /\ e.status = BadRequest /\ e.header = "text/plain"
              /\ mapSDKError(e.body) # NoCode
           THEN /\ a.status = OK /\ a.sent = "application/json" /\ a.body = <<>>
                /\ a.rpc = [code |-> mapSDKError(e.body), id |-> extractID(request)]
           ELSE a = IF Held(e, buffered) THEN [e EXCEPT !.sent = e.header] ELSE e
<1>0. /\ b.passthrough \in BOOLEAN /\ b \in BufferedWriter /\ d \in PlainWriter
      /\ d.status \in Statuses \cup {0}
  BY DEF Mirrors, BufferedWriter, PlainWriter
<1>1. /\ e \in PlainWriter /\ e.header = d.header /\ e.body = d.body /\ e.seen = Len(d.body)
      /\ d.status # 0 => e.status = d.status /\ e.sent = d.sent
      /\ d.status = 0 => e.status = OK /\ e.sent = d.header
  BY <1>0, PlainCalls, StatusFacts DEF PlainEnd
<1>2. CASE b.passthrough
  <2>1. a = e
    <3>1. Flush(b) = b
      BY <1>2 DEF Flush
    <3>2. ~ shouldRewrite(b)
      BY <1>2 DEF shouldRewrite
    <3> QED
      BY <1>2, <3>1, <3>2 DEF Finish, Mirrors
  <2>2. ~ Held(e, buffered)
    BY <1>0, <1>1, <1>2, StatusFacts DEF Mirrors, Streams, Held, BadRequest
  <2> QED
    BY <2>1, <2>2
<1>3. CASE ~ b.passthrough
  <2>0. /\ buffered /\ b.under = NewPlain /\ b.header = d.header /\ b.status = d.status
        /\ b.body = d.body
        /\ d.status = 0 => d.body = <<>> /\ d.sent = NoType /\ d.seen = 0
        /\ d.status # 0 => ~ Streams(d.status, d.sent)
    BY <1>3 DEF Mirrors
  <2>h. Held(e, buffered) <=> d.status # 0
    BY <1>0, <1>1, <2>0, StatusFacts DEF Held, Streams, BadRequest, OK
  <2>1. shouldRewrite(b) <=> /\ Held(e, buffered)
                             /\ e.status = BadRequest /\ e.header = "text/plain"
    <3>1. CASE d.status = 0
      <4>1. b.status # BadRequest
        BY <2>0, <3>1 DEF BadRequest
      <4> QED
        BY <2>h, <3>1, <4>1, Zenon DEF shouldRewrite
    <3>2. CASE d.status # 0
      <4>1. Held(e, buffered) /\ e.status = b.status /\ e.header = b.header
        BY <1>1, <2>0, <2>h, <3>2
      <4> QED
        BY <1>3, <4>1, Zenon DEF shouldRewrite
    <3> QED
      BY <3>1, <3>2
  <2>2. CASE shouldRewrite(b) /\ mapSDKError(b.body) # NoCode
    <3> DEFINE rpc == [code |-> mapSDKError(b.body), id |-> extractID(request)]
               w   == [NewPlain EXCEPT !.header = "application/json", !.status = OK,
                                       !.sent = "application/json", !.rpc = rpc]
    <3>1. a = PlainEnd(w)
      BY <2>0, <2>2 DEF Finish
    <3>2. w.status = OK /\ w.sent = "application/json" /\ w.body = <<>> /\ w.rpc = rpc
      BY DEF NewPlain
    <3>3. PlainEnd(w) = [w EXCEPT !.seen = Len(w.body)]
      BY <3>2, StatusFacts DEF PlainEnd, PlainFlush, PlainWriteHeader
    <3>4. PlainEnd(w).status = OK /\ PlainEnd(w).sent = "application/json"
          /\ PlainEnd(w).body = <<>> /\ PlainEnd(w).rpc = rpc
      BY <3>3 DEF NewPlain
    <3> QED
      BY <1>1, <2>0, <2>1, <2>2, <3>1, <3>4
  <2>3. CASE ~ (shouldRewrite(b) /\ mapSDKError(b.body) # NoCode)
    <3> DEFINE f == Flush(b).under
    <3>1. a = PlainEnd(f)
      BY <2>3 DEF Finish
    <3>2. /\ f \in PlainWriter /\ f.header = d.header /\ f.status = d.status
          /\ f.sent = (IF d.status = 0 THEN NoType ELSE d.header) /\ f.body = d.body
      BY <1>0, <1>3, <2>0, FlushHandsOver
    <3> HIDE DEF f
    <3>3. /\ a \in PlainWriter /\ a.header = f.header /\ a.body = f.body /\ a.seen = Len(f.body)
          /\ f.status # 0 => a.status = f.status /\ a.sent = f.sent
          /\ f.status = 0 => a.status = OK /\ a.sent = f.header
      BY <3>1, <3>2, PlainCalls, StatusFacts DEF PlainEnd
    <3>4. CASE d.status = 0
      <4>1. a = e
        BY <1>1, <2>0, <3>2, <3>3, <3>4, SamePlain
      <4> QED
        BY <2>h, <3>4, <4>1
    <3>5. CASE d.status # 0
      <4> DEFINE h == [e EXCEPT !.sent = e.header]
      <4>1. /\ h \in PlainWriter /\ h.header = e.header /\ h.status = e.status
            /\ h.sent = e.header /\ h.body = e.body /\ h.seen = e.seen
        BY <1>1 DEF PlainWriter
      <4> HIDE DEF h
      <4>2. a = h
        BY <1>1, <2>0, <3>2, <3>3, <3>5, <4>1, SamePlain
      <4> QED
        BY <1>1, <2>0, <2>h, <2>1, <2>3, <3>5, <4>2 DEF h
    <3> QED
      BY <3>4, <3>5
  <2> QED
    BY <2>2, <2>3
<1> QED
  BY <1>0, <1>2, <1>3

\* A step leaves request q alone.
Untouched(q) ==
    /\ pc'[q] = pc[q] /\ body'[q] = body[q] /\ writer'[q] = writer[q] /\ direct'[q] = direct[q]
    /\ calls'[q] = calls[q] /\ (q \in ran' <=> q \in ran)

Tables ==
    writer' = [r \in Requests |-> writer'[r]] /\ direct' = [r \in Requests |-> direct'[r]]

LEMMA UntouchedMirrored ==
    ASSUME NEW q \in Requests, RequestMirrored(q), Untouched(q)
    PROVE  RequestMirrored(q)'
BY DEF Untouched, RequestMirrored, Buffered, Delivered, Rewritten

\* A refusal of a middleware is what its client gets.
LEMMA RefuseMirrors ==
    ASSUME TypeOK, Mirrored, NEW r \in Requests, NEW status, NEW type,
           Refuse(r, status, type), ran' = ran, r \notin ran, body[r] = "get"
    PROVE  Tables /\ \A q \in Requests : RequestMirrored(q)'
<1> DEFINE w == PlainEnd(PlainWrite(PlainWriteHeader([NewPlain EXCEPT !.header = type],
                                                     status), "other"))
<1>1. /\ writer' = [writer EXCEPT ![r] = [Bypassed EXCEPT !.under = w]]
      /\ direct' = [direct EXCEPT ![r] = w] /\ body' = body
      /\ pc' = [pc EXCEPT ![r] = "answered"] /\ calls' = calls
  BY DEF Refuse, Goto
<1>2. [Bypassed EXCEPT !.under = w].under = w
  BY DEF Bypassed, NewBuffered
<1> HIDE DEF w
<1>3. Tables
  BY <1>1 DEF Mirrored, Tables
<1>4. RequestMirrored(r)'
  <2>1. pc'[r] = "answered" /\ writer'[r].under = direct'[r]
    BY <1>1, <1>2 DEF Mirrored, TypeOK
  <2>2. Delivered(r)'
    <3>1. ~ Held(direct'[r], (Buffered(r))')
      BY <1>1 DEF Held, Buffered
    <3> QED
      BY <2>1, <3>1 DEF Delivered, Rewritten
  <2> QED
    BY <2>1, <2>2 DEF RequestMirrored
<1>5. ASSUME NEW q \in Requests, q # r PROVE RequestMirrored(q)'
  <2>1. Untouched(q)
    BY <1>1, <1>5 DEF Untouched, Mirrored, TypeOK
  <2> QED
    BY <2>1, UntouchedMirrored DEF Mirrored
<1> QED
  BY <1>3, <1>4, <1>5

LEMMA EnterMirrors ==
    ASSUME TypeOK, Mirrored, NEW r \in Requests, Enter(r), ran' = ran, r \notin ran,
           direct[r] = NewPlain
    PROVE  Tables /\ \A q \in Requests : RequestMirrored(q)'
<1>1. PICK b \in Bodies :
         /\ body' = [body EXCEPT ![r] = b]
         /\ writer' = [writer EXCEPT ![r] = IF b \in {"call", "noID"} THEN NewBuffered ELSE Bypassed]
  BY DEF Enter, Bodies
<1>2. direct' = direct /\ calls' = calls /\ pc' = [pc EXCEPT ![r] = "guard"]
  BY DEF Enter, Goto
<1>3. Tables
  BY <1>1, <1>2 DEF Mirrored, Tables
<1>4. RequestMirrored(r)'
  BY <1>1, <1>2 DEF Mirrored, TypeOK, RequestMirrored, Buffered
<1>5. ASSUME NEW q \in Requests, q # r PROVE RequestMirrored(q)'
  <2>1. Untouched(q)
    BY <1>1, <1>2, <1>5 DEF Untouched, Mirrored, TypeOK
  <2> QED
    BY <2>1, UntouchedMirrored DEF Mirrored
<1> QED
  BY <1>3, <1>4, <1>5

\* A request that only moves on before the envelope.
LEMMA MoveMirrors ==
    ASSUME TypeOK, Mirrored, NEW r \in Requests, NEW l,
           pc' = [pc EXCEPT ![r] = l], UNCHANGED <<body, writer, direct, calls, ran>>,
           {pc[r], l} \cap {"guard", "handler", "answered"} = {}
    PROVE  Tables /\ \A q \in Requests : RequestMirrored(q)'
<1>1. Tables
  BY DEF Mirrored, Tables
<1>2. RequestMirrored(r)'
  BY DEF Mirrored, TypeOK, RequestMirrored
<1>3. ASSUME NEW q \in Requests, q # r PROVE RequestMirrored(q)'
  <2>1. Untouched(q)
    BY <1>3 DEF Untouched, TypeOK
  <2> QED
    BY <2>1, UntouchedMirrored DEF Mirrored
<1> QED
  BY <1>1, <1>2, <1>3

Before == {"idle", "validate", "resolve", "introspect", "checkExpiry"}

LEMMA FallThroughMirrors ==
    ASSUME TypeOK, Mirrored, NEW r \in Requests, FallThrough(r), ran' = ran, pc[r] \in Before
    PROVE  Tables /\ \A q \in Requests : RequestMirrored(q)'
<1>0. r \notin ran /\ body[r] = "get"
  BY DEF Mirrored, RequestMirrored, Before
<1>1. CASE cfg.Introspector
  <2>1. pc' = [pc EXCEPT ![r] = "introspect"] /\ UNCHANGED <<body, writer, direct, calls, ran>>
    BY <1>1 DEF FallThrough, Goto, answer
  <2>2. {pc[r], "introspect"} \cap {"guard", "handler", "answered"} = {}
    BY DEF Before
  <2> QED
    BY <2>1, <2>2, MoveMirrors
<1>2. CASE ~ cfg.Introspector
  BY <1>0, <1>2, RefuseMirrors DEF FallThrough, Challenge
<1> QED
  BY <1>1, <1>2

\* The handler's goroutine touches its own writers only.
LEMMA CallMirrors ==
    ASSUME TypeOK, Mirrored, NEW r \in Requests, NEW b, NEW d, Call(r, b, d), body' = body,
           \A q \in Requests \ {r} :
              pc'[q] = pc[q] /\ calls'[q] = calls[q] /\ (q \in ran' <=> q \in ran)
    PROVE  /\ Tables /\ writer'[r] = b /\ direct'[r] = d
           /\ \A q \in Requests \ {r} : RequestMirrored(q)'
<1>1. writer' = [writer EXCEPT ![r] = b] /\ direct' = [direct EXCEPT ![r] = d]
  BY DEF Call
<1>2. Tables /\ writer'[r] = b /\ direct'[r] = d
  BY <1>1 DEF Mirrored, Tables
<1>3. ASSUME NEW q \in Requests \ {r} PROVE RequestMirrored(q)'
  <2>1. Untouched(q)
    BY <1>1 DEF Untouched, Mirrored
  <2> QED
    BY <2>1, UntouchedMirrored DEF Mirrored
<1> QED
  BY <1>2, <1>3

LEMMA MirroredStep ==
    ASSUME TypeOK, Mirrored, [Next]_vars
    PROVE  Mirrored'
<1> SUFFICES Tables /\ \A q \in Requests : RequestMirrored(q)'
  BY DEF Mirrored, Tables
<1>0. \A r \in Requests : pc[r] \in Before =>
         /\ r \notin ran /\ writer[r] = NewBuffered /\ direct[r] = NewPlain
         /\ body[r] = "get"
  BY DEF Mirrored, RequestMirrored, Before
<1>1. ASSUME UNCHANGED <<pc, body, writer, direct, calls, ran>>
      PROVE  Tables /\ \A q \in Requests : RequestMirrored(q)'
  <2>1. \A q \in Requests : Untouched(q)
    BY <1>1 DEF Untouched
  <2> QED
    BY <1>1, <2>1, UntouchedMirrored DEF Mirrored, Tables
<1>2. CASE UNCHANGED vars \/ Tick \/ (\E t \in Tokens, row \in Row : Change(t, row))
           \/ \E r \in Requests : RecordUsage(r)
  BY <1>1, <1>2 DEF vars, Tick, Change, RecordUsage, asked, answer
<1>3. ASSUME NEW r \in Requests, NEW t \in Tokens \cup {NoToken, Garbage},
             NEW o \in Origins, Arrive(r, t, o)
      PROVE  Tables /\ \A q \in Requests : RequestMirrored(q)'
  <2>0. /\ pc[r] \in Before /\ ran' = ran /\ r \notin ran /\ direct[r] = NewPlain
        /\ body[r] = "get"
    BY <1>0, <1>3 DEF Arrive, Before
  <2>1. CASE ~ OriginAllowed(o)
    BY <1>3, <2>0, <2>1, RefuseMirrors DEF Arrive
  <2>2. CASE OriginAllowed(o)
    <3>0. Authenticate(r, t)
      BY <1>3, <2>2 DEF Arrive
    <3>1. CASE AuthDisabled
      BY <2>0, <3>0, <3>1, EnterMirrors DEF Authenticate
    <3>2. CASE ~ AuthDisabled /\ t = NoToken
      BY <2>0, <3>0, <3>2, RefuseMirrors DEF Authenticate, Challenge
    <3>3. CASE ~ AuthDisabled /\ t # NoToken /\ cfg.TokenValidator
      <4>1. pc' = [pc EXCEPT ![r] = "validate"] /\ UNCHANGED <<body, writer, direct, calls, ran>>
        BY <2>0, <3>0, <3>3 DEF Authenticate, Goto, answer
      <4>2. {pc[r], "validate"} \cap {"guard", "handler", "answered"} = {}
        BY <2>0 DEF Before
      <4> QED
        BY <4>1, <4>2, MoveMirrors
    <3>4. CASE ~ AuthDisabled /\ t # NoToken /\ ~ cfg.TokenValidator
      BY <2>0, <3>0, <3>4, FallThroughMirrors DEF Authenticate
    <3> QED
      BY <3>1, <3>2, <3>3, <3>4
  <2> QED
    BY <2>1, <2>2
<1>4. ASSUME NEW r \in Requests, ServiceFails(r)
      PROVE  Tables /\ \A q \in Requests : RequestMirrored(q)'
  BY <1>4, FallThroughMirrors DEF ServiceFails, Before
<1>5. ASSUME NEW r \in Requests, ValidateToken(r)
      PROVE  Tables /\ \A q \in Requests : RequestMirrored(q)'
  <2>0. pc[r] \in Before /\ ran' = ran
    BY <1>5 DEF ValidateToken, Before
  <2>1. CASE token[r] \in PATs /\ cred[token[r]].live
    <3>1. pc' = [pc EXCEPT ![r] = "resolve"] /\ UNCHANGED <<body, writer, direct, calls, ran>>
      BY <1>5, <2>1 DEF ValidateToken, Goto, answer
    <3>2. {pc[r], "resolve"} \cap {"guard", "handler", "answered"} = {}
      BY <2>0 DEF Before
    <3> QED
      BY <3>1, <3>2, MoveMirrors
  <2>2. CASE ~ (token[r] \in PATs /\ cred[token[r]].live)
    BY <1>5, <2>0, <2>2, FallThroughMirrors DEF ValidateToken
  <2> QED
    BY <2>1, <2>2
<1>6. ASSUME NEW r \in Requests, GetTokenScope(r)
      PROVE  Tables /\ \A q \in Requests : RequestMirrored(q)'
  BY <1>0, <1>6, EnterMirrors DEF GetTokenScope, Before
<1>7. ASSUME NEW r \in Requests, IntrospectToken(r)
      PROVE  Tables /\ \A q \in Requests : RequestMirrored(q)'
  <2>0. pc[r] \in Before /\ ran' = ran /\ r \notin ran /\ body[r] = "get"
    BY <1>0, <1>7 DEF IntrospectToken, Before
  <2>1. CASE Challenge(r)
    BY <2>0, <2>1, RefuseMirrors DEF Challenge
  <2>2. CASE ~ Challenge(r)
    <3>1. pc' = [pc EXCEPT ![r] = "checkExpiry"] /\ UNCHANGED <<body, writer, direct, calls, ran>>
      BY <1>7, <2>2 DEF IntrospectToken, Goto, answer
    <3>2. {pc[r], "checkExpiry"} \cap {"guard", "handler", "answered"} = {}
      BY <2>0 DEF Before
    <3> QED
      BY <3>1, <3>2, MoveMirrors
  <2> QED
    BY <2>1, <2>2
<1>8. ASSUME NEW r \in Requests, CheckExpiry(r)
      PROVE  Tables /\ \A q \in Requests : RequestMirrored(q)'
  <2>0. ran' = ran /\ r \notin ran /\ direct[r] = NewPlain /\ body[r] = "get"
    BY <1>0, <1>8 DEF CheckExpiry, Before
  <2> QED
    BY <1>8, <2>0, RefuseMirrors, EnterMirrors DEF CheckExpiry, Challenge
<1>9. ASSUME NEW r \in Requests, Authorize(r)
      PROVE  Tables /\ \A q \in Requests : RequestMirrored(q)'
  <2>0. /\ pc[r] = "guard" /\ pc' = [pc EXCEPT ![r] = "handler"] /\ body' = body
        /\ pc'[r] = "handler" /\ \A q \in Requests \ {r} : pc'[q] = pc[q]
    BY <1>9 DEF Authorize, Goto, TypeOK
  <2>1. /\ Mirrors(writer[r], direct[r], Buffered(r)) /\ direct[r].status = 0
        /\ (Buffered(r))' = Buffered(r) /\ r \notin ran
    <3>1. /\ writer[r] = (IF Buffered(r) THEN NewBuffered ELSE Bypassed)
          /\ direct[r] = NewPlain /\ r \notin ran
      BY <2>0 DEF Mirrored, RequestMirrored
    <3>2. Buffered(r) \in BOOLEAN
      BY DEF Buffered
    <3>3. Mirrors(IF Buffered(r) THEN NewBuffered ELSE Bypassed, NewPlain, Buffered(r))
      BY <3>2, NewMirrors
    <3> QED
      BY <2>0, <3>1, <3>3, NewWriters DEF Buffered
  <2>2. CASE Run(r)
    <3>1. ran' = ran \cup {r} /\ UNCHANGED <<writer, calls, direct>>
      BY <2>2 DEF Run, answer
    <3>2. \A q \in Requests \ {r} : Untouched(q)
      BY <2>0, <3>1 DEF Untouched
    <3>3. Tables /\ \A q \in Requests \ {r} : RequestMirrored(q)'
      BY <3>1, <3>2, UntouchedMirrored DEF Mirrored, Tables
    <3>4. RequestMirrored(r)'
      BY <2>0, <2>1, <3>1 DEF RequestMirrored
    <3> QED
      BY <3>3, <3>4
  <2>3. ASSUME NEW status \in {Unauthorized, Forbidden}, Deny(r, status)
        PROVE  Tables /\ \A q \in Requests : RequestMirrored(q)'
    <3> DEFINE b1 == SetHeader(writer[r], "application/json")
               d1 == [direct[r] EXCEPT !.header = "application/json"]
               b2 == WriteHeader(b1, status)
               d2 == PlainWriteHeader(d1, status)
               b3 == Write(b2, "other")
               d3 == PlainWrite(d2, "other")
    <3>1. Call(r, b3, d3) /\ ran' = ran /\ calls' = [calls EXCEPT ![r] = MaxCalls]
      BY <2>3 DEF Deny
    <3>2. "application/json" \in ContentTypes /\ status \in Statuses /\ "other" \in Texts
      BY DEF ContentTypes, Statuses, Texts
    <3>3. Mirrors(b1, d1, Buffered(r)) /\ d1.status = 0 /\ d1.header = "application/json"
      BY <2>1, <3>2, SetHeaderMirrors
    <3> HIDE DEF b1, d1
    <3>4. /\ Mirrors(b2, d2, Buffered(r)) /\ d1 \in PlainWriter
          /\ d2 \in PlainWriter /\ d2.status = status /\ d2.header = "application/json"
      <4>1. d1 \in PlainWriter
        BY <3>3 DEF Mirrors
      <4> QED
        BY <3>2, <3>3, <4>1, WriteHeaderMirrors, PlainCalls
    <3> HIDE DEF b2, d2
    <3>5. Mirrors(b3, d3, Buffered(r))
      BY <3>2, <3>4, WriteMirrors
    <3>6. d3.status # 0 /\ d3.header = "application/json"
      <4>1. d2.status # 0
        BY <3>2, <3>4, StatusFacts
      <4>2. PlainWriteHeader(d2, OK) = d2
        BY <3>4, <4>1, StatusFacts, PlainCalls
      <4> QED
        BY <3>2, <3>4, <4>1, <4>2, PlainCalls
    <3> HIDE DEF b3, d3
    <3>7. /\ Tables /\ writer'[r] = b3 /\ direct'[r] = d3
          /\ \A q \in Requests \ {r} : RequestMirrored(q)'
      <4>1. \A q \in Requests \ {r} : calls'[q] = calls[q]
        BY <3>1 DEF TypeOK
      <4> QED
        BY <2>0, <3>1, <4>1, CallMirrors
    <3>8. Mirrors(writer[r], direct[r], Buffered(r))'
      BY <2>1, <3>5, <3>7
    <3>9. RequestMirrored(r)'
      BY <2>0, <3>1, <3>6, <3>7, <3>8 DEF RequestMirrored, TypeOK
    <3> QED
      BY <3>7, <3>9
  <2> QED
    BY <1>9, <2>2, <2>3 DEF Authorize
<1>10. ASSUME NEW r \in Requests, HandlerCall(r)
       PROVE  Tables /\ \A q \in Requests : RequestMirrored(q)'
  <2>0. /\ pc[r] = "handler" /\ pc' = pc /\ body' = body /\ ran' = ran
        /\ calls[r] # MaxCalls /\ \A q \in Requests \ {r} : calls'[q] = calls[q]
    BY <1>10, ConstantsAssumption DEF HandlerCall, asked, TypeOK
  <2>1. /\ Mirrors(writer[r], direct[r], Buffered(r)) /\ (Buffered(r))' = Buffered(r)
        /\ r \in ran /\ direct[r] \in PlainWriter /\ Buffered(r) \in BOOLEAN
    BY <2>0 DEF Mirrored, RequestMirrored, Mirrors, Buffered
  <2>2. ASSUME NEW b, NEW d, Call(r, b, d), Mirrors(b, d, Buffered(r))
        PROVE  Tables /\ \A q \in Requests : RequestMirrored(q)'
    <3>1. /\ Tables /\ writer'[r] = b /\ direct'[r] = d
          /\ \A q \in Requests \ {r} : RequestMirrored(q)'
      BY <2>0, <2>2, CallMirrors
    <3>2. Mirrors(writer[r], direct[r], Buffered(r))'
      BY <2>1, <2>2, <3>1
    <3>3. RequestMirrored(r)'
      BY <2>0, <2>1, <2>2, <3>1, <3>2 DEF RequestMirrored
    <3> QED
      BY <3>1, <3>3
  <2>3. ASSUME NEW c \in ContentTypes,
               Call(r, SetHeader(writer[r], c), [direct[r] EXCEPT !.header = c])
        PROVE  Tables /\ \A q \in Requests : RequestMirrored(q)'
    BY <2>1, <2>2, <2>3, SetHeaderMirrors
  <2>4. ASSUME NEW s \in Statuses, Call(r, WriteHeader(writer[r], s), PlainWriteHeader(direct[r], s))
        PROVE  Tables /\ \A q \in Requests : RequestMirrored(q)'
    BY <2>1, <2>2, <2>4, WriteHeaderMirrors
  <2>5. ASSUME NEW p \in Texts, Call(r, Write(writer[r], p), PlainWrite(direct[r], p))
        PROVE  Tables /\ \A q \in Requests : RequestMirrored(q)'
    BY <2>1, <2>2, <2>5, WriteMirrors
  <2>6. ASSUME Call(r, FlushCall(writer[r]), FlushDirect(direct[r], Buffered(r)))
        PROVE  Tables /\ \A q \in Requests : RequestMirrored(q)'
    BY <2>1, <2>2, <2>6, FlushMirrors
  <2> QED
    BY <1>10, <2>3, <2>4, <2>5, <2>6 DEF HandlerCall
<1>11. ASSUME NEW r \in Requests, Return(r)
       PROVE  Tables /\ \A q \in Requests : RequestMirrored(q)'
  <2> DEFINE a == Finish(writer[r], body[r])
             b == [Bypassed EXCEPT !.under = a]
             e == PlainEnd(direct[r])
  <2>0. /\ pc[r] = "handler" /\ pc' = [pc EXCEPT ![r] = "answered"] /\ body' = body /\ ran' = ran
        /\ Call(r, b, e) /\ calls' = calls
    BY <1>11 DEF Return, Goto, asked
  <2>1. /\ Mirrors(writer[r], direct[r], Buffered(r)) /\ (Buffered(r))' = Buffered(r)
        /\ r \notin ran => direct[r].header = "application/json"
        /\ Buffered(r) \in BOOLEAN /\ direct[r] \in PlainWriter
    BY <2>0 DEF Mirrored, RequestMirrored, Mirrors, Buffered
  <2>2. b.under = a
    BY DEF Bypassed, NewBuffered
  <2>3. IF /\ Held(e, Buffered(r)) /\ e.status = BadRequest /\ e.header = "text/plain"
           /\ mapSDKError(e.body) # NoCode
        THEN /\ a.status = OK /\ a.sent = "application/json" /\ a.body = <<>>
             /\ a.rpc = [code |-> mapSDKError(e.body), id |-> extractID(body[r])]
        ELSE a = IF Held(e, Buffered(r)) THEN [e EXCEPT !.sent = e.header] ELSE e
    BY <2>1, FinishDelivers
  <2>4. r \notin ran => e.header = "application/json"
    <3>1. e.header = direct[r].header
      BY <2>1, PlainCalls DEF PlainEnd
    <3> QED
      BY <2>1, <3>1
  <2> HIDE DEF a, b, e
  <2>5. /\ Tables /\ writer'[r] = b /\ direct'[r] = e
        /\ \A q \in Requests \ {r} : RequestMirrored(q)'
    <3>1. \A q \in Requests \ {r} :
             pc'[q] = pc[q] /\ calls'[q] = calls[q] /\ (q \in ran' <=> q \in ran)
      BY <2>0 DEF TypeOK
    <3> QED
      BY <2>0, <3>1, CallMirrors
  <2>6. Delivered(r)'
    <3>0. /\ (Held(direct[r], Buffered(r)))' <=> Held(e, Buffered(r))
          /\ direct'[r] = e /\ writer'[r].under = a
      BY <2>1, <2>2, <2>5 DEF Held
    <3>1. (Rewritten(r))' <=> /\ Held(e, Buffered(r)) /\ e.status = BadRequest
                              /\ e.header = "text/plain"
                              /\ mapSDKError(e.body) # NoCode
      BY <2>0, <2>4, <3>0 DEF Rewritten
    <3> QED
      BY <2>0, <2>3, <3>0, <3>1 DEF Delivered
  <2>7. RequestMirrored(r)'
    BY <2>0, <2>6 DEF RequestMirrored, TypeOK
  <2> QED
    BY <2>5, <2>7
<1>12. ASSUME NEW r \in Requests, Close(r)
       PROVE  Tables /\ \A q \in Requests : RequestMirrored(q)'
  <2>1. /\ pc' = [pc EXCEPT ![r] = "done"] /\ body' = [body EXCEPT ![r] = "get"]
        /\ writer' = [writer EXCEPT ![r] = NewBuffered]
        /\ direct' = [direct EXCEPT ![r] = NewPlain] /\ ran' = ran \ {r}
        /\ calls' = [calls EXCEPT ![r] = 0]
    BY <1>12 DEF Close, Goto
  <2>2. Tables
    BY <2>1 DEF Mirrored, Tables
  <2>3. RequestMirrored(r)'
    BY <2>1 DEF Mirrored, TypeOK, RequestMirrored
  <2>4. ASSUME NEW q \in Requests, q # r PROVE RequestMirrored(q)'
    <3>1. Untouched(q)
      BY <2>1, <2>4 DEF Untouched, Mirrored, TypeOK
    <3> QED
      BY <3>1, UntouchedMirrored DEF Mirrored
  <2> QED
    BY <2>2, <2>3, <2>4
<1> QED
  BY <1>2, <1>3, <1>4, <1>5, <1>6, <1>7, <1>8, <1>9, <1>10, <1>11, <1>12
     DEF Next, Serve, Authentication, Handler

LEMMA MirroredInvariance == Spec => [](TypeOK /\ Mirrored)
<1>1. Init => Mirrored
  BY DEF Init, Mirrored, RequestMirrored
<1>2. IInv => TypeOK
  BY DEF IInv
<1>3. TypeOK /\ Mirrored /\ [Next]_vars => Mirrored'
  BY MirroredStep
<1> QED
  BY <1>1, <1>2, <1>3, Invariance, PTL DEF Spec

\* envelope and bufferedResponseWriter: whatever a handler writes and whenever it
\* sets headers, its client gets exactly that, apart from what buffering an error
\* answer loses (a first Flush, the headers as of WriteHeader), or the one JSON-RPC
\* envelope a known SDK error with 400 and text/plain becomes.
THEOREM EnvelopeIsTransparent == Spec => []EnvelopeTransparent
<1>1. Mirrored => EnvelopeTransparent
  BY DEF Mirrored, RequestMirrored, EnvelopeTransparent, Delivered, Rewritten, Held, Buffered,
         extractID
<1> QED
  BY <1>1, MirroredInvariance, PTL

\* bufferedResponseWriter.WriteHeader: from its first status or byte on, an answer
\* below 400 or an event stream is not held back, for any sequence of headers,
\* writes and flushes.
THEOREM StartedStreamsAreUnheld == Spec => []StreamsUnheldOnceStarted
<1>1. Mirrored => StreamsUnheldOnceStarted
  <2> SUFFICES ASSUME Mirrored, NEW r \in Requests, direct[r].status # 0,
                      direct[r].status < BadRequest \/ direct[r].sent = "text/event-stream"
               PROVE  writer[r].under = direct[r]
    BY DEF StreamsUnheldOnceStarted
  <2>0. RequestMirrored(r)
    BY DEF Mirrored
  <2>1. CASE pc[r] \notin {"handler", "answered"}
    BY <2>0, <2>1, NewWriters DEF RequestMirrored
  <2>2. CASE pc[r] = "handler"
    BY <2>0, <2>2 DEF RequestMirrored, Mirrors, Streams
  <2>3. CASE pc[r] = "answered"
    <3>1. ~ Held(direct[r], Buffered(r))
      BY DEF Held, BadRequest
    <3> QED
      BY <2>0, <2>3, <3>1 DEF RequestMirrored, Delivered, Rewritten
  <2> QED
    BY <2>1, <2>2, <2>3
<1> QED
  BY <1>1, MirroredInvariance, PTL
=============================================================================
