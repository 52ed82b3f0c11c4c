------------------------- MODULE AuthorizationCode -------------------------
(***************************************************************************)
(* The authorization_code grant: the rows an authorization response writes *)
(* and a token request reads and writes through oauth/storage (Storage and *)
(* MemoryStore), in the order fosite calls them.                           *)
(*                                                                         *)
(* A code is named c; its authorization code, PKCE and OpenID Connect rows *)
(* share its signature, and all tokens minted from it share its request    *)
(* ID. A token pair is named after the token request that minted it.       *)
(* Writes inside a transaction of a TransactionalStore appear at Commit.   *)
(* All codes belong to one client, whose registration (RegistrationHandler)*)
(* says whether it is public and whether it has the refresh_token grant.   *)
(***************************************************************************)
EXTENDS Integers, FiniteSets

CONSTANTS
    Requests,       \* token requests, each used once
    Codes,          \* authorization codes the endpoint may issue
    None,           \* no code
    StoreFails,     \* store calls may return an error
    MaxCrashes      \* bound on process restarts

ASSUME CodeConstants ==
    /\ None \notin Codes
    /\ StoreFails \in BOOLEAN /\ MaxCrashes \in Nat

\* The deployment, fixed at the start.
VARIABLES
    public,         \* the client registered token_endpoint_auth_method "none"
    refreshable,    \* the client registered the refresh_token grant
    transactional   \* the Store implements TransactionalStore

VARIABLES
    issuing,    \* how far the authorization response of a code got
    code,       \* the authorization_code row: none, active or inactive
    pkce, oidc, \* codes whose PKCE and OpenID Connect rows are in the store
    expired,    \* codes older than AuthorizeCodeLifespan
    access,     \* requests whose access-token row is in the store
    refresh,    \* requests whose refresh-token row is in the store
    pc, cd,     \* of a token request: where it is, the code it brings
    proven,     \* requests that bring the right code_verifier
    bare,       \* requests that bring no code_verifier
    answered,   \* requests answered 200 with their pair
    minted,     \* history: requests that stored their tokens
    burned,     \* history: codes tried with a wrong verifier, to the end
    late,       \* history: requests that arrived after that
    clean,      \* history: reuse detections that overlapped no exchange
    reused,     \* history: codes on which such a detection finished
    crashes

brought == <<cd, proven, bare>>
rows    == <<code, pkce, oidc, access, refresh>>
history == <<minted, burned, late, clean, reused>>
setup   == <<public, refreshable, transactional>>
vars == <<setup, issuing, rows, expired, pc, brought, answered, history, crashes>>

Init ==
    /\ public \in BOOLEAN /\ refreshable \in BOOLEAN /\ transactional \in BOOLEAN
    /\ issuing = [c \in Codes |-> "start"]
    /\ code = [c \in Codes |-> "none"]
    /\ pkce = {} /\ oidc = {} /\ expired = {}
    /\ access = {} /\ refresh = {}
    /\ pc = [r \in Requests |-> "idle"]
    /\ cd = [r \in Requests |-> None]
    /\ proven = {} /\ bare = {} /\ answered = {}
    /\ minted = {} /\ burned = {} /\ late = {} /\ clean = {} /\ reused = {}
    /\ crashes = 0

Goto(r, p) == pc' = [pc EXCEPT ![r] = p]
OnCode(c)  == {r \in Requests : cd[r] = c}

\* Between the second look-up of the code and the last write of the exchange.
Writing == {"invalidate", "createAccess", "createRefresh", "commit"}

-----------------------------------------------------------------------------
(* NewAuthorizeResponse: three rows, one after the other, no transaction *)

CreateCode(c) ==
    /\ issuing[c] = "start"
    /\ code' = [code EXCEPT ![c] = "active"]
    /\ issuing' = [issuing EXCEPT ![c] = "oidc"]
    /\ UNCHANGED <<pkce, oidc, access, refresh, expired, pc, brought, answered, history, crashes>>

\* Only a request with the openid scope has an OpenID Connect row.
CreateOIDC(c) ==
    /\ issuing[c] = "oidc"
    /\ oidc' \in {oidc, oidc \cup {c}}
    /\ issuing' = [issuing EXCEPT ![c] = "pkce"]
    /\ UNCHANGED <<code, pkce, access, refresh, expired, pc, brought, answered, history, crashes>>

CreatePKCE(c) ==
    /\ issuing[c] = "pkce"
    /\ pkce' = pkce \cup {c}
    /\ issuing' = [issuing EXCEPT ![c] = "shown"]
    /\ UNCHANGED <<code, oidc, access, refresh, expired, pc, brought, answered, history, crashes>>

\* A write fails: the browser gets an error and no code.
IssueFails(c) ==
    /\ StoreFails
    /\ issuing[c] \in {"start", "oidc", "pkce"}
    /\ issuing' = [issuing EXCEPT ![c] = "lost"]
    /\ UNCHANGED <<rows, expired, pc, brought, answered, history, crashes>>

Expire(c) ==
    /\ c \notin expired
    /\ expired' = expired \cup {c}
    /\ UNCHANGED <<issuing, rows, pc, brought, answered, history, crashes>>

-----------------------------------------------------------------------------
(* NewAccessRequest *)

Verifiers == {"right", "wrong", "absent"}

\* A client brings a code that was shown to it.
Arrive(r, c, verifier) ==
    /\ pc[r] = "idle"
    /\ issuing[c] = "shown"
    /\ Goto(r, "lookup")
    /\ cd' = [cd EXCEPT ![r] = c]
    /\ proven' = IF verifier = "right" THEN proven \cup {r} ELSE proven
    /\ bare' = IF verifier = "absent" THEN bare \cup {r} ELSE bare
    /\ late' = IF c \in burned THEN late \cup {r} ELSE late
    /\ UNCHANGED <<issuing, rows, expired, answered, minted, burned, clean, reused, crashes>>

\* GetAuthorizeCodeSession: an inactive row is ErrInvalidatedAuthorizeCode, on which
\* fosite revokes what the code has given; an expired code is refused.
Lookup(r) ==
    /\ pc[r] = "lookup"
    /\ LET c == cd[r]
           quiet == \A q \in OnCode(c) : pc[q] \notin Writing
       IN  \/ /\ code[c] = "inactive"
              /\ Goto(r, "reuseAccess")
              /\ clean' = IF quiet THEN clean \cup {r} ELSE clean
           \/ /\ code[c] = "active"
              /\ Goto(r, IF c \in expired THEN "failed" ELSE "pkceGet")
              /\ UNCHANGED clean
    /\ UNCHANGED <<issuing, rows, expired, brought, answered, minted, burned, late,
                   reused, crashes>>

\* Mutant: the tokens are looked up by something else than the request ID.
ReuseAccessMisses(r) ==
    /\ pc[r] = "reuseAccess"
    /\ access' = access \ {r}
    /\ Goto(r, "reuseRefresh")
    /\ UNCHANGED <<issuing, code, pkce, oidc, refresh, expired, brought, answered, history, crashes>>

\* RevokeAccessToken, then RevokeRefreshToken, by the request ID of the code.
ReuseAccess(r) ==
    /\ pc[r] = "reuseAccess"
    /\ access' = access \ OnCode(cd[r])
    /\ Goto(r, "reuseRefresh")
    /\ UNCHANGED <<issuing, code, pkce, oidc, refresh, expired, brought, answered, history, crashes>>

ReuseRefresh(r) ==
    /\ pc[r] = "reuseRefresh"
    /\ refresh' = refresh \ OnCode(cd[r])
    /\ Goto(r, "failed")
    /\ reused' = IF r \in clean THEN reused \cup {cd[r]} ELSE reused
    /\ UNCHANGED <<issuing, code, pkce, oidc, access, expired, brought, answered, minted,
                   burned, late, clean, crashes>>

\* An error of a revocation is reported, and the other one is still tried.
ReuseFails(r) ==
    /\ StoreFails
    /\ pc[r] \in {"reuseAccess", "reuseRefresh"}
    /\ Goto(r, IF pc[r] = "reuseAccess" THEN "reuseRefresh" ELSE "failed")
    /\ clean' = clean \ {r}
    /\ UNCHANGED <<issuing, rows, expired, brought, answered, minted, burned, late, reused,
                   crashes>>

\* GetPKCERequestSession: without the row the request is refused, but for a
\* confidential client that brings no verifier (EnforcePKCEForPublicClients).
PkceGet(r) ==
    /\ pc[r] = "pkceGet"
    /\ \/ cd[r] \in pkce /\ Goto(r, "pkceDelete")
       \/ cd[r] \notin pkce /\ Goto(r, IF ~ public /\ r \in bare THEN "relookup" ELSE "failed")
    /\ UNCHANGED <<issuing, rows, expired, brought, answered, history, crashes>>

\* Mutants: the verifier is not compared; the row is deleted only on success.
PkceDeleteUnverified(r) ==
    /\ pc[r] = "pkceDelete"
    /\ pkce' = pkce \ {cd[r]}
    /\ Goto(r, "relookup")
    /\ UNCHANGED <<issuing, code, oidc, access, refresh, expired, brought, answered, history, crashes>>
PkceDeleteOnSuccess(r) ==
    /\ pc[r] = "pkceDelete"
    /\ \/ /\ r \in proven
          /\ pkce' = pkce \ {cd[r]}
          /\ Goto(r, "relookup")
          /\ UNCHANGED burned
       \/ /\ r \notin proven
          /\ Goto(r, "failed")
          /\ burned' = burned \cup {cd[r]}
          /\ UNCHANGED pkce
    /\ UNCHANGED <<issuing, code, oidc, access, refresh, expired, brought, answered, minted,
                   late, clean, reused, crashes>>

\* DeletePKCERequestSession comes before the comparison with the code_verifier.
PkceDelete(r) ==
    /\ pc[r] = "pkceDelete"
    /\ pkce' = pkce \ {cd[r]}
    /\ \/ r \in proven /\ Goto(r, "relookup") /\ UNCHANGED burned
       \/ r \notin proven /\ Goto(r, "failed") /\ burned' = burned \cup {cd[r]}
    /\ UNCHANGED <<issuing, code, oidc, access, refresh, expired, brought, answered, minted,
                   late, clean, reused, crashes>>

-----------------------------------------------------------------------------
(* NewAccessResponse *)

\* The code is read again; anything but an active, unexpired one is an error.
Relookup(r) ==
    /\ pc[r] = "relookup"
    /\ Goto(r, IF code[cd[r]] = "active" /\ cd[r] \notin expired THEN "invalidate" ELSE "failed")
    /\ UNCHANGED <<issuing, rows, expired, brought, answered, history, crashes>>

\* Mutant: the code is invalidated outside the transaction.
InvalidateUnbuffered(r) ==
    /\ pc[r] = "invalidate"
    /\ code' = [code EXCEPT ![cd[r]] = "inactive"]
    /\ Goto(r, "createAccess")
    /\ UNCHANGED <<issuing, pkce, oidc, access, refresh, expired, brought, answered, history, crashes>>

\* InvalidateAuthorizeCodeSession.
Invalidate(r) ==
    /\ pc[r] = "invalidate"
    /\ code' = IF transactional THEN code ELSE [code EXCEPT ![cd[r]] = "inactive"]
    /\ Goto(r, "createAccess")
    /\ UNCHANGED <<issuing, pkce, oidc, access, refresh, expired, brought, answered, history, crashes>>

CreateAccess(r) ==
    /\ pc[r] = "createAccess"
    /\ access' = IF transactional THEN access ELSE access \cup {r}
    /\ Goto(r, "createRefresh")
    /\ UNCHANGED <<issuing, code, pkce, oidc, refresh, expired, brought, answered, history, crashes>>

CreateRefresh(r) ==
    /\ pc[r] = "createRefresh"
    /\ refresh' = IF transactional \/ ~ refreshable THEN refresh ELSE refresh \cup {r}
    /\ Goto(r, "commit")
    /\ UNCHANGED <<issuing, code, pkce, oidc, access, expired, brought, answered, history, crashes>>

\* Mutant: the commit loses the invalidation of the code.
CommitLeavesCode(r) ==
    /\ pc[r] = "commit"
    /\ access' = IF transactional THEN access \cup {r} ELSE access
    /\ refresh' = IF transactional /\ refreshable THEN refresh \cup {r} ELSE refresh
    /\ minted' = minted \cup {r}
    /\ Goto(r, "oidcGet")
    /\ UNCHANGED <<issuing, code, pkce, oidc, expired, brought, answered, burned, late,
                   clean, reused, crashes>>

\* Commit makes the writes of a transaction visible.
Commit(r) ==
    /\ pc[r] = "commit"
    /\ code' = IF transactional THEN [code EXCEPT ![cd[r]] = "inactive"] ELSE code
    /\ access' = IF transactional THEN access \cup {r} ELSE access
    /\ refresh' = IF transactional /\ refreshable THEN refresh \cup {r} ELSE refresh
    /\ minted' = minted \cup {r}
    /\ Goto(r, "oidcGet")
    /\ UNCHANGED <<issuing, pkce, oidc, expired, brought, answered, burned, late, clean,
                   reused, crashes>>

\* GetOpenIDConnectSession: no row, no ID token.
OidcGet(r) ==
    /\ pc[r] = "oidcGet"
    /\ Goto(r, IF cd[r] \in oidc THEN "oidcDelete" ELSE "respond")
    /\ UNCHANGED <<issuing, rows, expired, brought, answered, history, crashes>>

OidcDelete(r) ==
    /\ pc[r] = "oidcDelete"
    /\ oidc' = oidc \ {cd[r]}
    /\ Goto(r, "respond")
    /\ UNCHANGED <<issuing, code, pkce, access, refresh, expired, brought, answered, history, crashes>>

Respond(r) ==
    /\ pc[r] = "respond"
    /\ answered' = answered \cup {r}
    /\ Goto(r, "done")
    /\ UNCHANGED <<issuing, rows, expired, brought, history, crashes>>

\* A store call, the commit or the ID-token signature fails: an error is answered.
\* Without a transaction what was written stays.
ExchangeFails(r) ==
    /\ StoreFails
    /\ pc[r] \in Writing \cup
           {"lookup", "pkceGet", "pkceDelete", "relookup", "oidcGet", "oidcDelete"}
    /\ Goto(r, "failed")
    /\ UNCHANGED <<issuing, rows, expired, brought, answered, history, crashes>>

\* A restart ends every request; the rows stay and open transactions do not.
Crash ==
    /\ crashes < MaxCrashes
    /\ crashes' = crashes + 1
    /\ pc' = [r \in Requests |-> IF pc[r] \in {"idle", "done", "failed"} THEN pc[r] ELSE "failed"]
    /\ issuing' = [c \in Codes |-> IF issuing[c] \in {"start", "shown"} THEN issuing[c] ELSE "lost"]
    /\ UNCHANGED <<rows, expired, brought, answered, history>>

-----------------------------------------------------------------------------
Authorize(c) == CreateCode(c) \/ CreateOIDC(c) \/ CreatePKCE(c) \/ IssueFails(c) \/ Expire(c)
Reuse(r)     == ReuseAccess(r) \/ ReuseRefresh(r) \/ ReuseFails(r)
Exchange(r)  == \/ Lookup(r) \/ PkceGet(r) \/ PkceDelete(r) \/ Relookup(r) \/ Invalidate(r)
                \/ CreateAccess(r) \/ CreateRefresh(r) \/ Commit(r) \/ OidcGet(r)
                \/ OidcDelete(r) \/ Respond(r) \/ ExchangeFails(r)

Next ==
    /\ UNCHANGED setup
    /\ \/ Crash
       \/ \E c \in Codes : Authorize(c)
       \/ \E r \in Requests, c \in Codes, verifier \in Verifiers : Arrive(r, c, verifier)
       \/ \E r \in Requests : Reuse(r) \/ Exchange(r)

Spec == Init /\ [][Next]_vars

-----------------------------------------------------------------------------
(* Properties *)

Locations == {"idle", "lookup", "reuseAccess", "reuseRefresh", "pkceGet", "pkceDelete",
              "relookup", "oidcGet", "oidcDelete", "respond", "done", "failed"} \cup Writing

\* The shape of the rows and of the requests.
TypeOK ==
    /\ public \in BOOLEAN /\ refreshable \in BOOLEAN /\ transactional \in BOOLEAN
    /\ issuing \in [Codes -> {"start", "oidc", "pkce", "shown", "lost"}]
    /\ code \in [Codes -> {"none", "active", "inactive"}]
    /\ pkce \subseteq Codes /\ oidc \subseteq Codes /\ expired \subseteq Codes
    /\ access \subseteq Requests /\ refresh \subseteq Requests
    /\ pc \in [Requests -> Locations]
    /\ cd \in [Requests -> Codes \cup {None}]
    /\ \A r \in Requests : pc[r] # "idle" => cd[r] \in Codes
    /\ proven \subseteq Requests /\ bare \subseteq Requests /\ answered \subseteq Requests
    /\ minted \subseteq Requests /\ late \subseteq Requests /\ clean \subseteq Requests
    /\ burned \subseteq Codes /\ reused \subseteq Codes
    /\ crashes \in Nat

\* A token in the store always has a spent code behind it, so a second use of the
\* code is recognised as reuse from the moment the first token can be used.
TokensSpendTheCode ==
    \A r \in access \cup refresh : code[cd[r]] = "inactive"

\* PKCE: a token is only ever stored for a request that proved its verifier (or, of a
\* confidential client, brought none), and the code's PKCE row is gone by then.
TokensAreProven ==
    \A r \in access \cup refresh :
        /\ r \in proven \/ (~ public /\ r \in bare)
        /\ cd[r] \notin pkce

\* A wrong verifier spends a public client's code: no request that arrives after such
\* an attempt has ended gets tokens, whatever else is going on.
WrongVerifierBurns == public => late \cap (access \cup refresh \cup answered) = {}

\* Reuse detection: once a second use of a code, detected while no exchange of it
\* was writing, has been answered, nothing that code gave exists, ever again.
ReuseRevokes ==
    \A r \in access \cup refresh : cd[r] \notin reused

\* With a TransactionalStore a code is never spent for nothing: no failure or
\* restart inactivates it without storing a pair.
SpentMeansMinted ==
    transactional => \A c \in Codes : code[c] = "inactive" => \E r \in minted : cd[r] = c
=============================================================================
