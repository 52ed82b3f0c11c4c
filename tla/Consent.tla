------------------------------ MODULE Consent ------------------------------
(***************************************************************************)
(* The authorization endpoint: oauth/consent (Handler and the default      *)
(* approval store), hmacstore and sessionstore.                            *)
(*                                                                         *)
(* Every POST of a browser is a goroutine: a login mints an approval token *)
(* and renders the consent page; an approve or a deny brings the token     *)
(* back. A step is the code between two clock reads, store calls or calls  *)
(* of the consumer's policy.                                               *)
(*                                                                         *)
(* A token is named after the login POST that minted it. Forms, pages and  *)
(* signatures are left out: a token that no login minted is None, and the  *)
(* digest of the OAuth parameters is the parameters.                       *)
(***************************************************************************)
EXTENDS Integers, FiniteSets

CONSTANTS
    Posts,       \* POSTs the browsers may send, each used once
    Subjects,    \* users who know their password
    Piped,       \* users whose ID contains the separator "|"
    Params,      \* OAuth parameters of an authorization request
    None,        \* no token, no user
    TTL,         \* ApprovalTokenTTL
    MaxTime,     \* bound on the clock
    MaxCrashes   \* bound on process restarts

ASSUME ConsentConstants ==
    /\ Piped \subseteq Subjects
    /\ None \notin Posts /\ None \notin Subjects /\ None \notin Params
    /\ TTL \in Nat /\ MaxTime \in Nat /\ MaxCrashes \in Nat

\* The deployment, fixed at the start.
VARIABLES
    backend,     \* "hmac" (default store and hmacstore) or "session" (sessionstore)
    durable,     \* the session backend survives a restart
    storeFails   \* its calls may return an error

VARIABLES
    now,
    stored,     \* the issued map, or the backend's entries
    expires,    \* a token's expiry
    pc, act,    \* of a POST: where it is, its "action"
    who, par,   \* the subject it acts for, its OAuth parameters
    tok,        \* the approval_token it brings
    codes,      \* POSTs answered with an authorization code
    taken,      \* history: which POST removed a token by consuming it
    acceptedAt, \* history: when Consume returned a subject
    denied,     \* history: tokens on which a deny was answered
    refused,    \* history: POSTs whose Consume returned ErrApprovalTokenInvalid
    crashes

setup   == <<backend, durable, storeFails>>
request == <<act, par, tok>>
vars == <<setup, now, stored, expires, pc, who, request, codes, taken, acceptedAt, refused,
          denied, crashes>>

Never == -1

Init ==
    /\ backend \in {"hmac", "session"} /\ durable \in BOOLEAN /\ storeFails \in BOOLEAN
    /\ backend = "hmac" => ~ durable /\ ~ storeFails
    /\ now = 0
    /\ stored = {}
    /\ expires = [t \in Posts |-> 0]
    /\ pc = [r \in Posts |-> "idle"]
    /\ act = [r \in Posts |-> "login"]
    /\ who = [r \in Posts |-> None]
    /\ par = [r \in Posts |-> None]
    /\ tok = [r \in Posts |-> None]
    /\ codes = {}
    /\ taken = [t \in Posts |-> None]
    /\ acceptedAt = [r \in Posts |-> Never]
    /\ refused = {}
    /\ denied = {}
    /\ crashes = 0

Goto(r, p) == pc' = [pc EXCEPT ![r] = p]

Tick ==
    /\ now < MaxTime
    /\ now' = now + 1
    /\ UNCHANGED <<stored, expires, pc, who, request, codes, taken, acceptedAt, refused,
                   denied, crashes>>

-----------------------------------------------------------------------------
(* action=login: Handler.handleLogin *)

\* The POST is parsed and the password is right; any other POST is answered with
\* a page and changes nothing.
PostLogin(r, s, p) ==
    /\ pc[r] = "idle"
    /\ Goto(r, "policy")
    /\ act' = [act EXCEPT ![r] = "login"]
    /\ who' = [who EXCEPT ![r] = s]
    /\ par' = [par EXCEPT ![r] = p]
    /\ UNCHANGED <<now, stored, expires, tok, codes, taken, acceptedAt, refused, denied, crashes>>

\* ValidateScopes refuses, AllowsSkip skips the page, or the flow goes on.
Policy(r) ==
    /\ pc[r] = "policy"
    /\ \E p \in {"done", "complete", "challenge"} : Goto(r, p)
    /\ UNCHANGED <<now, stored, expires, who, request, codes, taken, acceptedAt, refused,
                   denied, crashes>>

\* ChallengeProvider.Begin demands a second factor (the login page is rendered again) or
\* fails (server_error), or the flow goes on.
Challenge(r) ==
    /\ pc[r] = "challenge"
    /\ \E p \in {"done", "stamp"} : Goto(r, p)
    /\ UNCHANGED <<now, stored, expires, who, request, codes, taken, acceptedAt, refused,
                   denied, crashes>>

\* Issue computes the expiry ...
Stamp(r) ==
    /\ pc[r] = "stamp"
    /\ expires' = [expires EXCEPT ![r] = now + TTL]
    /\ Goto(r, "issue")
    /\ UNCHANGED <<now, stored, who, request, codes, taken, acceptedAt, refused, denied, crashes>>

\* Mutant: a token is recorded again when its page is shown again.
IssueAgain(r) ==
    /\ pc[r] \in {"issue", "consentPage"}
    /\ stored' = stored \cup {r}
    /\ Goto(r, "consentPage")
    /\ UNCHANGED <<now, expires, who, request, codes, taken, acceptedAt, refused, denied, crashes>>

\* ... then records the token; the consent page is rendered.
Issue(r) ==
    /\ pc[r] = "issue"
    /\ stored' = stored \cup {r}
    /\ Goto(r, "consentPage")
    /\ UNCHANGED <<now, expires, who, request, codes, taken, acceptedAt, refused, denied, crashes>>

\* SessionBackend.Put fails: server_error.
IssueFails(r) ==
    /\ pc[r] = "issue"
    /\ storeFails /\ backend = "session"
    /\ Goto(r, "done")
    /\ UNCHANGED <<now, stored, expires, who, request, codes, taken, acceptedAt, refused,
                   denied, crashes>>

-----------------------------------------------------------------------------
(* action=approve and action=deny: ApprovalStore.Consume *)

Shown == {t \in Posts : pc[t] = "consentPage"}

PostDecision(r, a, t, p) ==
    /\ pc[r] = "idle"
    /\ Goto(r, "check")
    /\ act' = [act EXCEPT ![r] = a]
    /\ tok' = [tok EXCEPT ![r] = t]
    /\ par' = [par EXCEPT ![r] = p]
    /\ UNCHANGED <<now, stored, expires, who, codes, taken, acceptedAt, refused,
                   denied, crashes>>

\* The token cannot be read: no login minted it, or its subject's ID splits the
\* HMAC payload into too many parts.
Unreadable(t) == IF t = None THEN TRUE ELSE backend = "hmac" /\ who[t] \in Piped

\* Mutant: the digest is not compared.
UnboundMismatch(r) == FALSE

\* The digest in the token is not the digest of this POST's parameters.
Mismatch(r) == par[tok[r]] # par[r]

\* Consume fails: the handler renders the login page, or ignores it for a deny.
Refuse(r) ==
    /\ refused' = refused \cup {r}
    /\ Goto(r, IF act[r] = "approve" THEN "done" ELSE "deny")

\* Mutant: a deny is answered without consuming the token.
CheckSkipsDeny(r) ==
    /\ pc[r] = "check"
    /\ Goto(r, IF act[r] = "deny" THEN "deny" ELSE IF tok[r] = None THEN "done" ELSE "consume")
    /\ UNCHANGED <<now, stored, expires, who, request, codes, taken, acceptedAt, refused,
                   denied, crashes>>

\* The checks before the store: readable, not expired (hmac only; an expired token
\* is deleted), and bound to these parameters.
Check(r) ==
    /\ pc[r] = "check"
    /\ LET t == tok[r]
           expired == backend = "hmac" /\ now > expires[t]
       IN  \/ /\ Unreadable(t)
              /\ Refuse(r)
              /\ UNCHANGED stored
           \/ /\ ~ Unreadable(t) /\ expired
              /\ Refuse(r)
              /\ stored' = stored \ {t}
           \/ /\ ~ Unreadable(t) /\ ~ expired /\ Mismatch(r)
              /\ Refuse(r)
              /\ UNCHANGED stored
           \/ /\ ~ Unreadable(t) /\ ~ expired /\ ~ Mismatch(r)
              /\ Goto(r, "consume")
              /\ UNCHANGED <<stored, refused>>
    /\ UNCHANGED <<now, expires, who, request, codes, taken, acceptedAt, denied, crashes>>

\* Consume returns the subject the token was minted for.
Accept(r) ==
    /\ who' = [who EXCEPT ![r] = who[tok[r]]]
    /\ acceptedAt' = [acceptedAt EXCEPT ![r] = now]
    /\ Goto(r, IF act[r] = "approve" THEN "complete" ELSE "deny")

\* Mutant: looking the token up does not delete it.
ConsumeKeeps(r) ==
    /\ pc[r] = "consume"
    /\ tok[r] \in stored /\ now < expires[tok[r]]
    /\ taken' = [taken EXCEPT ![tok[r]] = r]
    /\ Accept(r)
    /\ UNCHANGED <<now, stored, expires, request, codes, refused, denied, crashes>>

\* consumeStored, or SessionBackend.Pull: one lock section looks the token up and
\* deletes it. The HMAC stores compare the expiry inside it, sessionstore after it.
Consume(r) ==
    /\ pc[r] = "consume"
    /\ LET t == tok[r]
       IN  \/ /\ t \notin stored
              /\ Refuse(r)
              /\ UNCHANGED <<stored, taken, who, acceptedAt>>
           \/ /\ t \in stored
              /\ stored' = stored \ {t}
              /\ taken' = [taken EXCEPT ![t] = r]
              /\ \/ /\ backend = "hmac" /\ now < expires[t]
                    /\ Accept(r)
                    /\ UNCHANGED refused
                 \/ /\ backend = "hmac" /\ now >= expires[t]
                    /\ Refuse(r)
                    /\ UNCHANGED <<who, acceptedAt>>
                 \/ /\ backend = "session"
                    /\ Goto(r, "pulled")
                    /\ UNCHANGED <<who, acceptedAt, refused>>
    /\ UNCHANGED <<now, expires, request, codes, denied, crashes>>

\* Mutant: sessionstore relies on the backend's lifetime alone.
PulledUnchecked(r) ==
    /\ pc[r] = "pulled"
    /\ Accept(r)
    /\ UNCHANGED <<now, stored, expires, request, codes, taken, refused, denied, crashes>>

\* sessionstore reads the clock after Pull; the entry is gone either way.
Pulled(r) ==
    /\ pc[r] = "pulled"
    /\ \/ /\ now <= expires[tok[r]]
          /\ Accept(r)
          /\ UNCHANGED refused
       \/ /\ now > expires[tok[r]]
          /\ Refuse(r)
          /\ UNCHANGED <<who, acceptedAt>>
    /\ UNCHANGED <<now, stored, expires, request, codes, taken, denied, crashes>>

\* Pull fails without effect: an approve is answered like an invalid token, a deny
\* goes on.
ConsumeFails(r) ==
    /\ pc[r] = "consume"
    /\ storeFails /\ backend = "session"
    /\ Goto(r, IF act[r] = "approve" THEN "done" ELSE "deny")
    /\ UNCHANGED <<now, stored, expires, who, request, codes, taken, acceptedAt, refused,
                   denied, crashes>>

\* A deny is audited and answered with access_denied whatever Consume said.
Deny(r) ==
    /\ pc[r] = "deny"
    /\ Goto(r, "done")
    /\ denied' = IF tok[r] # None /\ par[r] = par[tok[r]] THEN denied \cup {tok[r]} ELSE denied
    /\ UNCHANGED <<now, stored, expires, who, request, codes, taken, acceptedAt, refused,
                   crashes>>

-----------------------------------------------------------------------------
(* completeApprove *)

\* The scopes are validated again, the code rows are written, the event is emitted
\* and the browser is redirected.
Complete(r) ==
    /\ pc[r] = "complete"
    /\ codes' = codes \cup {r}
    /\ Goto(r, "done")
    /\ UNCHANGED <<now, stored, expires, who, request, taken, acceptedAt, refused, denied,
                   crashes>>

\* The policy changed its mind, the resource URL or the code could not be made: the
\* token is spent and there is no code.
CompleteFails(r) ==
    /\ pc[r] = "complete"
    /\ Goto(r, "done")
    /\ UNCHANGED <<now, stored, expires, who, request, codes, taken, acceptedAt, refused,
                   denied, crashes>>

\* A restart drops the POSTs in flight and what is only in memory. The browser
\* keeps its consent pages.
Crash ==
    /\ crashes < MaxCrashes
    /\ crashes' = crashes + 1
    /\ pc' = [r \in Posts |-> IF pc[r] \in {"idle", "consentPage", "done"} THEN pc[r] ELSE "dead"]
    /\ stored' = IF backend = "session" /\ durable THEN stored ELSE {}
    /\ UNCHANGED <<now, expires, who, request, codes, taken, acceptedAt, refused, denied>>

-----------------------------------------------------------------------------
Login(r) == Policy(r) \/ Challenge(r) \/ Stamp(r) \/ Issue(r) \/ IssueFails(r)
Decide(r) == Check(r) \/ Consume(r) \/ Pulled(r) \/ ConsumeFails(r) \/ Deny(r)
Finish(r) == Complete(r) \/ CompleteFails(r)

Next ==
    /\ UNCHANGED setup
    /\ \/ Tick \/ Crash
       \/ \E r \in Posts, p \in Params :
             \/ \E s \in Subjects : PostLogin(r, s, p)
             \/ \E a \in {"approve", "deny"}, t \in Shown \cup {None} : PostDecision(r, a, t, p)
       \/ \E r \in Posts : Login(r) \/ Decide(r) \/ Finish(r)

Spec == Init /\ [][Next]_vars

-----------------------------------------------------------------------------
(* Properties *)

Locations == {"idle", "policy", "challenge", "stamp", "issue", "consentPage", "check",
              "consume", "pulled", "deny", "complete", "done", "dead"}

\* The shape of the authorization endpoint's state.
TypeOK ==
    /\ backend \in {"hmac", "session"} /\ durable \in BOOLEAN /\ storeFails \in BOOLEAN
    /\ now \in Nat /\ crashes \in Nat
    /\ stored \subseteq Posts /\ codes \subseteq Posts
    /\ refused \subseteq Posts /\ denied \subseteq Posts
    /\ expires \in [Posts -> Nat]
    /\ pc \in [Posts -> Locations]
    /\ act \in [Posts -> {"login", "approve", "deny"}]
    /\ who \in [Posts -> Subjects \cup {None}]
    /\ par \in [Posts -> Params \cup {None}]
    /\ tok \in [Posts -> Posts \cup {None}]
    /\ taken \in [Posts -> Posts \cup {None}]
    /\ acceptedAt \in [Posts -> Nat \cup {Never}]

\* "single-use approval tokens" (oauth/README.md): however approvals of one consent
\* page race, retry or cross a restart, at most one of them gets a code.
SingleUse ==
    \A q, r \in codes : (tok[q] = tok[r] /\ tok[r] # None) => q = r

\* A code goes to the user who logged in and to the request he saw: the approval
\* cannot be moved to other parameters or to another user.
BoundToLogin ==
    \A r \in codes : tok[r] # None => par[r] = par[tok[r]] /\ who[r] = who[tok[r]]

\* No approval is accepted after the token's lifetime, even when it expires between
\* the check of the token and the look-up in the store.
AcceptedInTime ==
    \A r \in Posts : acceptedAt[r] # Never => acceptedAt[r] <= expires[tok[r]]

\* Once a deny has been answered nothing consumes the token of that page any more,
\* when the backend works: the deny consumed it, or lost to an earlier approve.
DenyIsFinal ==
    [][~ storeFails => \A t \in denied : taken'[t] = taken[t]]_vars

\* The store implements what its interface promises.
Promise == INSTANCE OneTimeTokens WITH
    Tokens <- Posts, Callers <- Posts, Nobody <- None, live <- stored,
    issued <- Shown, takenBy <- taken
ImplementsPromise == Promise!Spec

\* What store.go says of ErrApprovalTokenInvalid: it "covers expired, forged,
\* replayed, and mismatched approval tokens".
RefusalsExplained ==
    \A r \in refused :
        \/ tok[r] = None \/ par[r] # par[tok[r]]
        \/ taken[tok[r]] # None
        \/ now >= expires[tok[r]]
        \/ crashes > 0
=============================================================================
