-------------------------- MODULE RefreshRotation --------------------------
(***************************************************************************)
(* The refresh_token grant of the token endpoint and the revocation        *)
(* endpoint: oauth/handlers.go (TokenHandler, handleReplayableRefresh,     *)
(* executeTokenRequest, RevokeHandler), the replay cache and singleflight  *)
(* group of oauth/provider.go, and the session rows of oauth/storage.      *)
(*                                                                         *)
(* Every HTTP request is a goroutine with a program counter; a step is the *)
(* code between two points where another goroutine can be observed: a      *)
(* clock read, a lock section of the cache, a call of the store, a return  *)
(* from singleflight.                                                      *)
(*                                                                         *)
(* A token pair (access + refresh token issued together) is named after    *)
(* the request that minted it; the pair a grant starts with, issued by the *)
(* authorization code exchange, is named after the grant.                  *)
(***************************************************************************)
EXTENDS Integers, FiniteSets

CONSTANTS
    Requests,       \* HTTP requests the clients may send, each used once
    Families,       \* grants: the request_id shared by all rows of one grant
    None,           \* no pair, no leader
    Window,         \* Config.RefreshReplayWindow; 0 switches replay off
    MaxTime,        \* bound on the clock
    MaxCrashes,     \* bound on process restarts
    Transactional,  \* the Store implements TransactionalStore
    StoreFails      \* store calls may return an error (outage, cancelled context)

Pairs == Requests \cup Families

ASSUME ConstantsAssumption ==
    /\ Requests \cap Families = {}
    /\ None \notin Pairs
    /\ Window \in Nat /\ MaxTime \in Nat /\ MaxCrashes \in Nat
    /\ Transactional \in BOOLEAN /\ StoreFails \in BOOLEAN

VARIABLES
    now,        \* what Config.Now returns
    access,     \* pairs whose access-token row is in the store
    refresh,    \* pairs whose refresh-token row is in the store
    grant,      \* the request_id a pair's rows carry
    cache,      \* refreshReplayCache.entries, by the presented token
    flight,     \* refreshReplayCache.group: the leader of each running call
    pc, tok,    \* of a request: where it is, the pair whose token it presents
    t0,         \* its `now`, read before the first cache lookup
    rotationAt, \* its `rotationAt`, read by the leader before the exchange
    out,        \* its recorded response
    isReplay,   \* leaders whose refreshReplayOutcome.isReplay is set
    resp,       \* the pair of the 200 answer written to the client
    audit,      \* events given to the audit emitter
    crashes,
    succ,       \* history: the request that rotated a pair
    revoking,   \* history: grants on which RevokeRefreshToken has run
    clean,      \* history: revocations that overlapped no rotation
    revoked     \* history: grants a clean revocation has finished on

store  == <<access, refresh, grant>>
clock  == <<now, crashes>>
locals == <<t0, rotationAt>>
revHist == <<revoking, clean, revoked>>
vars == <<now, access, refresh, grant, cache, flight, pc, tok, t0, rotationAt,
          out, isReplay, resp, audit, crashes, succ, revoking, clean, revoked>>

NoTime == -1
Times  == Nat \cup {NoTime}

\* replayedTokenResponse: the body is the pair it carries, None for an error
\* answer; a fresh response has no times; expiresAt is rotatedAt + Window.
Response   == [pair: Pairs \cup {None}, rotatedAt: Times, firstReplayAt: Times,
               replayCount: Nat]
ErrorAnswer == [pair |-> None, rotatedAt |-> NoTime, firstReplayAt |-> NoTime,
                replayCount |-> 0]
NoEntry    == ErrorAnswer
Fresh(r)   == [ErrorAnswer EXCEPT !.pair = r]

Event == [req: Requests, action: {"rotated", "replayed", "failed"},
          tok: Pairs, at: Times, response: Response]

-----------------------------------------------------------------------------
(* Program counters *)

Rotating  == {"deleteAccess", "deleteRefresh", "createAccess", "createRefresh",
              "commit"}
StorePcs  == Rotating \cup {"fetch"}
InFlight  == StorePcs \cup {"recheck", "signIDToken", "respond", "storeReplay",
                          "endFlight"}
Running   == InFlight \cup {"lookup", "join", "wait", "follow", "emitReplay"}
Revoking  == {"revokeRefresh", "revokeAccess"}
Locations == {"idle", "done", "dead"} \cup Running \cup Revoking

Goto(r, l) == pc' = [pc EXCEPT ![r] = l]

Init ==
    /\ now = 0 /\ crashes = 0
    /\ access = Families /\ refresh = Families
    /\ grant = [p \in Pairs |-> IF p \in Families THEN p ELSE None]
    /\ cache = [p \in Pairs |-> NoEntry]
    /\ flight = [p \in Pairs |-> None]
    /\ pc = [r \in Requests |-> "idle"]
    /\ tok = [r \in Requests |-> None]
    /\ t0 = [r \in Requests |-> NoTime]
    /\ rotationAt = [r \in Requests |-> NoTime]
    /\ out = [r \in Requests |-> ErrorAnswer]
    /\ isReplay = {}
    /\ resp = [r \in Requests |-> None]
    /\ audit = {}
    /\ succ = [p \in Pairs |-> None]
    /\ revoking = {} /\ clean = {} /\ revoked = {}

-----------------------------------------------------------------------------
(* Environment *)

Tick ==
    /\ now < MaxTime
    /\ now' = now + 1
    /\ UNCHANGED <<store, cache, flight, pc, tok, locals, out, isReplay, resp,
                   audit, crashes, succ, revHist>>

\* Pairs a client holds: the first one of each grant and every one answered.
Held == Families \cup {resp[r] : r \in {q \in Requests : resp[q] # None}}

\* A restart: the store survives, goroutines, flights and the cache do not.
Crash ==
    /\ crashes < MaxCrashes
    /\ crashes' = crashes + 1
    /\ cache' = [p \in Pairs |-> NoEntry]
    /\ flight' = [p \in Pairs |-> None]
    /\ pc' = [r \in Requests |->
                 IF pc[r] \in Running \cup Revoking THEN "dead" ELSE pc[r]]
    /\ UNCHANGED <<now, store, tok, locals, out, isReplay, resp, audit, succ,
                   revHist>>

-----------------------------------------------------------------------------
(* refreshReplayCache *)

\* Mutant: an entry is still served at the instant it expires.
ExpiredLate(entry, t) == ~ (entry.rotatedAt + Window >= t)

Expired(entry, t) == ~ (entry.rotatedAt + Window > t)

\* refreshReplayCache.replay: what the lookup of p at time t returns ...
Hit(p, t) == cache[p].pair # None /\ ~ Expired(cache[p], t)

\* Mutant: the lookup forgets the count.
CountedNever(entry, t) ==
    [entry EXCEPT !.firstReplayAt = IF @ = NoTime THEN t ELSE @]

Counted(entry, t) ==
    [pair |-> entry.pair, rotatedAt |-> entry.rotatedAt,
     firstReplayAt |-> IF entry.firstReplayAt = NoTime THEN t ELSE entry.firstReplayAt,
     replayCount |-> entry.replayCount + 1]

\* ... and the entry it leaves: counted on a hit, deleted when expired.
AfterLookup(p, t) == IF Hit(p, t) THEN Counted(cache[p], t) ELSE NoEntry

-----------------------------------------------------------------------------
(* handleReplayableRefresh *)

\* TokenHandler: a refresh request arrives; with a replay window it reads the
\* clock before its first cache lookup, without one it goes to the exchange.
Arrive(r, p) ==
    /\ pc[r] = "idle"
    /\ p \in Held
    /\ tok' = [tok EXCEPT ![r] = p]
    /\ grant' = [grant EXCEPT ![r] = grant[p]]
    /\ t0' = [t0 EXCEPT ![r] = now]
    /\ Goto(r, IF Window > 0 THEN "lookup" ELSE "fetch")
    /\ UNCHANGED <<clock, access, refresh, cache, flight, rotationAt, out,
                   isReplay, resp, audit, succ, revHist>>

\* The fast path: a hit is written to the client at once and audited after.
FastPath(r) ==
    LET p == tok[r] IN
    /\ pc[r] = "lookup"
    /\ cache' = [cache EXCEPT ![p] = AfterLookup(p, t0[r])]
    /\ IF Hit(p, t0[r])
       THEN /\ out' = [out EXCEPT ![r] = cache'[p]]
            /\ resp' = [resp EXCEPT ![r] = cache'[p].pair]
            /\ Goto(r, "emitReplay")
       ELSE Goto(r, "join") /\ UNCHANGED <<out, resp>>
    /\ UNCHANGED <<clock, store, flight, tok, locals, isReplay, audit, succ,
                   revHist>>

\* Mutant: every request leads a call of its own.
JoinAlone(r) ==
    /\ pc[r] = "join"
    /\ flight' = [flight EXCEPT ![tok[r]] = r]
    /\ Goto(r, "recheck")
    /\ UNCHANGED <<clock, store, cache, tok, locals, out, isReplay, resp, audit,
                   succ, revHist>>

\* singleflight.Group.Do: lead the call on this token, or wait for its leader.
Join(r) ==
    /\ pc[r] = "join"
    /\ IF flight[tok[r]] = None
       THEN flight' = [flight EXCEPT ![tok[r]] = r] /\ Goto(r, "recheck")
       ELSE UNCHANGED flight /\ Goto(r, "wait")
    /\ UNCHANGED <<clock, store, cache, tok, locals, out, isReplay, resp, audit,
                   succ, revHist>>

\* The leader looks again, with the clock read anew; on a miss it stamps the
\* rotation time. (A tick between the two reads is a tick before both: a miss
\* stays a miss until this leader stores an entry.)
Recheck(r) ==
    LET p == tok[r] IN
    /\ pc[r] = "recheck"
    /\ cache' = [cache EXCEPT ![p] = AfterLookup(p, now)]
    /\ IF Hit(p, now)
       THEN /\ out' = [out EXCEPT ![r] = cache'[p]]
            /\ isReplay' = isReplay \cup {r}
            /\ Goto(r, "endFlight")
            /\ UNCHANGED rotationAt
       ELSE /\ rotationAt' = [rotationAt EXCEPT ![r] = now]
            /\ Goto(r, "fetch")
            /\ UNCHANGED <<out, isReplay>>
    /\ UNCHANGED <<clock, store, flight, tok, t0, resp, audit, succ, revHist>>

\* Mutant: on an error answer the leader returns without ending its call.
StoreReplayAbandons(r) ==
    /\ pc[r] = "storeReplay"
    /\ IF out[r].pair # None
       THEN /\ cache' = [cache EXCEPT ![tok[r]] =
                             [out[r] EXCEPT !.rotatedAt = rotationAt[r]]]
            /\ Goto(r, "endFlight")
       ELSE UNCHANGED cache /\ Goto(r, "done")
    /\ UNCHANGED <<clock, store, flight, tok, locals, out, isReplay, resp, audit,
                   succ, revHist>>

\* storeRefreshReplay: only a successful answer is kept.
StoreReplay(r) ==
    /\ pc[r] = "storeReplay"
    /\ IF out[r].pair # None
       THEN cache' = [cache EXCEPT ![tok[r]] =
                         [out[r] EXCEPT !.rotatedAt = rotationAt[r]]]
       ELSE UNCHANGED cache
    /\ Goto(r, "endFlight")
    /\ UNCHANGED <<clock, store, flight, tok, locals, out, isReplay, resp, audit,
                   succ, revHist>>

Followers(p) == {q \in Requests : pc[q] = "wait" /\ tok[q] = p}

\* The leader's function returns: the call is forgotten, every waiter gets the
\* outcome, and the leader answers, auditing first if it found a replay.
EndFlight(r) ==
    /\ pc[r] = "endFlight"
    /\ flight' = [flight EXCEPT ![tok[r]] = None]
    /\ out' = [q \in Requests |-> IF q \in Followers(tok[r]) THEN out[r] ELSE out[q]]
    /\ pc' = [q \in Requests |->
                 CASE q \in Followers(tok[r]) -> "follow"
                   [] q = r -> IF r \in isReplay THEN "emitReplay" ELSE "done"
                   [] OTHER -> pc[q]]
    /\ resp' = IF r \in isReplay THEN resp ELSE [resp EXCEPT ![r] = out[r].pair]
    /\ UNCHANGED <<clock, store, cache, tok, locals, isReplay, audit, succ, revHist>>

\* A follower counts its own replay with the time it read on arrival. When the
\* lookup misses it answers with the leader's outcome and emits nothing.
Follow(r) ==
    LET p == tok[r] IN
    /\ pc[r] = "follow"
    /\ cache' = [cache EXCEPT ![p] = AfterLookup(p, t0[r])]
    /\ IF Hit(p, t0[r])
       THEN /\ out' = [out EXCEPT ![r] = cache'[p]]
            /\ Goto(r, "emitReplay")
            /\ UNCHANGED resp
       ELSE /\ resp' = [resp EXCEPT ![r] = out[r].pair]
            /\ Goto(r, "done")
            /\ UNCHANGED out
    /\ UNCHANGED <<clock, store, flight, tok, locals, isReplay, audit, succ, revHist>>

\* emitRefreshReplayAudit, and the answer of the paths that audit before it.
EmitReplay(r) ==
    /\ pc[r] = "emitReplay"
    /\ audit' = audit \cup {[req |-> r, action |-> "replayed", tok |-> tok[r],
                             at |-> t0[r], response |-> out[r]]}
    /\ resp' = [resp EXCEPT ![r] = out[r].pair]
    /\ Goto(r, "done")
    /\ UNCHANGED <<clock, store, cache, flight, tok, locals, out, isReplay, succ,
                   revHist>>

-----------------------------------------------------------------------------
(* executeTokenRequest: fosite's refresh flow over the storage adapter. With
   a transactional store the writes take effect at Commit. *)

RowsOf(f, rows) == {p \in rows : grant[p] = f}

\* NewAccessRequest: GetRefreshTokenSession; no row is invalid_grant.
Fetch(r) ==
    /\ pc[r] = "fetch"
    /\ Goto(r, IF tok[r] \in refresh THEN "deleteAccess" ELSE "respond")
    /\ UNCHANGED <<clock, store, cache, flight, tok, locals, out, isReplay, resp,
                   audit, succ, revHist>>

\* RotateRefreshToken, first half.
DeleteAccess(r) ==
    /\ pc[r] = "deleteAccess"
    /\ access' = IF Transactional THEN access
                 ELSE access \ RowsOf(grant[r], access)
    /\ Goto(r, "deleteRefresh")
    /\ UNCHANGED <<clock, refresh, grant, cache, flight, tok, locals, out, isReplay,
                   resp, audit, succ, revHist>>

\* Mutants: the presented token is left usable; the rows go outside the transaction.
DeleteRefreshSkipped(r) ==
    /\ pc[r] = "deleteRefresh"
    /\ Goto(r, "createAccess")
    /\ UNCHANGED <<clock, store, cache, flight, tok, locals, out, isReplay, resp,
                   audit, succ, revHist>>
DeleteRefreshUnbuffered(r) ==
    /\ pc[r] = "deleteRefresh"
    /\ refresh' = refresh \ RowsOf(grant[r], refresh)
    /\ Goto(r, "createAccess")
    /\ UNCHANGED <<clock, access, grant, cache, flight, tok, locals, out, isReplay,
                   resp, audit, succ, revHist>>

\* RotateRefreshToken, second half.
DeleteRefresh(r) ==
    /\ pc[r] = "deleteRefresh"
    /\ refresh' = IF Transactional THEN refresh
                  ELSE refresh \ RowsOf(grant[r], refresh)
    /\ Goto(r, "createAccess")
    /\ UNCHANGED <<clock, access, grant, cache, flight, tok, locals, out, isReplay,
                   resp, audit, succ, revHist>>

\* CreateAccessTokenSession.
CreateAccess(r) ==
    /\ pc[r] = "createAccess"
    /\ access' = IF Transactional THEN access ELSE access \cup {r}
    /\ Goto(r, "createRefresh")
    /\ UNCHANGED <<clock, refresh, grant, cache, flight, tok, locals, out, isReplay,
                   resp, audit, succ, revHist>>

Minted(r) ==
    /\ succ' = [succ EXCEPT ![tok[r]] = r]
    /\ Goto(r, "signIDToken")

\* CreateRefreshTokenSession; Commit does nothing on a plain store.
CreateRefresh(r) ==
    /\ pc[r] = "createRefresh"
    /\ IF Transactional
       THEN Goto(r, "commit") /\ UNCHANGED <<refresh, succ>>
       ELSE refresh' = refresh \cup {r} /\ Minted(r)
    /\ UNCHANGED <<clock, access, grant, cache, flight, tok, locals, out, isReplay,
                   resp, audit, revHist>>

\* Commit of a TransactionalStore: the whole rotation at once.
Commit(r) ==
    /\ pc[r] = "commit"
    /\ access' = (access \ RowsOf(grant[r], access)) \cup {r}
    /\ refresh' = (refresh \ RowsOf(grant[r], refresh)) \cup {r}
    /\ Minted(r)
    /\ UNCHANGED <<clock, grant, cache, flight, tok, locals, out, isReplay, resp,
                   audit, revHist>>

\* The OpenID Connect handler runs after the rotation is committed: the ID token
\* is signed with the active key, and only then is there a response.
SignIDToken(r) ==
    /\ pc[r] = "signIDToken"
    /\ out' = [out EXCEPT ![r] = Fresh(r)]
    /\ Goto(r, "respond")
    /\ UNCHANGED <<clock, store, cache, flight, tok, locals, isReplay, resp, audit,
                   succ, revHist>>

\* A store call fails: fosite rolls back (which undoes nothing on a plain
\* store) and the request is answered with an error. When the signing key cannot
\* be loaded the rotation is already committed and stays.
ExchangeFails(r) ==
    /\ StoreFails
    /\ pc[r] \in StorePcs \cup {"signIDToken"}
    /\ Goto(r, "respond")
    /\ UNCHANGED <<clock, store, cache, flight, tok, locals, out, isReplay, resp,
                   audit, succ, revHist>>

\* Mutant: only failures reach the audit emitter.
RespondUnaudited(r) ==
    /\ pc[r] = "respond"
    /\ audit' = IF out[r].pair # None THEN audit ELSE audit \cup
          {[req |-> r, action |-> "failed", tok |-> tok[r], at |-> rotationAt[r],
            response |-> out[r]]}
    /\ IF Window > 0
       THEN Goto(r, "storeReplay") /\ UNCHANGED resp
       ELSE Goto(r, "done") /\ resp' = [resp EXCEPT ![r] = out[r].pair]
    /\ UNCHANGED <<clock, store, cache, flight, tok, locals, out, isReplay, succ,
                   revHist>>

\* The end of executeTokenRequest: the rotated or failed audit event. The
\* replayable path goes on to the cache, the plain one answers.
Respond(r) ==
    /\ pc[r] = "respond"
    /\ audit' = audit \cup
          {[req |-> r, action |-> IF out[r].pair = None THEN "failed" ELSE "rotated",
            tok |-> tok[r], at |-> rotationAt[r], response |-> out[r]]}
    /\ IF Window > 0
       THEN Goto(r, "storeReplay") /\ UNCHANGED resp
       ELSE Goto(r, "done") /\ resp' = [resp EXCEPT ![r] = out[r].pair]
    /\ UNCHANGED <<clock, store, cache, flight, tok, locals, out, isReplay, succ,
                   revHist>>

-----------------------------------------------------------------------------
(* RevokeHandler: fosite looks the presented token up (either token of the
   pair), then revokes the refresh rows and the access rows of its grant. *)

ArriveRevoke(r, p, rows) ==
    /\ pc[r] = "idle"
    /\ p \in Held
    /\ tok' = [tok EXCEPT ![r] = p]
    /\ grant' = [grant EXCEPT ![r] = grant[p]]
    /\ Goto(r, IF p \in rows THEN "revokeRefresh" ELSE "done")
    /\ UNCHANGED <<clock, access, refresh, cache, flight, locals, out, isReplay,
                   resp, audit, succ, revHist>>

RotationInProgress(f) ==
    \E q \in Requests : grant[q] = f /\ pc[q] \in Rotating

\* Storage.RevokeRefreshToken
RevokeRefresh(r) ==
    /\ pc[r] = "revokeRefresh"
    /\ refresh' = refresh \ RowsOf(grant[r], refresh)
    /\ revoking' = revoking \cup {grant[r]}
    /\ clean' = IF RotationInProgress(grant[r]) THEN clean ELSE clean \cup {r}
    /\ Goto(r, "revokeAccess")
    /\ UNCHANGED <<clock, access, grant, cache, flight, tok, locals, out, isReplay,
                   resp, audit, succ, revoked>>

\* Mutant: the access rows outlive the revocation.
RevokeAccessSkipped(r) ==
    /\ pc[r] = "revokeAccess"
    /\ revoked' = IF r \in clean THEN revoked \cup {grant[r]} ELSE revoked
    /\ Goto(r, "done")
    /\ UNCHANGED <<clock, store, cache, flight, tok, locals, out, isReplay, resp,
                   audit, succ, revoking, clean>>

\* Storage.RevokeAccessToken
RevokeAccess(r) ==
    /\ pc[r] = "revokeAccess"
    /\ access' = access \ RowsOf(grant[r], access)
    /\ revoked' = IF r \in clean THEN revoked \cup {grant[r]} ELSE revoked
    /\ Goto(r, "done")
    /\ UNCHANGED <<clock, refresh, grant, cache, flight, tok, locals, out, isReplay,
                   resp, audit, succ, revoking, clean>>

\* Either call fails: fosite still makes the second one and reports the error.
RevokeFails(r) ==
    /\ StoreFails
    /\ pc[r] \in Revoking
    /\ Goto(r, IF pc[r] = "revokeRefresh" THEN "revokeAccess" ELSE "done")
    /\ UNCHANGED <<clock, store, cache, flight, tok, locals, out, isReplay, resp,
                   audit, succ, revHist>>

-----------------------------------------------------------------------------
Exchange(r) ==
    \/ Fetch(r) \/ DeleteAccess(r) \/ DeleteRefresh(r) \/ CreateAccess(r)
    \/ CreateRefresh(r) \/ Commit(r) \/ SignIDToken(r) \/ ExchangeFails(r)
    \/ Respond(r)

Replay(r) ==
    \/ FastPath(r) \/ Join(r) \/ Recheck(r) \/ StoreReplay(r) \/ EndFlight(r)
    \/ Follow(r) \/ EmitReplay(r)

Revoke(r) == RevokeRefresh(r) \/ RevokeAccess(r) \/ RevokeFails(r)

Step(r) == Exchange(r) \/ Replay(r) \/ Revoke(r)

Next ==
    \/ Tick
    \/ Crash
    \/ \E r \in Requests, p \in Pairs :
          \/ Arrive(r, p)
          \/ ArriveRevoke(r, p, refresh)
          \/ ArriveRevoke(r, p, access)
    \/ \E r \in Requests : Step(r)

Spec == Init /\ [][Next]_vars

\* A goroutine that can run is run eventually; nothing obliges a client to
\* send a request, the clock to pass a bound or the process to restart.
FairSpec == Spec /\ \A r \in Requests : WF_vars(Step(r))

-----------------------------------------------------------------------------
(* Properties *)

\* The shape of the state of the token endpoint, its cache and its store.
TypeOK ==
    /\ now \in Nat /\ crashes \in Nat
    /\ access \subseteq Pairs /\ refresh \subseteq Pairs
    /\ grant \in [Pairs -> Families \cup {None}]
    /\ cache \in [Pairs -> Response]
    /\ flight \in [Pairs -> Requests \cup {None}]
    /\ pc \in [Requests -> Locations]
    /\ tok \in [Requests -> Pairs \cup {None}]
    /\ t0 \in [Requests -> Times] /\ rotationAt \in [Requests -> Times]
    /\ out \in [Requests -> Response]
    /\ isReplay \subseteq Requests
    /\ resp \in [Requests -> Pairs \cup {None}]
    /\ audit \subseteq Event
    /\ succ \in [Pairs -> Requests \cup {None}]
    /\ revoking \subseteq Families /\ clean \subseteq Requests
    /\ revoked \subseteq Families

\* Refresh tokens rotate: with a replay window, whatever the interleaving of
\* parallel refreshes, store failures, revocations and restarts, a grant never
\* has two refresh-token rows a client could use.
OneLiveRefresh ==
    Window > 0 =>
        \A p, q \in refresh : grant[p] = grant[q] => p = q

\* Parallel clients replay the same response: two 200 answers to one presented
\* refresh token carry the same pair, whether the answer came from the leader,
\* the outcome shared by singleflight or the cache, and however late.
SameAnswer ==
    Window > 0 =>
        \A q, r \in Requests :
            (tok[q] = tok[r] /\ resp[q] # None /\ resp[r] # None)
                => resp[q] = resp[r]

ReplayEvents == {e \in audit : e.action = "replayed"}

\* The replay_count of the audit trail is a count: two replays of one token are
\* never reported with the same number.
ReplayCountsDistinct ==
    \A d, e \in ReplayEvents :
        (d.tok = e.tok /\ d.response.replayCount = e.response.replayCount) => d = e

\* A replay is served only while the window is open by the clock the request
\* read: never at rotation time + window.
ReplayInsideWindow ==
    \A e \in ReplayEvents : e.at < e.response.rotatedAt + Window

EventOf(r, action) == \E e \in audit : e.req = r /\ e.action = action

\* No client is handed a pair whose minting is missing from the audit trail,
\* whichever request minted it and however the answer reached this one.
MintingAudited ==
    \A r \in Requests :
        resp[r] # None => EventOf(resp[r], "rotated") /\ tok[resp[r]] = tok[r]

\* OG-10 of docs/lessons.md, "Audit every request, including followers coalesced
\* behind `singleflight`": a refresh that has been answered left an event of its
\* own. A follower whose lookup misses leaves none, so the code violates it.
EveryRequestAudited ==
    \A r \in Requests :
        (pc[r] = "done" /\ t0[r] # NoTime) => \E e \in audit : e.req = r

\* A revocation that met no rotation in progress is final: no row of the grant
\* ever comes back.
RevocationSticks ==
    \A p \in access \cup refresh : grant[p] \notin revoked

\* With a transactional store, no failure or restart leaves a grant that was
\* not revoked without a refresh token that works.
GrantSurvives ==
    Transactional =>
        \A f \in Families \ revoking : \E p \in refresh : grant[p] = f

\* Every request that reaches the endpoint is answered, followers included,
\* unless the process dies under it.
RequestsAnswered ==
    \A r \in Requests :
        (pc[r] \in Running \cup Revoking) ~> (pc[r] \in {"done", "dead"})

\* The endpoint as the line of succession it implements: the refresh rows are
\* the tokens that work, and every 200 answer is an answer of the line.
Line == INSTANCE TokenSuccession WITH
            Roots <- Families, Heirs <- Requests, live <- refresh, heir <- succ,
            given <- {<<tok[r], resp[r]>> : r \in {q \in Requests : resp[q] # None}}

\* With a replay window the detailed endpoint implements that promise: no crash,
\* failure, revocation or overlap gives a token a second heir, revives one that
\* has an heir, or answers a client with anything but the heir.
Succession == Line!Spec
=============================================================================
