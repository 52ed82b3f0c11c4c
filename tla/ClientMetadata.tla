--------------------------- MODULE ClientMetadata ---------------------------
(***************************************************************************)
(* Client look-up: storage.GetClient, the clients it finds in the Store    *)
(* (RegistrationHandler), and Client ID Metadata Documents: the fetch, the *)
(* checks and the bounded cache of oauth/cimd.go.                          *)
(*                                                                         *)
(* Every request that names a client runs GetClient. A step is the code    *)
(* between two store calls, cache locks or HTTP exchanges. The site behind *)
(* a metadata URL may serve any document at any time. A document keeps the *)
(* fields the checks look at; a redirect URI is its kind, and well_formed  *)
(* stands for response_types, application_type and logo_uri.               *)
(***************************************************************************)
EXTENDS Integers, FiniteSets

CONSTANTS
    Requests,       \* requests that name a client, each used once
    Ids,            \* client IDs
    Urls,           \* those clientMetadataURL accepts; none when the feature is Disabled
    Documents,      \* what sites serve and registrations post
    None,           \* no document
    AllowedScopes,  \* Config.AllowedScopes
    DefaultScopes,  \* Config.DefaultScopes
    CacheTTL,       \* ClientIDMetadataConfig.CacheTTL
    MaxItems,       \* clientMetadataMaxCacheItems
    Timeout,        \* clientMetadataFetchTimeout
    StoreFails,     \* store calls may return an error
    MaxTime         \* bound on the clock

ASSUME MetadataConstants ==
    /\ Urls \subseteq Ids /\ IsFiniteSet(Urls)
    /\ None \notin Documents
    /\ \A d \in Documents : d.value \in Nat
    /\ CacheTTL \in Nat \ {0} /\ MaxItems \in Nat \ {0} /\ Timeout \in Nat /\ MaxTime \in Nat
    /\ StoreFails \in BOOLEAN

VARIABLES
    now,
    registered,  \* the Store: IDs of the clients it holds
    entry,       \* the cache: the document of a URL, or None
    expiresAt,   \* when a cached document expires
    from,        \* history: when a cached document left its site
    pc, id,      \* of a request: where it is, the client ID it names
    got, sent,   \* the document it fetched, and when that left its site
    life,        \* its cache lifetime
    answeredAt,  \* history: when a request was answered with a document
    early        \* history: requests that arrived after their client was registered

cache   == <<entry, expiresAt, from>>
fetched == <<got, sent, life>>
history == <<answeredAt, early>>
vars == <<now, registered, cache, pc, id, fetched, history>>

Cached == {u \in Urls : entry[u] # None}

Init ==
    /\ now = 0
    /\ registered = {}
    /\ entry = [u \in Urls |-> None]
    /\ expiresAt = [u \in Urls |-> 0]
    /\ from = [u \in Urls |-> 0]
    /\ pc = [r \in Requests |-> "idle"]
    /\ id \in [Requests -> Ids]
    /\ got = [r \in Requests |-> None]
    /\ sent = [r \in Requests |-> 0]
    /\ life = [r \in Requests |-> 0]
    /\ answeredAt = [r \in Requests |-> 0]
    /\ early = {}

Goto(r, p) == pc' = [pc EXCEPT ![r] = p]

\* The HTTP client gives up on an exchange that takes longer than Timeout.
Tick ==
    /\ now < MaxTime
    /\ \A r \in Requests : pc[r] \in {"decode", "store"} => now < sent[r] + Timeout
    /\ now' = now + 1
    /\ UNCHANGED <<registered, cache, pc, id, fetched, history>>

-----------------------------------------------------------------------------
(* The rules for client metadata, shared by registrations and documents *)

validateRedirectURI(uri) == uri \in {"https", "loopback"}

\* Mutant: only unknown scopes among the defaults are refused.
ScopesUnchecked(d) == TRUE

\* normalizeScopesWithDefault: no scope means the defaults, or all there are.
Scopes(d) ==
    IF d.scope # {} THEN d.scope
    ELSE IF DefaultScopes # {} THEN DefaultScopes ELSE AllowedScopes

\* normalizeScopes: one scope that is not allowed refuses the client.
ScopesAllowed(d) == Scopes(d) \subseteq AllowedScopes

GrantTypes == {"authorization_code", "refresh_token"}

\* What process and clientFromDocument check alike.
Common(d) ==
    /\ d.redirect_uris # {}
    /\ \A uri \in d.redirect_uris : validateRedirectURI(uri)
    /\ d.grant_types \subseteq GrantTypes
    /\ d.well_formed
    /\ ScopesAllowed(d)

\* RegistrationHandler.process.
Registrable(d) == Common(d) /\ d.auth_method \in {"", "none", "client_secret_basic", "client_secret_post"}

\* clientFromDocument: a document speaks for its own URL only, and holds no secret.
clientFromDocument(u, d) == d.client_id = u /\ Common(d) /\ d.auth_method \in {"", "none"}

\* SaveClient, for a registration that passes the checks. It gets a random ID; the
\* consumer may save a client under a URL too.
Register(i) ==
    /\ i \notin registered
    /\ {d \in Documents : Registrable(d)} # {}
    /\ registered' = registered \cup {i}
    /\ UNCHANGED <<now, cache, pc, id, fetched, history>>

-----------------------------------------------------------------------------
(* storage.GetClient *)

Arrive(r) ==
    /\ pc[r] = "idle"
    /\ Goto(r, "lookup")
    /\ early' = IF id[r] \in registered THEN early \cup {r} ELSE early
    /\ UNCHANGED <<now, registered, cache, id, fetched, answeredAt>>

\* Mutant: the resolver is asked first.
GetClientResolverFirst(r) ==
    /\ pc[r] = "lookup"
    /\ Goto(r, IF id[r] \in Urls THEN "cache"
               ELSE IF id[r] \in registered THEN "registered" ELSE "unknown")
    /\ UNCHANGED <<now, registered, cache, id, fetched, history>>

\* The store first; the resolver only after a miss, and only for metadata URLs.
GetClient(r) ==
    /\ pc[r] = "lookup"
    /\ \/ id[r] \in registered /\ Goto(r, "registered")
       \/ id[r] \notin registered /\ id[r] \in Urls /\ Goto(r, "cache")
       \/ id[r] \notin registered /\ id[r] \notin Urls /\ Goto(r, "unknown")
    /\ UNCHANGED <<now, registered, cache, id, fetched, history>>

LookupFails(r) ==
    /\ pc[r] = "lookup"
    /\ StoreFails
    /\ Goto(r, "error")
    /\ UNCHANGED <<now, registered, cache, id, fetched, history>>

-----------------------------------------------------------------------------
(* ClientIDMetadataFetcher.ResolveClient *)

Answer(r, d, t) ==
    /\ Goto(r, "document")
    /\ got' = [got EXCEPT ![r] = d]
    /\ sent' = [sent EXCEPT ![r] = t]
    /\ answeredAt' = [answeredAt EXCEPT ![r] = now]

\* Mutant: whatever is in the cache is good.
cachedForever(r) ==
    /\ pc[r] = "cache"
    /\ \/ entry[id[r]] # None /\ Answer(r, entry[id[r]], from[id[r]])
       \/ entry[id[r]] = None /\ Goto(r, "fetch") /\ UNCHANGED <<got, sent, answeredAt>>
    /\ UNCHANGED <<now, registered, cache, id, life, early>>

\* An entry answers until it expires, and is deleted when found expired.
cached(r) ==
    /\ pc[r] = "cache"
    /\ LET u == id[r]
       IN  \/ /\ entry[u] # None /\ expiresAt[u] > now
              /\ Answer(r, entry[u], from[u])
              /\ UNCHANGED entry
           \/ /\ entry[u] = None \/ expiresAt[u] <= now
              /\ Goto(r, "fetch")
              /\ entry' = [entry EXCEPT ![u] = None]
              /\ UNCHANGED <<got, sent, answeredAt>>
    /\ UNCHANGED <<now, registered, expiresAt, from, id, life, early>>

\* The site answers 200 with a document.
Serve(r, d) ==
    /\ pc[r] = "fetch"
    /\ Goto(r, "decode")
    /\ got' = [got EXCEPT ![r] = d]
    /\ sent' = [sent EXCEPT ![r] = now]
    /\ UNCHANGED <<now, registered, cache, id, life, history>>

\* A request that fails forgets what it fetched.
Refuse(r) ==
    /\ Goto(r, "invalid")
    /\ got' = [got EXCEPT ![r] = None]
    /\ sent' = [sent EXCEPT ![r] = 0]

\* No connection, another status, no JSON, a timeout: an error, and nothing is cached.
FetchFails(r) ==
    /\ pc[r] \in {"fetch", "decode"}
    /\ Refuse(r)
    /\ UNCHANGED <<now, registered, cache, id, life, history>>

\* How long a response read at time t may be reused.
cacheLifetime(d, t) ==
    CASE d.header = "no-store" -> 0
      [] d.header = "max-age"  -> d.value
      [] d.header = "expires"  -> IF d.value > t THEN d.value - t ELSE 0
      [] OTHER                 -> CacheTTL

\* The document is read and checked; one that fails a check is not cached.
fetch(r) ==
    /\ pc[r] = "decode"
    /\ \/ /\ clientFromDocument(id[r], got[r])
          /\ life' = [life EXCEPT ![r] = cacheLifetime(got[r], now)]
          /\ Goto(r, "store")
          /\ UNCHANGED <<got, sent>>
       \/ /\ ~ clientFromDocument(id[r], got[r])
          /\ Refuse(r)
          /\ UNCHANGED life
    /\ UNCHANGED <<now, registered, cache, id, history>>

\* Mutant: a cache full of good entries keeps them all.
evictExpiredOnly ==
    {IF Cardinality(Cached) >= MaxItems THEN {u \in Cached : expiresAt[u] > now} ELSE Cached}

\* What a full cache keeps: evictExpiredLocked, then one entry of Go's choice goes.
evict ==
    LET live == {u \in Cached : expiresAt[u] > now}
    IN  IF Cardinality(Cached) < MaxItems THEN {Cached}
        ELSE IF Cardinality(live) < MaxItems THEN {live}
        ELSE {live \ {k} : k \in live}

\* The entry is written, over whatever another request stored meanwhile, and the
\* document answers the request.
store(r) ==
    /\ pc[r] = "store"
    /\ \/ life[r] = 0 /\ UNCHANGED cache
       \/ /\ life[r] > 0
          /\ \E kept \in evict :
                entry' = [u \in Urls |-> IF u = id[r] THEN got[r]
                                         ELSE IF u \in kept THEN entry[u] ELSE None]
          /\ expiresAt' = [expiresAt EXCEPT ![id[r]] = now + life[r]]
          /\ from' = [from EXCEPT ![id[r]] = sent[r]]
    /\ Answer(r, got[r], sent[r])
    /\ life' = [life EXCEPT ![r] = 0]
    /\ UNCHANGED <<now, registered, id, early>>

-----------------------------------------------------------------------------
Look(r)    == Arrive(r) \/ GetClient(r) \/ LookupFails(r)
Resolve(r) == cached(r) \/ (\E d \in Documents : Serve(r, d)) \/ FetchFails(r) \/ fetch(r) \/ store(r)

Next ==
    \/ Tick
    \/ \E i \in Ids : Register(i)
    \/ \E r \in Requests : Look(r) \/ Resolve(r)

Spec == Init /\ [][Next]_vars

-----------------------------------------------------------------------------
(* Properties *)

Locations == {"idle", "lookup", "cache", "fetch", "decode", "store",
              "registered", "document", "unknown", "invalid", "error"}

\* The shape of the store, the cache and the requests; only a metadata URL gets to
\* the resolver.
TypeOK ==
    /\ now \in Nat
    /\ registered \subseteq Ids
    /\ entry \in [Urls -> Documents \cup {None}]
    /\ expiresAt \in [Urls -> Nat] /\ from \in [Urls -> Nat]
    /\ pc \in [Requests -> Locations]
    /\ id \in [Requests -> Ids]
    /\ got \in [Requests -> Documents \cup {None}]
    /\ sent \in [Requests -> Nat] /\ life \in [Requests -> Nat] /\ answeredAt \in [Requests -> Nat]
    /\ early \subseteq Requests
    /\ \A r \in Requests :
          /\ pc[r] \in {"cache", "fetch", "decode", "store", "document"} => id[r] \in Urls
          /\ pc[r] \in {"decode", "store", "document"} => got[r] \in Documents

\* The last moment a document that left its site at time t should be used: its own
\* Expires date, or its lifetime later.
Deadline(d, t) ==
    IF d.header = "expires" /\ d.value > t THEN d.value ELSE t + cacheLifetime(d, t)

\* Whatever fetches overlap and overwrite each other's entries, no request is
\* answered with a document older than its cache lifetime and one fetch.
AnswersFresh ==
    \A r \in Requests :
        pc[r] = "document" => answeredAt[r] <= Deadline(got[r], sent[r]) + Timeout

\* d speaks for its own URL u and has no scope the server does not serve.
WithinPolicy(u, d) == d.client_id = u /\ Scopes(d) \subseteq AllowedScopes

\* A document "can never widen its own access" (ClientMetadataPolicy): whatever is
\* cached or answered is within the policy.
NoWidening ==
    /\ \A u \in Cached : WithinPolicy(u, entry[u])
    /\ \A r \in Requests : pc[r] = "document" => WithinPolicy(id[r], got[r])

\* "registered clients always win" (WithClientMetadataResolver): a request that came
\* after its client was registered is never answered from a document.
RegisteredWins == \A r \in early : pc[r] \in {"lookup", "registered", "error"}

\* The cache never outgrows its limit, with any number of fetches under way.
CacheBounded == Cardinality(Cached) <= MaxItems
=============================================================================
