# TLA+ models of mcp-kit

TLA+ modules, TLC configurations and TLAPS proofs for the stateful parts of
mcp-kit: the OAuth authorization server, its keys and its stores, the protected
MCP endpoint, the database client generated from the schema mixins, and the CLI's
side of a login. Paths such as `oauth/handlers.go` are relative to the repository.

    tlc -workers 2 -config RefreshWindow.cfg MCRefresh    # one run
    tlapm RefreshRotationProofs.tla                       # one set of proofs

`PROJECT.json` lists components, runs, the source lines behind every definition,
hazards, mutants (a plausible bug for every property, which TLC must catch) and
theorems.

## 1. Inventory

| Component | State | Operations | What is hard |
|---|---|---|---|
| Token endpoint (`oauth/handlers.go`, `provider.go`) | replay cache, singleflight group | token, revoke | parallel refreshes, retries, failing leaders, restart, revoke against rotate |
| Storage adapter (`oauth/storage`) | clients; rows of kind code, PKCE, OIDC, access, refresh | create, get, delete, rotate, revoke, begin/commit/rollback | several store calls per exchange, any of which fails; plain and transactional stores |
| Signing keys (`oauth/keys`, `oidc/jwks.go`) | keys with createdAt/retiredAt | ensure, rotate, clean up, list for JWKS | servers on one store, slow store calls, restarts and the rotation schedule |
| Consent (`oauth/consent`) | issued approval tokens, or a session backend | login, policy, challenge, approve, deny | double submit, approve against deny, expiry, restart, failing backend |
| Client metadata documents (`oauth/cimd*.go`) | bounded cache of documents | resolve, fetch, validate, cache, evict | overlapping fetches, lifetimes, documents that change |
| Registration (`oauth/register.go`) | registered clients | register | a registration against cached documents |
| CLI login (`cliauth`) | credentials file shared by processes | login, get token, refresh, logout | no lock on the file; network calls between read and write |
| Bearer middleware (`oauth/middleware.go`, `pat.go`) | usage limiter | authenticate, require scope, record usage | credentials that change between the calls of one request; the limiter when full |
| Envelope (`mcpmw/envelope.go`) | one response buffer per request | write header, write, flush, rewrite | any order of calls, a Flush before anything else and headers after the status included; streams that must not be held back |
| Origin (`mcpmw/origin.go`), assembly (`mcpkit/server.go`) | none | check, compose | the order of the middlewares |
| Schema mixins and the client ent generates from them (`entschema`, `entschema/_test`) | mutations, database rows, descriptors bound at start-up | create, bulk, update, update-one, delete, mutation accessors, hooks | calls in any order, hooks before the checks and after the statement, a bulk with one refused member, a mixin that changed |
| Discovery, login classification, `audit`, `authz`, `userstore`, `testkit`, examples | none of their own | | static documents, tables, interfaces, test support |

Interaction: fosite (external, v0.49) drives the storage adapter in the order of
calls the models follow; consent ends by issuing a code through the provider; a
code is redeemed into an access/refresh pair; refreshing replaces the pair; the
key manager signs ID tokens and access JWTs; every request starts with
`Storage.GetClient`, which may fetch a metadata document; CLI processes register,
log in, refresh and revoke against the same endpoints and share a file. An access
token or a PAT is then presented to the MCP endpoint, where the Origin check,
Bearer, the envelope and the consumer's handler run one inside the other.

What makes each part correct is stated as the properties of section 3. What can
go wrong in it is the `hazards` list of `PROJECT.json`.

## 2. Modules

| Module | Models | Proofs |
|---|---|---|
| `RefreshRotation` | refresh and revoke over the storage adapter | `RefreshRotationProofs` |
| `TokenSuccession` | what rotation with a window promises (abstract) | refined by `RefreshRotation` |
| `AuthorizationCode` | issuing and redeeming one code or several | `AuthorizationCodeProofs` |
| `SigningKeys` | key store, manager, rotators | `SigningKeysProofs` |
| `Consent` | consent POSTs and approval stores | `ConsentProofs` |
| `OneTimeTokens` | what an approval store promises (abstract) | refined by `Consent` |
| `ClientMetadata` | `GetClient`, registration, document cache | `ClientMetadataProofs` |
| `CliCredentials` | CLI processes over one credentials file and the token endpoint | `CliCredentialsProofs` |
| `Envelope` | the buffered response writer and a plain one, as operators | |
| `ResourceServer` | Origin, Bearer, PATs, `Envelope`, guard and handler composed | `ResourceServerProofs` |
| `EntMixins` | the fields of the schema mixins | |
| `EntOAuthAccessToken`, `EntOAuthAuthorizationCode`, `EntOAuthClient`, `EntOAuthRefreshToken`, `EntOAuthSigningKey`, `EntPersonalAccessToken` | per entity, which fields each generated part handles | |
| `EntBuilders` | what the generated parts do: init, builders, mutations, statements | `EntBuildersProofs` |
| `MC*` | the same modules for TLC (constants, symmetry) | |

Conventions. A request, POST or look-up is a thread with a program counter
(`pc`). One action is one store call or one lock section, because that is where
other goroutines interleave; code between two such calls belongs to the action
before it. Failure of a store call is an action of its own (`...Fails`), restart
is `Crash`. Configuration that the code fixes at start-up is a CONSTANT, or a
variable that no step changes when one run should cover all its values. History
variables record what properties need and are never read by guards. Where a cfg
says `CHECK_DEADLOCK FALSE`, requests are one-shot and a server with nothing left
to do may idle.

### RefreshRotation

A grant owns rows `access` and `refresh`; a rotated pair is named after the
request that minted it. The replay key in the code is a hash of client and token,
and a client has one authentication method, so the model keys the cache by token.
Path of a request: `Arrive`, `FastPath` (a look-up that counts the replay),
`Join` (leader or follower), `Recheck`, the exchange (`Fetch`, `DeleteAccess`,
`DeleteRefresh`, `CreateAccess`, `CreateRefresh`, `Commit`), `SignIDToken`,
`Respond`, `StoreReplay`, `EndFlight`, and for followers `Follow`/`EmitReplay`.
Over a transactional store the writes take effect together at `Commit`. A signing
failure after the commit leaves the rotation in place and answers an error, as
the code does.

`TokenSuccession` is the same endpoint without requests, cache, flights or store:
tokens lapse, a token hands over to one heir, a client is answered with the heir.
The mapping: `live` is `refresh`, `heir` is `succ`, `given` the pairs of presented
and answered tokens. Deleting rows, a crash and a revocation are `Lapse`; the step
that makes the new refresh row visible (`CreateRefresh`, or `Commit` over a
transactional store) is `Succeed`; every 200 is `Answer`.

### AuthorizationCode

The calls of fosite v0.49's authorization-code, PKCE and OpenID Connect handlers,
each over the storage adapter: look up, check the verifier (the row is deleted
before the comparison), look up again, invalidate, create two rows, commit, then
the OIDC row. A request may bring the right verifier, a wrong one or none; a
confidential client whose PKCE row is gone is not asked for one. A look-up of an
inactive code revokes by request ID.

### SigningKeys

Each server is a rotator: `EnsureFind`/`EnsureStore`, `Start` (first wake from the
key's age), `Fire`, `RotateStore` (with `RetireAt` fixed before the call),
`Cleanup`, `Stop`. `Tick` is the clock, `Sign` records a token's key and expiry.
`MaxDelay` bounds a store call. `deployment` is chosen by `Init`: "orderly" servers
are prompt and their store works, which is what the rotation schedule needs;
"faulty" ones stop, start, and meet failing calls at any moment.

### Consent

A POST logs in (`PostLogin`, `Policy`, `Challenge`, `Issue`) or answers a page
(`PostDecision`, `Check`, `Consume`, `Complete`, or `Deny`). `backend` chooses
the HMAC stores or the session store, `durable` whether tokens survive a restart,
`storeFails` whether the backend may fail. The expiry of the session memory item
is subsumed by that of the entry. Parsing of the approval payload is modelled by
what it does to a subject that contains the separator (`Unreadable`).

### ClientMetadata

Sites may serve any document at any time. A document is reduced to the fields the
checks look at; `well_formed` stands for response types, application type and
logo. A fetch takes at most `Timeout`, the HTTP client's. `Urls = {}` is the
disabled configuration. `MaxItems = 1` with two URLs makes eviction happen.

### CliCredentials

A process is one invocation: `GetAccessToken` (`GetAccessToken`, `Refresh`,
`Receive`, `SaveRefreshed`), a login (`StartLogin`, `Register`, `SaveClient`,
`Callback`, `Redeem`, `Reload`, `SaveLogin`) or `Logout` (`StartLogout`, `Revoke`,
`Delete`). The steps are the reads and renames of the file and the answers of the
issuer; nothing locks the file. `Abort` ends a process anywhere: an error of the
network or the file system, a foreign state or `iss`, a kill. The issuer is
reduced to what `RefreshRotation` shows of it with a window: it rotates a usable
token of the client, answers a spent one the same way within the window, and
refuses everything else. The file holds one host, as `DefaultCredPath` gives every
issuer its own. `Init` is a file whose token is already due, or none. `MaxDelay`
bounds the time from a read to the write that follows. The code does not enforce
it (`http.DefaultClient` has no timeout); it is what the two timing properties
assume.

### Envelope and ResourceServer

`Envelope` gives the writer's methods as operators on a record, next to those of
net/http's own writer. `ResourceServer` keeps both per request and applies every
call of the handler to both, so that `direct` is the answer there would have been
without the envelope. A header map is its Content-Type, a body the sequence of
texts written, told apart by what `mapSDKError` looks for. `HandlerCall` sets
headers, a status, writes or flushes in any order. Three differences from net/http
show then, and all are modelled. A `Flush` before any status or byte starts a plain
answer with 200 and the buffering writer drops it (`envelope.go:193`):
`FlushDirect` therefore leaves it out of `direct` for a buffered request, and
`FirstFlushIsLost` states it on its own. Headers set after an error status still
go out, because the buffer is only handed over at the end: `EnvelopeTransparent`
compares with those. And a rewritten answer has only the headers of the rewriting.

A request is a goroutine: `Arrive` (Origin, then Bearer up to its first call),
`ValidateToken`, `GetTokenScope` (PAT; `ServiceFails` for either), or
`IntrospectToken`, `CheckExpiry` (OAuth), then `Authorize` (`Run` or `Deny`),
`HandlerCall`, `Return`, `Close`. The PAT's scopes come from the first call and
its boundary from the second. `RecordUsage` is the recorder's own goroutine.
`Change` is the consumer revoking, rescoping or rebinding a token at any moment.
A token's row says whether it expires at all, since `CheckExpiry` lets a zero
expiry pass. With `Reduced`, which the runs set, there are two reductions: while a
handler writes nothing else moves (`Quiet`), and the full choice of bodies and
writer calls is taken when no other request, change or tick has happened
(`Alone`); what a handler writes concerns no other request, and what others do
does not reach a response writer. The theorems hold with `Reduced` and without.

### EntBuilders

The six `Ent*` modules are tables: for each entity which fields the generated
setters, defaults, checks, specs and accessors handle, read off the generated
files. `EntBuilders` says what the parts do. A behaviour follows one field of one
entity, both chosen by `Init`, since no generated call on one field touches
another; the other fields are taken to pass. A value is the set of the builders
that contributed to it, so Set replaces and Add or Append joins; "bad" marks one
the validators refuse. A Save is at "hooks" from `defaults` to `check` and at
"after" from the statement to its return; in both the `Mutation*` actions are what
hooks do to the mutation, and `HookFails` is a hook that returns an error. In a bulk
the members wait for one another ("queued"): `Await` takes a member's spec and
starts the next one, `Insert` runs the batch for all in the last one, and `Return`
unwinds: the member waiting outside becomes done and its hooks go on, and after the
outermost one Save reports success (`Report`, `told`). A hook that fails after the
statement leaves the rows in, the members outside it not done, and Save with an
error ("lateHook"). A statement takes effect as a whole or not at all. `init` binds
descriptors by index, entity by entity, and a wrong type or a missing validator is
the panic it would be. The run uses the client mixin the fixture was generated
from; today's has one field more (`audience`).

## 3. Runs

| Run | Question | Bounds |
|---|---|---|
| `refresh_window` | parallel refreshes and revokes, plain store, failures, restart, clock | 3 requests, 1 grant, 1 crash |
| `refresh_audit` | does every refresh leave an audit event of its own? (violated) | as above |
| `refresh_live` | over transactions: is every request answered, does the grant survive? | 2 requests, 1 crash, weak fairness |
| `keys` | unique active key, no gap, live tokens verifiable, no key overstays | 2 servers, orderly and faulty |
| `code` | racing redemptions, wrong verifiers, reuse, failures, restart | 3 requests, 1 code, all configurations |
| `consent` | double submit, approve against deny, expiry, restart, all stores | 3 POSTs after a login, all configurations |
| `consent_refusal` | is every refusal one the interface names? (violated) | as above |
| `client_metadata` | overlapping fetches, changing documents, registration, limit | 3 look-ups, 2 URLs, cache of 1 |
| `cli` | refreshes, logins and logouts over one file, each cut off anywhere | 3 processes; life 6, buffer 3, window 3, delay 1 |
| `resource` | authority, envelope, streams and usage slots of the MCP endpoint | 2 requests, a PAT, an OAuth token, 2 targets, 1 change, 1 slot, 4 writer calls, 5 configurations, `Reduced` |
| `resource_scopes` | does `RequiredScopes` refuse anybody? (violated) | no guard |
| `ent` | builders, bulks, hooks and statements on every field of every entity | 2 builders, 2 rows, 3 calls |

Why the bounds suffice. Three threads are the least with two in one critical
region and a third that arrives late (leader, follower, replay; exchange,
reuse, revoke; approve, approve, deny). One restart separates before from after.
Clocks run a little past the longest window, so each expiry happens before, at
and after its boundary. In `cli` the window, the buffer and the life have the least
values for which the assumptions of its timing properties hold with a delay of 1,
and the clock reaches the last instant at which a token from a replayed answer is
good. In `resource` one slot for two requests makes the limiter full, one change
and one tick put a revocation, a rebinding or an expiry between any two calls, and
four writer calls are a header, a status, a text and a flush in every order. In
`ent` two builders are a bulk, or a writer and a reader, and three calls are two on
the field and a Save, or three on the field before and during it. The theorems lift
the safety properties to any number of threads and any bound.

### Properties

*Refresh.* `OneLiveRefresh`: with a window, no grant has two usable refresh
tokens. `SameAnswer`: successful answers to one token carry one pair.
`ReplayCountsDistinct`: the count of replays is not distorted by concurrency.
`ReplayInsideWindow`: no replay beyond the window, by the clock the request read.
`MintingAudited`: no pair goes out whose minting was not audited.
`EveryRequestAudited` (violated): every refresh has an event. `RevocationSticks`:
after a revocation that overlapped no rotation, no row of the grant comes back.
`GrantSurvives`: over transactions, failures and restarts strand no grant.
`RequestsAnswered`: liveness. `Succession`: the refinement of `TokenSuccession`.

*Codes.* `TokensSpendTheCode`, `TokensAreProven`, `WrongVerifierBurns`,
`ReuseRevokes`, `SpentMeansMinted` (transactional stores).

*Keys.* `OneActiveKey`, `SigningNeverStops`, `TokensVerify`, `KeyNeverOverstays`.

*Consent.* `SingleUse`, `BoundToLogin`, `AcceptedInTime`, `DenyIsFinal` (working
backend), `ImplementsPromise` (refinement of `OneTimeTokens`: issued is the pages
shown, live the stored tokens, taken who consumed one).

*Clients.* `AnswersFresh` (a document is used for its lifetime plus one fetch;
the bound is tight), `NoWidening`, `RegisteredWins`, `CacheBounded`.

*CLI.* `RefreshersAccepted`: as long as processes only refresh and none is cut off
between rotation and save, no refresh is refused, however many read the same
expired credentials and whoever saves last; the window must exceed two delays and
the life the buffer plus two delays. `AccessStillValid`: no returned token is past
its life; a replayed answer repeats the `expires_in` of its first use, so the
buffer has to cover window and delay. `LogoutSticks`: after a logout that
overlapped no writer the file stays away until somebody logs in.

*Endpoint.* `AuthorityWasGranted`: behind `RequireScopeForTarget` a tool runs only
for a token that was honoured with the scope, the boundary or the audience at some
moment since the request arrived, and an OAuth token only if it had not expired on
arrival. A PAT's scope and boundary may be those of two different rows, because the
code reads them in two calls; the property says so. `EnvelopeTransparent`: an answer
is what the handler and the middlewares wrote, unless a buffered POST met 400,
text/plain and a known SDK error. `StreamsUnheldOnceStarted`: from its first status
or byte on, a successful or event-stream answer reaches the client call by call. `SlotsAccounted`: the limiter holds one entry
per running recorder, within its capacity.

*Generated client.* `OnlyCheckedRowsStored`: whatever callers and hooks do, no value
the validators refuse is stored, and no missing value gets as far as the database's
NOT NULL. `StoredMeansSaved`: something of a builder is stored only if its Save
succeeded, or a hook failed it after the statement, or it has not returned yet; any
other error, of any member of a bulk, means that nothing was stored.
`OldValueIsBefore`: an old value is never the mutation's own. `LastCallsShow`: the
statement of an update-one leaves what its calls ask for, in any order (`Asked`): no
value that was replaced or reset shows through. Set and Add do not forget a Clear,
and Add does not forget a Set, so some orders send two assignments to one column;
the outcome is then one of the two, which is the database's choice.

### Fairness

Only `refresh_live` assumes any: weak fairness of each goroutine's next step.
Go's scheduler runs runnable goroutines, store and signing calls return or fail,
and singleflight releases its waiters when the leader's function returns.

### Findings

* `RefusalsExplained` is violated: a subject with `|` in its ID can never approve
  (`oauth/consent/default_store.go:56`, `hmacstore/store.go:64`), though
  `consent/store.go:11` lists the only reasons for a refusal.
* `RequiredScopesEnforced` is violated: `BearerConfig.RequiredScopes` only becomes
  the hint of the challenge (`oauth/middleware.go:68`), though `CHANGELOG.md` speaks
  of enforcing it. A server needs `RequireScope` as well.
* `EveryRequestAudited` is violated: a follower emits an event only when its own
  look-up in the replay cache hits (`oauth/handlers.go:160`). When the leader failed,
  or the window closed while it waited, it is answered and leaves none, though
  `docs/lessons.md:160` (OG-10) asks to audit every request, "including followers
  coalesced behind `singleflight`". Theorem `AuditGapIsKnown` says that these two
  cases are all.

Two more are facts about single calls and need no behaviours, so they are
assumptions that TLC evaluates whenever it runs the module:

* `CurrentMixinPanics` (`MCEnt`): `entschema/_test/runtime.go:223` takes index 6 of
  the OAuthClient mixin for `is_public`, which is `audience` since that field was
  added; the type assertion that follows panics, though `runtime.go:222` says it "is
  the schema descriptor for is_public field". The fixture has to be regenerated; its
  test only compiles it.
* `FirstFlushIsLost` (`MCResource`): a handler that sets `text/event-stream` and
  flushes before it writes is held back, since `Flush` does nothing while the writer
  buffers (`mcpmw/envelope.go:193`), though `envelope.go:39` says that "successful
  streaming responses are unaffected".

Observed and not stated as findings: the replay cache is never swept (`provider.go:187`) and belongs to one
process; the handler begins a challenge and never
calls `Verify` (`consent/handler.go:104`); abandoned approval tokens stay in the
issued map; a follower's replay age can be negative because its clock is read
before the leader's rotation (`handlers.go:133`); a document's `max-age` may
exceed `CacheTTL` (`cimd.go:37`); overlapping redemptions of one code can both
succeed, and without a replay window overlapping refreshes too; a rolled-back
exchange does not restore the PKCE row. In the CLI: a login abandoned after
registration leaves the new client with the old tokens, which the issuer then
refuses (`login.go:352`); a logout that overlaps a refresh or login may leave
credentials and a live token behind; a `RefreshReplayWindow` above the 30 s
`refreshBuffer` lets `GetAccessToken` return an expired token; two issuers on one
host that share a custom `CredPath` mix their tokens (`login.go:348`).

## 4. Proofs

Every theorem is of the form `Spec => []P` (or `[][A]_vars`, or a refinement),
for every value of the constants allowed by the named assumptions, by an
inductive invariant that TLC checked first.

* **RefreshRotation** (`TypeCorrect`, `RotationIsExclusive`, `AnswersAgree`,
  `RevocationIsFinal`, `ReplaysAreTimely`, `ReplaysAreCounted`, `MintingIsAudited`,
  `AuditGapIsKnown`, `GrantsSurviveFailures`, `RotationIsSuccession`). `OneLiveRefresh` is not inductive: it needs that a key
  has one leader (`FlightInv`), where the leader is between deleting and creating
  rows (`RotationInv`), that a pair has the token it replaced as its only
  predecessor (`SuccessorInv`), and which rows a grant can have (`GrantInv`).
  `RevocationInv` adds that a request which started before the revocation
  cannot write after it. Assumption: the replay window is positive for the
  exclusive results; the revocation result needs none. `RotationIsSuccession` is
  the refinement of `TokenSuccession`: `AnswerInv` says that the outcome a request
  carries, a flight shares or the cache keeps is the heir of the token presented,
  `LineInv` that the minted pairs form lines without branches whose last member is
  the only one that can have a row; every action is then a step or a stutter of the
  abstract specification.

  About replays: `WindowInv` carries the time a lookup used to the event it ends in.
  `CountInv` covers the replays that have been counted and not yet reported: their
  numbers differ from each other and from the reported ones, none is above the
  count in the cache, and a pair minted and not yet stored has no replays at all,
  so that the entry that starts counting at zero is the first one. That needs
  `LineInv` (one rotation per token) and `OwnPairInv` (what a request stores is the
  pair it minted). `AuditInv` says the same of the audit trail: whatever pair is in
  the cache, in a shared outcome or in an answer, its minting was emitted first, and
  a follower shares only a failure that was emitted or a rotation the cache had.
  Without a window none of this state is ever used, and `PlainInv` says so.
  `GrantSurvives` is inductive with `BaseInv`: a transactional rotation removes the
  old row and adds the new one in one step, and a revocation marks its grant first.
* **AuthorizationCode** (`CodeTypeCorrect`, `CodeIsSpentFirst`, `TokensNeedProof`,
  `WrongVerifierIsFinal`, `ReuseIsFinal`, `NothingIsLost`) through `ShownInv`,
  `SpendInv`, `ProvenInv`, `BurnInv`, `ReuseInv`.
* **SigningKeys** (`KeyTypeCorrect`, `ActiveKeyIsUnique`, `SigningContinues`,
  `WindowIsKept`, `CadenceIsKept`). `WindowIsKept` assumes
  Grace >= Lifespan + MaxDelay, since `retiredAt` precedes the store call.
  `CadenceIsKept` speaks of orderly deployments and assumes
  MaxDelay <= Interval; its bound, Interval + 2 MaxDelay, is tight. Invariants:
  `KeysInv`, `WindowInv`, `CadenceInv`.
* **Consent** (`ApprovalsAreSingleUse`, `ApprovalsAreBound`, `ApprovalsAreTimely`,
  `DenialIsFinal`, `StoresKeepPromise`) through `TokenInv`, `DecisionInv`,
  `DenyInv`.
* **ClientMetadata** (`AnswersAreFresh`, `DocumentsNeverWiden`,
  `RegisteredClientsWin`, `CacheIsBounded`) through `FreshInv`, `AcceptedInv`,
  `EarlyInv`.

* **CliCredentials** (`CliTypeCorrect`, `RefreshersAreAccepted`,
  `ReturnedTokensAreValid`, `LogoutIsFinal`). `CredsInv` ties every expiry in the
  file or in a process to the minting time of its token, with an error of at most
  window and delay. `RefreshInv` says that while processes only refresh there is
  one newest pair (`Tip`), that file and processes hold it or its predecessor, and
  that the predecessor is held only while it can still be replayed. The
  assumptions on the constants are part of the properties; for the refresher
  property and the buffer TLC finds violations one below them (with four
  processes).

* **ResourceServer** (`ResourceTypeCorrect`, `SlotsAreAccounted`,
  `AuthorityIsGranted`, `EnvelopeIsTransparent`, `StartedStreamsAreUnheld`). When a
  tool runs, none of the rows its authority was read from need be in force any more, so `AuthorityWasGranted` is not inductive.
  `Traced` ties what a request carries at each step, the PATEntity between the two
  calls and the context after them, to rows its token had since the request
  arrived; `GuardGrants` then turns what the guard accepts into what was granted.
  `SlotsAccounted` counts recorders with the library's facts on cardinality and
  needs that a request starts one recorder at most. Assumption: the set of requests
  is finite.

  The envelope's properties compare what the client has with `direct`, what it would
  have had without the envelope. While a handler runs the two differ, so `Mirrored`
  says by how much: a writer in passthrough has handed everything over and is where
  `direct` is; one that buffers has handed over nothing, holds all of it, and holds
  only an answer that it may still have to rewrite, whose headers are still open. `WriteHeaderMirrors`,
  `WriteMirrors`, `FlushMirrors` and `SetHeaderMirrors` show that each call of the
  writer keeps this, for any sequence of texts, and `FinishDelivers` that the return
  of the handler ends it in one of the two answers the property allows.

* **EntBuilders** (`BuildersTypeCorrect`, `NothingStoredUnsaved`,
  `OldValueNeverOwn`, `OnlyCheckedStored`, `LastCallsAlwaysShow`), for any number of
  builders, rows and calls, on every field of every entity. None of the properties is
  inductive: a statement stores what mutations hold, so `Piece` says that what the
  mutation of a builder holds, pending, added or taken for a bulk, comes from that
  builder alone, that a builder not yet made has done nothing, and that one waiting
  in a bulk has been made. `Lined` says that the members of a bulk run in turn and
  nobody is in two bulks, so that at most one of them is at its hooks, and that the
  end of one Save (`Report`) reaches exactly its own members; without it a row stored
  by the batch could lose the Save it is waiting for. `OutcomeSource` then shows that
  what an UPDATE leaves in a row is of its builder or was there. Assumptions: the
  marks for nil, NULL and unread differ from each other and from every value, and no
  builder is called "default" or "bad".

  Two more properties rest on facts about the six generated tables, which are proved
  from the tables themselves: `Complete` (what a mutation can hold, `sqlSave` writes;
  a NOT NULL column is required by the create and cleared by nothing) and
  `Validates` (what a mixin validates every check covers, and every descriptor is
  bound under its own name). `CheckedInv` follows a bad value from the call that
  passed it: it can be pending only in a field that the mixin judges, and is never
  in an addition, a bulk's specification or a row; `Bound` follows `init()` from
  entity to entity. `Followed` ties the pointers and the cleared mark of a mutation
  to the log of its calls (`Reflects`: a pending value is that of the last Set with
  only Adds after it, the addition is that of the Adds at the end, and the mark is
  there when a Clear is), and says that only creates are chained, so that no bulk
  finishes an update; `OutcomeAsked` compares the assignments with `Asked`.
  `OnlyCheckedStored` has one hypothesis, `Validates` for OAuthClient and the mixin
  that `init()` finds. The mixin the fixture was generated from satisfies it
  (`FixtureAgrees`, which TLC evaluates); the repository's present one does not
  (`CurrentMixinPanics`). Further assumptions: nil is no error code and no number
  `init()` counts to.

Only model-checked: `RequestsAnswered`, a liveness property under fairness, which is
out of the prover's reach. Every other property of a passing run is a theorem.

## 5. Not modelled

Rendering, redirects, JSON and form encoding; cryptography (tokens, codes and keys
are names that cannot be guessed); several replicas with one replay cache each
(they behave as without a window); the wording of errors and events; fosite itself,
of which only the order of its storage calls is used. Of the generated client:
queries, predicates, scanning, interceptors, transactions and migrations, which
keep no state that the builders see, and hooks that do not call the next mutator or
hide its error. Of the CLI: credentials files with several
hosts (`UseHost`, `DeleteAll`) and discovery, which is one of the calls that may
fail. Discovery documents, login classification and the interfaces in `audit`,
`authz` and `userstore` have no state to check. Every part is listed with its
reason in `PROJECT.json`.

## 6. Plan

1. Done: the modules above and the proofs of section 4.
2. Done: a theorem for every invariant and action property of the passing runs.
3. A composition of consent, code and rotation of one grant; credentials files with
   several hosts.
