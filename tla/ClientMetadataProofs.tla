------------------------ MODULE ClientMetadataProofs ------------------------
(***************************************************************************)
(* Proofs about ClientMetadata for any number of requests, URLs and        *)
(* documents, any cache limit, lifetime and timeout.                       *)
(***************************************************************************)
EXTENDS ClientMetadata, FiniteSetTheorems, TLAPS

\* How long a document that left its site at time t may be used.
UseBy(d, t) == Deadline(d, t) + Timeout

\* A fetch under way is no older than Timeout, and what it or the cache holds will
\* not be used past its deadline.
FreshInv ==
    /\ \A r \in Requests :
          pc[r] \in {"decode", "store"} => sent[r] <= now /\ now <= sent[r] + Timeout
    /\ \A r \in Requests :
          (pc[r] = "store" /\ life[r] > 0) => sent[r] + Timeout + life[r] <= UseBy(got[r], sent[r])
    /\ \A u \in Cached : expiresAt[u] <= UseBy(entry[u], from[u])
    /\ AnswersFresh

\* Only documents that passed the checks get as far as the cache.
AcceptedInv ==
    /\ \A r \in Requests : pc[r] = "store" => clientFromDocument(id[r], got[r])
    /\ NoWidening

EarlyInv ==
    /\ \A r \in early : id[r] \in registered
    /\ RegisteredWins

MetadataInv == TypeOK /\ FreshInv /\ AcceptedInv /\ EarlyInv /\ CacheBounded

-----------------------------------------------------------------------------
LEMMA Parameters == Urls \subseteq Ids /\ None \notin Documents /\ Timeout \in Nat
  BY MetadataConstants

\* clientFromDocument lets nothing through that is not within the policy.
LEMMA AcceptedDocuments ==
    \A u, d : clientFromDocument(u, d) => WithinPolicy(u, d)
  BY DEF clientFromDocument, WithinPolicy, Common, ScopesAllowed

(* Lifetimes *)

\* A cache lifetime is a number, and a deadline is no earlier than its document.
LEMMA Lifetimes ==
    ASSUME NEW d \in Documents, NEW t \in Nat
    PROVE  cacheLifetime(d, t) \in Nat /\ Deadline(d, t) \in Nat /\ t <= Deadline(d, t)
  BY MetadataConstants DEF cacheLifetime, Deadline

\* A lifetime computed when the response is read, and counted from when it was sent,
\* ends by the document's deadline.
LEMMA LifetimeFits ==
    ASSUME NEW d \in Documents, NEW t \in Nat, NEW u \in Nat, t <= u, cacheLifetime(d, u) > 0
    PROVE  t + cacheLifetime(d, u) <= Deadline(d, t)
  BY MetadataConstants DEF cacheLifetime, Deadline

-----------------------------------------------------------------------------
(* The size of the cache *)

LEMMA CachedFinite == IsFiniteSet(Cached) /\ Cardinality(Cached) \in Nat
<1>1. Cached \subseteq Urls
  BY DEF Cached
<1> QED
  BY <1>1, MetadataConstants, FS_Subset, FS_CardinalityType

\* evictExpiredLocked and the removal of one entry leave room for a new one.
LEMMA EvictMakesRoom ==
    ASSUME NEW kept \in evict, CacheBounded
    PROVE  IsFiniteSet(kept) /\ Cardinality(kept) \in Nat /\ Cardinality(kept) < MaxItems
<1> DEFINE live == {u \in Cached : expiresAt[u] > now}
<1>0. MaxItems \in Nat \ {0}
  BY MetadataConstants
<1>1. IsFiniteSet(live) /\ Cardinality(live) \in Nat /\ Cardinality(live) <= Cardinality(Cached)
  BY CachedFinite, FS_Subset, FS_CardinalityType
<1>2. CASE Cardinality(Cached) < MaxItems
  BY <1>2, CachedFinite DEF evict
<1>3. CASE ~ (Cardinality(Cached) < MaxItems) /\ Cardinality(live) < MaxItems
  BY <1>1, <1>3 DEF evict
<1>4. CASE ~ (Cardinality(Cached) < MaxItems) /\ ~ (Cardinality(live) < MaxItems)
  <2>1. PICK k \in live : kept = live \ {k}
    BY <1>4 DEF evict
  <2>2. IsFiniteSet(kept) /\ Cardinality(kept) = Cardinality(live) - 1
    BY <1>1, <2>1, FS_RemoveElement
  <2>3. Cardinality(live) <= MaxItems
    BY <1>0, <1>1, CachedFinite DEF CacheBounded
  <2> QED
    BY <1>0, <1>1, <2>2, <2>3, FS_CardinalityType
<1> QED
  BY <1>2, <1>3, <1>4

\* Every step keeps the cache within its limit.
LEMMA BoundStep == TypeOK /\ CacheBounded /\ [Next]_vars => CacheBounded'
<1> SUFFICES ASSUME TypeOK, CacheBounded, [Next]_vars
             PROVE  CacheBounded'
  OBVIOUS
<1>0. MaxItems \in Nat \ {0}
  BY MetadataConstants
<1>1. CASE Cached' \subseteq Cached
  <2>1. Cardinality(Cached') \in Nat /\ Cardinality(Cached') <= Cardinality(Cached)
    BY <1>1, CachedFinite, FS_Subset, FS_CardinalityType
  <2> QED
    BY <1>0, <2>1, CachedFinite DEF CacheBounded
<1>2. ASSUME NEW r \in Requests, store(r), life[r] > 0
      PROVE  CacheBounded'
  <2>1. PICK kept \in evict :
            entry' = [u \in Urls |-> IF u = id[r] THEN got[r]
                                     ELSE IF u \in kept THEN entry[u] ELSE None]
    BY <1>2 DEF store
  <2>2. Cached' \subseteq kept \cup {id[r]}
    BY <2>1 DEF Cached
  <2>3. IsFiniteSet(kept) /\ Cardinality(kept) \in Nat /\ Cardinality(kept) < MaxItems
    BY EvictMakesRoom
  <2>4. /\ IsFiniteSet(kept \cup {id[r]})
        /\ Cardinality(kept \cup {id[r]}) \in Nat
        /\ Cardinality(kept \cup {id[r]}) <= Cardinality(kept) + 1
    <3>1. CASE id[r] \in kept
      <4>1. kept \cup {id[r]} = kept
        BY <3>1
      <4> QED
        BY <2>3, <4>1
    <3>2. CASE id[r] \notin kept
      BY <2>3, <3>2, FS_AddElement
    <3> QED
      BY <3>1, <3>2
  <2>5. Cardinality(Cached') \in Nat /\ Cardinality(Cached') <= Cardinality(kept \cup {id[r]})
    BY <2>2, <2>4, FS_Subset, FS_CardinalityType
  <2> QED
    BY <1>0, <2>3, <2>4, <2>5 DEF CacheBounded
<1>3. ASSUME NEW r \in Requests, cached(r)
      PROVE  Cached' \subseteq Cached
  BY <1>3 DEF cached, Cached, TypeOK
<1>4. ASSUME NEW r \in Requests, store(r), ~ (life[r] > 0)
      PROVE  Cached' = Cached
  BY <1>4 DEF store, cache, Cached
<1>5. ASSUME UNCHANGED entry
      PROVE  Cached' = Cached
  BY <1>5 DEF Cached
<1> QED
  BY <1>1, <1>2, <1>3, <1>4, <1>5 DEF Next, vars, cache, Tick, Register, Look, Arrive, GetClient,
     LookupFails, Resolve, Serve, FetchFails, fetch

-----------------------------------------------------------------------------
(* The other parts of the invariant *)

\* Steps keep the shape of the state.
LEMMA TypeStep == MetadataInv /\ [Next]_vars => TypeOK'
<1> SUFFICES ASSUME MetadataInv, [Next]_vars
             PROVE  TypeOK'
  OBVIOUS
<1>0. TypeOK
  BY DEF MetadataInv
<1> USE Parameters DEF cache, fetched, history, Goto, TypeOK, Locations
<1>1. CASE UNCHANGED vars
  BY <1>0, <1>1 DEF vars
<1>2. CASE Tick
  BY <1>0, <1>2 DEF Tick
<1>3. ASSUME NEW i \in Ids, Register(i)
      PROVE  TypeOK'
  BY <1>0, <1>3 DEF Register
<1>4. ASSUME NEW r \in Requests, Look(r)
      PROVE  TypeOK'
  BY <1>0, <1>4 DEF Look, Arrive, GetClient, LookupFails
<1>5. ASSUME NEW r \in Requests, Resolve(r)
      PROVE  TypeOK'
  <2>1. CASE cached(r)
    BY <1>0, <2>1 DEF cached, Answer
  <2>2. CASE \E d \in Documents : Serve(r, d)
    BY <1>0, <2>2 DEF Serve
  <2>3. CASE FetchFails(r)
    BY <1>0, <2>3 DEF FetchFails, Refuse
  <2>4. CASE fetch(r)
    <3>1. got[r] \in Documents /\ cacheLifetime(got[r], now) \in Nat
      BY <1>0, <2>4, Lifetimes DEF fetch
    <3> QED
      BY <1>0, <2>4, <3>1 DEF fetch, Refuse
  <2>5. CASE store(r)
    BY <1>0, <2>5 DEF store, Answer
  <2> QED
    BY <1>5, <2>1, <2>2, <2>3, <2>4, <2>5 DEF Resolve
<1> QED
  BY <1>1, <1>2, <1>3, <1>4, <1>5 DEF Next

\* Nothing is kept past its deadline.
LEMMA FreshStep == MetadataInv /\ [Next]_vars => FreshInv'
<1> SUFFICES ASSUME MetadataInv, [Next]_vars
             PROVE  FreshInv'
  OBVIOUS
<1>0. TypeOK /\ FreshInv
  BY DEF MetadataInv
<1> USE Parameters DEF cache, fetched, history, Goto, TypeOK, FreshInv, AnswersFresh, UseBy, Cached
<1>1. CASE UNCHANGED vars
  BY <1>0, <1>1 DEF vars
<1>2. CASE Tick
  BY <1>0, <1>2 DEF Tick
<1>3. ASSUME NEW i \in Ids, Register(i)
      PROVE  FreshInv'
  BY <1>0, <1>3 DEF Register
<1>4. ASSUME NEW r \in Requests, Look(r)
      PROVE  FreshInv'
  BY <1>0, <1>4 DEF Look, Arrive, GetClient, LookupFails
<1>5. ASSUME NEW r \in Requests, Resolve(r)
      PROVE  FreshInv'
  <2>1. CASE cached(r)
    <3> DEFINE u == id[r]
    <3>1. CASE entry[u] # None /\ expiresAt[u] > now
      <4>1. u \in Cached /\ u \in Urls /\ entry[u] \in Documents
        BY <1>0, <2>1, <3>1 DEF cached
      <4>2. Deadline(entry[u], from[u]) \in Nat
        BY <1>0, <4>1, Lifetimes
      <4>3. now <= Deadline(entry[u], from[u]) + Timeout
        BY <1>0, <3>1, <4>1, <4>2
      <4> QED
        BY <1>0, <2>1, <3>1, <4>1, <4>3 DEF cached, Answer
    <3>2. CASE ~ (entry[u] # None /\ expiresAt[u] > now)
      BY <1>0, <2>1, <3>2 DEF cached
    <3> QED
      BY <3>1, <3>2
  <2>2. CASE \E d \in Documents : Serve(r, d)
    BY <1>0, <2>2 DEF Serve
  <2>3. CASE FetchFails(r)
    BY <1>0, <2>3 DEF FetchFails, Refuse
  <2>4. CASE fetch(r)
    <3> DEFINE d == got[r]
    <3>1. d \in Documents /\ cacheLifetime(d, now) \in Nat /\ Deadline(d, sent[r]) \in Nat
      BY <1>0, <2>4, Lifetimes DEF fetch
    <3>2. cacheLifetime(d, now) > 0 => sent[r] + cacheLifetime(d, now) <= Deadline(d, sent[r])
      BY <1>0, <2>4, <3>1, LifetimeFits DEF fetch
    <3> QED
      BY <1>0, <2>4, <3>1, <3>2 DEF fetch, Refuse
  <2>5. CASE store(r)
    <3> DEFINE d == got[r]
    <3>1. d \in Documents /\ Deadline(d, sent[r]) \in Nat /\ sent[r] <= Deadline(d, sent[r])
      BY <1>0, <2>5, Lifetimes DEF store
    <3>2. now <= Deadline(d, sent[r]) + Timeout
      BY <1>0, <2>5, <3>1 DEF store
    <3>3. life[r] > 0 => now + life[r] <= Deadline(d, sent[r]) + Timeout
      BY <1>0, <2>5, <3>1 DEF store
    <3> QED
      BY <1>0, <2>5, <3>1, <3>2, <3>3 DEF store, Answer
  <2> QED
    BY <1>5, <2>1, <2>2, <2>3, <2>4, <2>5 DEF Resolve
<1> QED
  BY <1>1, <1>2, <1>3, <1>4, <1>5 DEF Next

\* Only accepted documents are cached and answered.
LEMMA AcceptedStep == MetadataInv /\ [Next]_vars => AcceptedInv'
<1> SUFFICES ASSUME MetadataInv, [Next]_vars
             PROVE  AcceptedInv'
  OBVIOUS
<1>0. TypeOK /\ AcceptedInv
  BY DEF MetadataInv
<1> USE Parameters DEF cache, fetched, history, Goto, TypeOK, AcceptedInv, NoWidening, Cached
<1>1. CASE UNCHANGED vars
  BY <1>0, <1>1 DEF vars
<1>2. CASE Tick
  BY <1>0, <1>2 DEF Tick
<1>3. ASSUME NEW i \in Ids, Register(i)
      PROVE  AcceptedInv'
  BY <1>0, <1>3 DEF Register
<1>4. ASSUME NEW r \in Requests, Look(r)
      PROVE  AcceptedInv'
  BY <1>0, <1>4 DEF Look, Arrive, GetClient, LookupFails
<1>5. ASSUME NEW r \in Requests, Resolve(r)
      PROVE  AcceptedInv'
  <2>1. CASE cached(r)
    BY <1>0, <2>1, AcceptedDocuments DEF cached, Answer
  <2>2. CASE \E d \in Documents : Serve(r, d)
    BY <1>0, <2>2, AcceptedDocuments DEF Serve
  <2>3. CASE FetchFails(r)
    BY <1>0, <2>3, AcceptedDocuments DEF FetchFails, Refuse
  <2>4. CASE fetch(r)
    BY <1>0, <2>4, AcceptedDocuments DEF fetch, Refuse
  <2>5. CASE store(r)
    BY <1>0, <2>5, AcceptedDocuments DEF store, Answer
  <2> QED
    BY <1>5, <2>1, <2>2, <2>3, <2>4, <2>5 DEF Resolve
<1> QED
  BY <1>1, <1>2, <1>3, <1>4, <1>5 DEF Next

\* A request that came after the registration never reaches the resolver.
LEMMA EarlyStep == MetadataInv /\ [Next]_vars => EarlyInv'
<1> SUFFICES ASSUME MetadataInv, [Next]_vars
             PROVE  EarlyInv'
  OBVIOUS
<1>0. TypeOK /\ EarlyInv
  BY DEF MetadataInv
<1> USE Parameters DEF cache, fetched, history, Goto, TypeOK, EarlyInv, RegisteredWins
<1>1. CASE UNCHANGED vars
  BY <1>0, <1>1 DEF vars
<1>2. CASE Tick
  BY <1>0, <1>2 DEF Tick
<1>3. ASSUME NEW i \in Ids, Register(i)
      PROVE  EarlyInv'
  BY <1>0, <1>3 DEF Register
<1>4. ASSUME NEW r \in Requests, Look(r)
      PROVE  EarlyInv'
  BY <1>0, <1>4 DEF Look, Arrive, GetClient, LookupFails
<1>5. ASSUME NEW r \in Requests, Resolve(r)
      PROVE  EarlyInv'
  <2>1. CASE cached(r)
    BY <1>0, <2>1 DEF cached, Answer
  <2>2. CASE \E d \in Documents : Serve(r, d)
    BY <1>0, <2>2 DEF Serve
  <2>3. CASE FetchFails(r)
    BY <1>0, <2>3 DEF FetchFails, Refuse
  <2>4. CASE fetch(r)
    BY <1>0, <2>4 DEF fetch, Refuse
  <2>5. CASE store(r)
    BY <1>0, <2>5 DEF store, Answer
  <2> QED
    BY <1>5, <2>1, <2>2, <2>3, <2>4, <2>5 DEF Resolve
<1> QED
  BY <1>1, <1>2, <1>3, <1>4, <1>5 DEF Next

\* The inductive invariant.
LEMMA MetadataInvariant == Spec => []MetadataInv
<1>1. Init => MetadataInv
  <2> SUFFICES ASSUME Init PROVE MetadataInv
    OBVIOUS
  <2>1. Cached = {}
    BY DEF Init, Cached
  <2>2. CacheBounded
    BY <2>1, FS_EmptySet, MetadataConstants DEF CacheBounded
  <2> QED
    BY <2>1, <2>2 DEF Init, MetadataInv, TypeOK, Locations, FreshInv, AnswersFresh, AcceptedInv,
       NoWidening, EarlyInv, RegisteredWins
<1>2. MetadataInv /\ [Next]_vars => MetadataInv'
  BY TypeStep, FreshStep, AcceptedStep, EarlyStep, BoundStep DEF MetadataInv
<1> QED
  BY <1>1, <1>2, PTL DEF Spec

-----------------------------------------------------------------------------
\* The shape of the state; only metadata URLs get to the resolver.
THEOREM MetadataTypeCorrect == Spec => []TypeOK
<1>1. MetadataInv => TypeOK
  BY DEF MetadataInv, TypeOK
<1> QED
  BY <1>1, MetadataInvariant, PTL

\* No answer uses a document past its cache lifetime and one fetch, however fetches of a
\* URL overlap (cacheLifetime, cached, store).
THEOREM AnswersAreFresh == Spec => []AnswersFresh
<1>1. MetadataInv => AnswersFresh
  BY DEF MetadataInv, FreshInv, AnswersFresh
<1> QED
  BY <1>1, MetadataInvariant, PTL

\* Cached and answered documents speak for their own URL and stay within AllowedScopes
\* (clientFromDocument).
THEOREM DocumentsNeverWiden == Spec => []NoWidening
<1>1. MetadataInv => NoWidening
  BY DEF MetadataInv, AcceptedInv, NoWidening
<1> QED
  BY <1>1, MetadataInvariant, PTL

\* A registered client is never answered from a document (GetClient).
THEOREM RegisteredClientsWin == Spec => []RegisteredWins
<1>1. MetadataInv => RegisteredWins
  BY DEF MetadataInv, EarlyInv, RegisteredWins
<1> QED
  BY <1>1, MetadataInvariant, PTL

\* The document cache never exceeds clientMetadataMaxCacheItems (store,
\* evictExpiredLocked).
THEOREM CacheIsBounded == Spec => []CacheBounded
<1>1. MetadataInv => CacheBounded
  BY DEF MetadataInv, CacheBounded
<1> QED
  BY <1>1, MetadataInvariant, PTL
=============================================================================
