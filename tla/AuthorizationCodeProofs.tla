---------------------- MODULE AuthorizationCodeProofs ----------------------
(***************************************************************************)
(* Proofs about AuthorizationCode for any number of codes and requests,    *)
(* public or confidential clients and both kinds of store, with store      *)
(* failures and restarts.                                                  *)
(***************************************************************************)
EXTENDS AuthorizationCode, TLAPS

\* Where a request may be that has been past the PKCE check.
Past == Writing \cup {"relookup", "oidcGet", "oidcDelete", "respond"}

\* Requests act on codes that were shown, whose rows have been written before.
ShownInv ==
    /\ \A r \in Requests : pc[r] # "idle" => issuing[cd[r]] = "shown"
    /\ \A c \in Codes : issuing[c] = "start" => code[c] = "none"
    /\ \A c \in burned : issuing[c] = "shown" /\ c \notin pkce
    /\ \A r \in access \cup refresh \cup answered \cup minted \cup late \cup clean : pc[r] # "idle"

\* Without a transaction the code is spent before the first token is written.
SpendInv ==
    /\ \A r \in Requests :
          (~ transactional /\ pc[r] \in {"createAccess", "createRefresh", "commit"}) =>
              code[cd[r]] = "inactive"
    /\ TokensSpendTheCode

ProvenInv ==
    /\ \A r \in Requests : pc[r] \in Past =>
          (r \in proven \/ (~ public /\ r \in bare)) /\ cd[r] \notin pkce
    /\ TokensAreProven

\* A request that comes after a wrong verifier finds no PKCE row.
BurnInv ==
    /\ \A r \in late : cd[r] \in burned
    /\ public => \A r \in late : pc[r] \notin Past \cup {"pkceDelete"}
    /\ WrongVerifierBurns

Quiet(c) == code[c] = "inactive" /\ \A q \in Requests : cd[q] = c => pc[q] \notin Writing
Holds(S, c) == \E r \in S : cd[r] = c

\* A detection that met no writer meets none later, for the code is spent.
ReuseInv ==
    /\ \A r \in clean : pc[r] \in {"reuseAccess", "reuseRefresh", "failed"}
    /\ \A r \in clean : pc[r] \in {"reuseAccess", "reuseRefresh"} => Quiet(cd[r])
    /\ \A r \in clean : pc[r] = "reuseRefresh" => ~ Holds(access, cd[r])
    /\ \A c \in reused : Quiet(c) /\ ~ Holds(access, c) /\ ~ Holds(refresh, c)

BaseInv == TypeOK /\ ShownInv
CodeInv == BaseInv /\ SpendInv /\ ProvenInv /\ BurnInv /\ ReuseInv /\ SpentMeansMinted

-----------------------------------------------------------------------------
USE CodeConstants DEF rows, brought, history, Goto, Writing

\* Steps keep the shape of the state.
LEMMA TypeStep == CodeInv /\ [Next]_vars => TypeOK'
<1> SUFFICES ASSUME CodeInv, [Next]_vars
             PROVE  TypeOK'
  OBVIOUS
<1>0. TypeOK /\ ShownInv
  BY DEF CodeInv, BaseInv
<1> USE DEF TypeOK, ShownInv, Locations
<1> UNCHANGED setup
  BY DEF Next, vars
<1> USE DEF setup
<1>1. CASE UNCHANGED vars
  BY <1>0, <1>1 DEF vars
<1>2. CASE Crash
  BY <1>0, <1>2 DEF Crash
<1>3. ASSUME NEW c \in Codes, Authorize(c)
      PROVE  TypeOK'
  BY <1>0, <1>3 DEF Authorize, CreateCode, CreateOIDC, CreatePKCE, IssueFails, Expire
<1>4. ASSUME NEW r \in Requests, NEW c \in Codes, NEW verifier \in Verifiers,
             Arrive(r, c, verifier)
      PROVE  TypeOK'
  BY <1>0, <1>4 DEF Arrive
<1>5. ASSUME NEW r \in Requests, Reuse(r)
      PROVE  TypeOK'
  BY <1>0, <1>5 DEF Reuse, ReuseAccess, ReuseRefresh, ReuseFails, OnCode
<1>6. ASSUME NEW r \in Requests, Exchange(r)
      PROVE  TypeOK'
  <2>1. CASE Lookup(r)
    BY <1>0, <2>1 DEF Lookup, OnCode
  <2>2. CASE PkceGet(r) \/ PkceDelete(r)
    BY <1>0, <2>2 DEF PkceGet, PkceDelete
  <2>3. CASE Relookup(r) \/ Invalidate(r)
    BY <1>0, <2>3 DEF Relookup, Invalidate
  <2>4. CASE CreateAccess(r) \/ CreateRefresh(r)
    BY <1>0, <2>4 DEF CreateAccess, CreateRefresh
  <2>5. CASE Commit(r)
    BY <1>0, <2>5 DEF Commit
  <2>6. CASE OidcGet(r) \/ OidcDelete(r) \/ Respond(r) \/ ExchangeFails(r)
    BY <1>0, <2>6 DEF OidcGet, OidcDelete, Respond, ExchangeFails
  <2> QED
    BY <1>6, <2>1, <2>2, <2>3, <2>4, <2>5, <2>6 DEF Exchange
<1> QED
  BY <1>1, <1>2, <1>3, <1>4, <1>5, <1>6 DEF Next

\* Steps act on codes that were shown.
LEMMA ShownStep == CodeInv /\ [Next]_vars => ShownInv'
<1> SUFFICES ASSUME CodeInv, [Next]_vars
             PROVE  ShownInv'
  OBVIOUS
<1>0. TypeOK /\ ShownInv
  BY DEF CodeInv, BaseInv
<1> USE DEF TypeOK, ShownInv
<1> UNCHANGED setup
  BY DEF Next, vars
<1> USE DEF setup
<1>1. CASE UNCHANGED vars
  BY <1>0, <1>1 DEF vars
<1>2. CASE Crash
  BY <1>0, <1>2 DEF Crash
<1>3. ASSUME NEW c \in Codes, Authorize(c)
      PROVE  ShownInv'
  BY <1>0, <1>3 DEF Authorize, CreateCode, CreateOIDC, CreatePKCE, IssueFails, Expire
<1>4. ASSUME NEW r \in Requests, NEW c \in Codes, NEW verifier \in Verifiers,
             Arrive(r, c, verifier)
      PROVE  ShownInv'
  BY <1>0, <1>4 DEF Arrive
<1>5. ASSUME NEW r \in Requests, Reuse(r)
      PROVE  ShownInv'
  BY <1>0, <1>5 DEF Reuse, ReuseAccess, ReuseRefresh, ReuseFails, OnCode
<1>6. ASSUME NEW r \in Requests, Exchange(r)
      PROVE  ShownInv'
  <2>1. CASE Lookup(r)
    BY <1>0, <2>1 DEF Lookup, OnCode
  <2>2. CASE PkceGet(r) \/ PkceDelete(r)
    BY <1>0, <2>2 DEF PkceGet, PkceDelete
  <2>3. CASE Relookup(r) \/ Invalidate(r)
    BY <1>0, <2>3 DEF Relookup, Invalidate
  <2>4. CASE CreateAccess(r) \/ CreateRefresh(r)
    BY <1>0, <2>4 DEF CreateAccess, CreateRefresh
  <2>5. CASE Commit(r)
    BY <1>0, <2>5 DEF Commit
  <2>6. CASE OidcGet(r) \/ OidcDelete(r) \/ Respond(r) \/ ExchangeFails(r)
    BY <1>0, <2>6 DEF OidcGet, OidcDelete, Respond, ExchangeFails
  <2> QED
    BY <1>6, <2>1, <2>2, <2>3, <2>4, <2>5, <2>6 DEF Exchange
<1> QED
  BY <1>1, <1>2, <1>3, <1>4, <1>5, <1>6 DEF Next

\* The code is spent before, or together with, the first token.
LEMMA SpendStep == CodeInv /\ [Next]_vars => SpendInv'
<1> SUFFICES ASSUME CodeInv, [Next]_vars
             PROVE  SpendInv'
  OBVIOUS
<1>0. TypeOK /\ ShownInv /\ SpendInv
  BY DEF CodeInv, BaseInv
<1> USE DEF TypeOK, ShownInv, SpendInv, TokensSpendTheCode
<1> UNCHANGED setup
  BY DEF Next, vars
<1> USE DEF setup
<1>1. CASE UNCHANGED vars
  BY <1>0, <1>1 DEF vars
<1>2. CASE Crash
  BY <1>0, <1>2 DEF Crash
<1>3. ASSUME NEW c \in Codes, Authorize(c)
      PROVE  SpendInv'
  BY <1>0, <1>3 DEF Authorize, CreateCode, CreateOIDC, CreatePKCE, IssueFails, Expire
<1>4. ASSUME NEW r \in Requests, NEW c \in Codes, NEW verifier \in Verifiers,
             Arrive(r, c, verifier)
      PROVE  SpendInv'
  BY <1>0, <1>4 DEF Arrive
<1>5. ASSUME NEW r \in Requests, Reuse(r)
      PROVE  SpendInv'
  BY <1>0, <1>5 DEF Reuse, ReuseAccess, ReuseRefresh, ReuseFails, OnCode
<1>6. ASSUME NEW r \in Requests, Exchange(r)
      PROVE  SpendInv'
  <2>1. CASE Lookup(r)
    BY <1>0, <2>1 DEF Lookup, OnCode
  <2>2. CASE PkceGet(r) \/ PkceDelete(r)
    BY <1>0, <2>2 DEF PkceGet, PkceDelete
  <2>3. CASE Relookup(r) \/ Invalidate(r)
    BY <1>0, <2>3 DEF Relookup, Invalidate
  <2>4. CASE CreateAccess(r) \/ CreateRefresh(r)
    BY <1>0, <2>4 DEF CreateAccess, CreateRefresh
  <2>5. CASE Commit(r)
    BY <1>0, <2>5 DEF Commit
  <2>6. CASE OidcGet(r) \/ OidcDelete(r) \/ Respond(r) \/ ExchangeFails(r)
    BY <1>0, <2>6 DEF OidcGet, OidcDelete, Respond, ExchangeFails
  <2> QED
    BY <1>6, <2>1, <2>2, <2>3, <2>4, <2>5, <2>6 DEF Exchange
<1> QED
  BY <1>1, <1>2, <1>3, <1>4, <1>5, <1>6 DEF Next

\* Only a proven request gets past the deletion of the PKCE row.
LEMMA ProvenStep == CodeInv /\ [Next]_vars => ProvenInv'
<1> SUFFICES ASSUME CodeInv, [Next]_vars
             PROVE  ProvenInv'
  OBVIOUS
<1>0. TypeOK /\ ShownInv /\ ProvenInv
  BY DEF CodeInv, BaseInv
<1> USE DEF TypeOK, ShownInv, ProvenInv, TokensAreProven, Past
<1> UNCHANGED setup
  BY DEF Next, vars
<1> USE DEF setup
<1>1. CASE UNCHANGED vars
  BY <1>0, <1>1 DEF vars
<1>2. CASE Crash
  BY <1>0, <1>2 DEF Crash
<1>3. ASSUME NEW c \in Codes, Authorize(c)
      PROVE  ProvenInv'
  BY <1>0, <1>3 DEF Authorize, CreateCode, CreateOIDC, CreatePKCE, IssueFails, Expire
<1>4. ASSUME NEW r \in Requests, NEW c \in Codes, NEW verifier \in Verifiers,
             Arrive(r, c, verifier)
      PROVE  ProvenInv'
  BY <1>0, <1>4 DEF Arrive
<1>5. ASSUME NEW r \in Requests, Reuse(r)
      PROVE  ProvenInv'
  BY <1>0, <1>5 DEF Reuse, ReuseAccess, ReuseRefresh, ReuseFails, OnCode
<1>6. ASSUME NEW r \in Requests, Exchange(r)
      PROVE  ProvenInv'
  <2>1. CASE Lookup(r)
    BY <1>0, <2>1 DEF Lookup, OnCode
  <2>2. CASE PkceGet(r) \/ PkceDelete(r)
    BY <1>0, <2>2 DEF PkceGet, PkceDelete
  <2>3. CASE Relookup(r) \/ Invalidate(r)
    BY <1>0, <2>3 DEF Relookup, Invalidate
  <2>4. CASE CreateAccess(r) \/ CreateRefresh(r)
    BY <1>0, <2>4 DEF CreateAccess, CreateRefresh
  <2>5. CASE Commit(r)
    BY <1>0, <2>5 DEF Commit
  <2>6. CASE OidcGet(r) \/ OidcDelete(r) \/ Respond(r) \/ ExchangeFails(r)
    BY <1>0, <2>6 DEF OidcGet, OidcDelete, Respond, ExchangeFails
  <2> QED
    BY <1>6, <2>1, <2>2, <2>3, <2>4, <2>5, <2>6 DEF Exchange
<1> QED
  BY <1>1, <1>2, <1>3, <1>4, <1>5, <1>6 DEF Next

\* After a wrong verifier the PKCE row is gone and stays away.
LEMMA BurnStep == CodeInv /\ [Next]_vars => BurnInv'
<1> SUFFICES ASSUME CodeInv, [Next]_vars
             PROVE  BurnInv'
  OBVIOUS
<1>0. TypeOK /\ ShownInv /\ ProvenInv /\ BurnInv
  BY DEF CodeInv, BaseInv
<1> USE DEF TypeOK, ShownInv, ProvenInv, BurnInv, WrongVerifierBurns, Past
<1> UNCHANGED setup
  BY DEF Next, vars
<1> USE DEF setup
<1>1. CASE UNCHANGED vars
  BY <1>0, <1>1 DEF vars
<1>2. CASE Crash
  BY <1>0, <1>2 DEF Crash
<1>3. ASSUME NEW c \in Codes, Authorize(c)
      PROVE  BurnInv'
  BY <1>0, <1>3 DEF Authorize, CreateCode, CreateOIDC, CreatePKCE, IssueFails, Expire
<1>4. ASSUME NEW r \in Requests, NEW c \in Codes, NEW verifier \in Verifiers,
             Arrive(r, c, verifier)
      PROVE  BurnInv'
  BY <1>0, <1>4 DEF Arrive
<1>5. ASSUME NEW r \in Requests, Reuse(r)
      PROVE  BurnInv'
  BY <1>0, <1>5 DEF Reuse, ReuseAccess, ReuseRefresh, ReuseFails, OnCode
<1>6. ASSUME NEW r \in Requests, Exchange(r)
      PROVE  BurnInv'
  <2>1. CASE Lookup(r)
    BY <1>0, <2>1 DEF Lookup, OnCode
  <2>2. CASE PkceGet(r) \/ PkceDelete(r)
    BY <1>0, <2>2 DEF PkceGet, PkceDelete
  <2>3. CASE Relookup(r) \/ Invalidate(r)
    BY <1>0, <2>3 DEF Relookup, Invalidate
  <2>4. CASE CreateAccess(r) \/ CreateRefresh(r)
    BY <1>0, <2>4 DEF CreateAccess, CreateRefresh
  <2>5. CASE Commit(r)
    BY <1>0, <2>5 DEF Commit
  <2>6. CASE OidcGet(r) \/ OidcDelete(r) \/ Respond(r) \/ ExchangeFails(r)
    BY <1>0, <2>6 DEF OidcGet, OidcDelete, Respond, ExchangeFails
  <2> QED
    BY <1>6, <2>1, <2>2, <2>3, <2>4, <2>5, <2>6 DEF Exchange
<1> QED
  BY <1>1, <1>2, <1>3, <1>4, <1>5, <1>6 DEF Next

\* A clean reuse detection leaves nothing behind that could write again.
LEMMA ReuseStep == CodeInv /\ [Next]_vars => ReuseInv'
<1> SUFFICES ASSUME CodeInv, [Next]_vars
             PROVE  ReuseInv'
  OBVIOUS
<1>0. TypeOK /\ ShownInv /\ SpendInv /\ ReuseInv
  BY DEF CodeInv, BaseInv
<1> USE DEF TypeOK, ShownInv, SpendInv, ReuseInv, TokensSpendTheCode, Quiet, Holds
<1> UNCHANGED setup
  BY DEF Next, vars
<1> USE DEF setup
<1>1. CASE UNCHANGED vars
  BY <1>0, <1>1 DEF vars
<1>2. CASE Crash
  BY <1>0, <1>2 DEF Crash
<1>3. ASSUME NEW c \in Codes, Authorize(c)
      PROVE  ReuseInv'
  BY <1>0, <1>3 DEF Authorize, CreateCode, CreateOIDC, CreatePKCE, IssueFails, Expire
<1>4. ASSUME NEW r \in Requests, NEW c \in Codes, NEW verifier \in Verifiers,
             Arrive(r, c, verifier)
      PROVE  ReuseInv'
  BY <1>0, <1>4 DEF Arrive
<1>5. ASSUME NEW r \in Requests, Reuse(r)
      PROVE  ReuseInv'
  BY <1>0, <1>5 DEF Reuse, ReuseAccess, ReuseRefresh, ReuseFails, OnCode
<1>6. ASSUME NEW r \in Requests, Exchange(r)
      PROVE  ReuseInv'
  <2>1. CASE Lookup(r)
    BY <1>0, <2>1 DEF Lookup, OnCode
  <2>2. CASE PkceGet(r) \/ PkceDelete(r)
    BY <1>0, <2>2 DEF PkceGet, PkceDelete
  <2>3. CASE Relookup(r) \/ Invalidate(r)
    BY <1>0, <2>3 DEF Relookup, Invalidate
  <2>4. CASE CreateAccess(r) \/ CreateRefresh(r)
    BY <1>0, <2>4 DEF CreateAccess, CreateRefresh
  <2>5. CASE Commit(r)
    BY <1>0, <2>5 DEF Commit
  <2>6. CASE OidcGet(r) \/ OidcDelete(r) \/ Respond(r) \/ ExchangeFails(r)
    BY <1>0, <2>6 DEF OidcGet, OidcDelete, Respond, ExchangeFails
  <2> QED
    BY <1>6, <2>1, <2>2, <2>3, <2>4, <2>5, <2>6 DEF Exchange
<1> QED
  BY <1>1, <1>2, <1>3, <1>4, <1>5, <1>6 DEF Next

\* A transaction spends the code and stores the pair together.
LEMMA MintStep == CodeInv /\ [Next]_vars => SpentMeansMinted'
<1> SUFFICES ASSUME CodeInv, [Next]_vars
             PROVE  SpentMeansMinted'
  OBVIOUS
<1>0. TypeOK /\ ShownInv /\ SpentMeansMinted
  BY DEF CodeInv, BaseInv
<1> USE DEF TypeOK, ShownInv, SpentMeansMinted
<1> UNCHANGED setup
  BY DEF Next, vars
<1> USE DEF setup
<1>1. CASE UNCHANGED vars
  BY <1>0, <1>1 DEF vars
<1>2. CASE Crash
  BY <1>0, <1>2 DEF Crash
<1>3. ASSUME NEW c \in Codes, Authorize(c)
      PROVE  SpentMeansMinted'
  BY <1>0, <1>3 DEF Authorize, CreateCode, CreateOIDC, CreatePKCE, IssueFails, Expire
<1>4. ASSUME NEW r \in Requests, NEW c \in Codes, NEW verifier \in Verifiers,
             Arrive(r, c, verifier)
      PROVE  SpentMeansMinted'
  BY <1>0, <1>4 DEF Arrive
<1>5. ASSUME NEW r \in Requests, Reuse(r)
      PROVE  SpentMeansMinted'
  BY <1>0, <1>5 DEF Reuse, ReuseAccess, ReuseRefresh, ReuseFails, OnCode
<1>6. ASSUME NEW r \in Requests, Exchange(r)
      PROVE  SpentMeansMinted'
  <2>1. CASE Lookup(r)
    BY <1>0, <2>1 DEF Lookup, OnCode
  <2>2. CASE PkceGet(r) \/ PkceDelete(r)
    BY <1>0, <2>2 DEF PkceGet, PkceDelete
  <2>3. CASE Relookup(r) \/ Invalidate(r)
    BY <1>0, <2>3 DEF Relookup, Invalidate
  <2>4. CASE CreateAccess(r) \/ CreateRefresh(r)
    BY <1>0, <2>4 DEF CreateAccess, CreateRefresh
  <2>5. CASE Commit(r)
    BY <1>0, <2>5 DEF Commit
  <2>6. CASE OidcGet(r) \/ OidcDelete(r) \/ Respond(r) \/ ExchangeFails(r)
    BY <1>0, <2>6 DEF OidcGet, OidcDelete, Respond, ExchangeFails
  <2> QED
    BY <1>6, <2>1, <2>2, <2>3, <2>4, <2>5, <2>6 DEF Exchange
<1> QED
  BY <1>1, <1>2, <1>3, <1>4, <1>5, <1>6 DEF Next

-----------------------------------------------------------------------------
\* The inductive invariant holds initially and every step keeps it.
LEMMA CodeInvariant == Spec => []CodeInv
<1>1. Init => CodeInv
  BY DEF Init, CodeInv, BaseInv, TypeOK, ShownInv, SpendInv, ProvenInv, BurnInv, ReuseInv, Past,
         Locations, TokensSpendTheCode, TokensAreProven, WrongVerifierBurns, SpentMeansMinted
<1>2. CodeInv /\ [Next]_vars => CodeInv'
  BY TypeStep, ShownStep, SpendStep, ProvenStep, BurnStep, ReuseStep, MintStep
  DEF CodeInv, BaseInv
<1> QED
  BY <1>1, <1>2, PTL DEF Spec

\* The rows and requests keep their shape, and a request under way carries a code.
THEOREM CodeTypeCorrect == Spec => []TypeOK
<1>1. CodeInv => TypeOK
  BY DEF CodeInv, BaseInv, TypeOK
<1> QED
  BY <1>1, CodeInvariant, PTL

\* Every stored token has a spent code behind it (InvalidateAuthorizeCodeSession comes
\* first, or in the same transaction), so a second use is always seen as reuse.
THEOREM CodeIsSpentFirst == Spec => []TokensSpendTheCode
<1>1. CodeInv => TokensSpendTheCode
  BY DEF CodeInv, SpendInv, TokensSpendTheCode
<1> QED
  BY <1>1, CodeInvariant, PTL

\* PKCE: only requests that proved the verifier, or of a confidential client brought
\* none, have tokens (GetPKCERequestSession and
\* DeletePKCERequestSession, before the comparison).
THEOREM TokensNeedProof == Spec => []TokensAreProven
<1>1. CodeInv => TokensAreProven
  BY DEF CodeInv, ProvenInv, TokensAreProven
<1> QED
  BY <1>1, CodeInvariant, PTL

\* A wrong verifier spends the code for all who come later.
THEOREM WrongVerifierIsFinal == Spec => []WrongVerifierBurns
<1>1. CodeInv => WrongVerifierBurns
  BY DEF CodeInv, BurnInv, WrongVerifierBurns
<1> QED
  BY <1>1, CodeInvariant, PTL

\* After a clean reuse detection (RevokeAccessToken, RevokeRefreshToken) the code's tokens
\* are gone for good.
THEOREM ReuseIsFinal == Spec => []ReuseRevokes
<1>1. CodeInv => ReuseRevokes
  BY DEF CodeInv, ReuseInv, Holds, ReuseRevokes
<1> QED
  BY <1>1, CodeInvariant, PTL

\* Over a TransactionalStore a spent code always stored its pair.
THEOREM NothingIsLost == Spec => []SpentMeansMinted
<1>1. CodeInv => SpentMeansMinted
  BY DEF CodeInv, SpentMeansMinted
<1> QED
  BY <1>1, CodeInvariant, PTL
=============================================================================
