----------------------- MODULE RefreshRotationProofs -----------------------
(***************************************************************************)
(* Proofs about RefreshRotation for every set of requests and grants, both *)
(* kinds of store, with store failures and restarts.                       *)
(***************************************************************************)
EXTENDS RefreshRotation, TLAPS

\* Locations a request can be in once it has minted a pair; no step leaves them.
PostMint == {"signIDToken", "respond", "storeReplay", "endFlight", "emitReplay", "done", "dead"}

Settled(p) == p \in Families \/ (p \in Requests /\ pc[p] \in PostMint)

\* A request carries the grant of the token it presents, and both are fixed.
GrantInv ==
    /\ \A f \in Families : grant[f] = f
    /\ \A r \in Requests : pc[r] # "idle" =>
          /\ Settled(tok[r]) /\ grant[r] = grant[tok[r]] /\ grant[r] \in Families
    /\ \A p \in refresh : Settled(p)
    /\ \A p \in access : p \in Requests => pc[p] # "idle"
    /\ \A r \in Requests : resp[r] # None => Settled(resp[r])
    /\ \A r \in Requests : out[r].pair # None => Settled(out[r].pair)
    /\ \A p \in Pairs : cache[p].pair # None => Settled(cache[p].pair)

\* singleflight: whoever executes the exchange for a token leads its flight.
FlightInv == \A r \in Requests : pc[r] \in InFlight => flight[tok[r]] = r

\* Until it mints, a rotation is alone on its grant, and the only refresh row
\* of the grant is the presented one, until it is deleted.
RotationInv ==
    /\ \A p, q \in refresh : grant[p] = grant[q] => p = q
    /\ \A q, r \in Requests :
          (pc[q] \in Rotating /\ pc[r] \in Rotating /\ grant[q] = grant[r]) => q = r
    /\ \A r \in Requests : pc[r] \in Rotating =>
          \A p \in refresh : grant[p] = grant[r] =>
              p = tok[r] /\ (Transactional \/ pc[r] \in {"deleteAccess", "deleteRefresh"})

\* A pair has at most one successor, and every answer, recorded outcome and
\* cache entry for a token carries it.
SuccessorInv ==
    /\ \A p \in Pairs : succ[p] # None =>
          p \notin refresh /\ Settled(p) /\ Settled(succ[p])
    /\ \A r \in Requests : pc[r] \in Rotating => succ[tok[r]] = None
    /\ \A r \in Requests : pc[r] = "signIDToken" => succ[tok[r]] = r
    /\ \A r \in Requests : pc[r] = "idle" => out[r].pair = None /\ resp[r] = None
    /\ \A r \in Requests : out[r].pair # None => out[r].pair = succ[tok[r]]
    /\ \A r \in Requests : resp[r] # None => resp[r] = succ[tok[r]]
    /\ \A p \in Pairs : cache[p].pair # None => cache[p].pair = succ[p]

NoRotation(f) == \A q \in Requests : grant[q] = f => pc[q] \notin Rotating
NoRefresh(f)  == \A p \in refresh : grant[p] # f
NoAccess(f)   == \A p \in access : grant[p] # f

\* A revocation that met no rotation leaves nothing a rotation could start from.
RevocationInv ==
    /\ \A r \in clean : pc[r] \in {"revokeAccess", "done", "dead"}
    /\ \A r \in clean : pc[r] = "revokeAccess" =>
          NoRotation(grant[r]) /\ NoRefresh(grant[r])
    /\ \A f \in revoked : NoRotation(f) /\ NoRefresh(f) /\ NoAccess(f)

BaseInv   == TypeOK /\ GrantInv
SingleInv == BaseInv /\ FlightInv /\ RotationInv /\ SuccessorInv

-----------------------------------------------------------------------------
(* The shape of the state *)

USE ConstantsAssumption DEF NoTime, Times

LEMMA ResponseTypes ==
    /\ ErrorAnswer \in Response /\ NoEntry \in Response
    /\ \A r \in Requests : Fresh(r) \in Response /\ Fresh(r).pair = r
    /\ ErrorAnswer.pair = None /\ NoEntry.pair = None
BY DEF Response, ErrorAnswer, NoEntry, Fresh, Pairs

LEMMA LookupType ==
    ASSUME TypeOK, NEW p \in Pairs, NEW t \in Times
    PROVE  /\ AfterLookup(p, t) \in Response
           /\ Hit(p, t) => AfterLookup(p, t).pair = cache[p].pair
           /\ ~ Hit(p, t) => AfterLookup(p, t).pair = None
<1>1. cache[p] \in Response
  BY DEF TypeOK
<1>2. Counted(cache[p], t) \in Response /\ Counted(cache[p], t).pair = cache[p].pair
  BY <1>1 DEF Counted, Response
<1> QED
  BY <1>2, ResponseTypes DEF AfterLookup

LEMMA HeldPairs ==
    ASSUME BaseInv
    PROVE  \A p \in Held : p \in Pairs /\ Settled(p)
BY DEF BaseInv, GrantInv, TypeOK, Held, Settled, Pairs

LEMMA PresentedPair ==
    ASSUME BaseInv, NEW r \in Requests, pc[r] # "idle"
    PROVE  tok[r] \in Pairs /\ Settled(tok[r]) /\ grant[r] = grant[tok[r]] /\ grant[r] \in Families
BY DEF BaseInv, GrantInv, Settled, Pairs

LEMMA TypeStep == BaseInv /\ [Next]_vars => TypeOK'
<1> SUFFICES ASSUME BaseInv, [Next]_vars PROVE TypeOK'
  OBVIOUS
<1> USE DEF clock, store, locals, revHist
<1>0. TypeOK
  BY DEF BaseInv
<1>1. CASE UNCHANGED vars
  BY <1>0, <1>1 DEF TypeOK, vars
<1>2. CASE Tick
  BY <1>0, <1>2 DEF TypeOK, Tick
<1>3. CASE Crash
  BY <1>0, <1>3, ResponseTypes DEF TypeOK, Crash, Locations, Running, Revoking
<1>4. ASSUME NEW r \in Requests, NEW p \in Pairs,
             \/ Arrive(r, p) \/ ArriveRevoke(r, p, refresh) \/ ArriveRevoke(r, p, access)
      PROVE TypeOK'
  <2>1. r \in Pairs /\ grant[p] \in Families \cup {None} /\ now \in Times
    BY <1>0 DEF TypeOK, Pairs
  <2>2. CASE Arrive(r, p)
    BY <1>0, <2>1, <2>2 DEF TypeOK, Arrive, Goto, Locations, Running, InFlight, StorePcs
  <2>3. CASE ArriveRevoke(r, p, refresh) \/ ArriveRevoke(r, p, access)
    BY <1>0, <2>1, <2>3 DEF TypeOK, ArriveRevoke, Goto, Locations, Revoking
  <2> QED
    BY <1>4, <2>2, <2>3
<1>5. ASSUME NEW r \in Requests, Step(r)
      PROVE TypeOK'
  <2> USE DEF Goto, Locations, Running, Revoking, InFlight, StorePcs, Rotating
  <2>0. r \in Pairs
    BY DEF Pairs
  <2>1. pc[r] # "idle"
    BY <1>5 DEF Step, Exchange, Replay, Revoke, Fetch, DeleteAccess, DeleteRefresh,
       CreateAccess, CreateRefresh, Commit, SignIDToken, ExchangeFails, Respond, FastPath, Join,
       Recheck, StoreReplay, EndFlight, Follow, EmitReplay, RevokeRefresh,
       RevokeAccess, RevokeFails
  <2>2. tok[r] \in Pairs /\ grant[r] \in Families
    BY <2>1, PresentedPair
  <2>3. t0[r] \in Times /\ rotationAt[r] \in Times /\ now \in Times /\ out[r] \in Response
    BY <1>0 DEF TypeOK
  <2>4. CASE FastPath(r)
    <3>1. AfterLookup(tok[r], t0[r]) \in Response
      BY <1>0, <2>2, <2>3, LookupType
    <3>2. cache' \in [Pairs -> Response]
      BY <1>0, <2>4, <3>1 DEF FastPath, TypeOK
    <3>3. cache'[tok[r]] \in Response /\ cache'[tok[r]].pair \in Pairs \cup {None}
      BY <3>2, <2>2 DEF Response
    <3> QED
      BY <1>0, <2>4, <3>2, <3>3 DEF FastPath, TypeOK
  <2>5. CASE Join(r)
    BY <1>0, <2>5 DEF Join, TypeOK
  <2>6. CASE Recheck(r)
    <3>1. AfterLookup(tok[r], now) \in Response
      BY <1>0, <2>2, <2>3, LookupType
    <3>2. cache' \in [Pairs -> Response]
      BY <1>0, <2>6, <3>1 DEF Recheck, TypeOK
    <3>3. cache'[tok[r]] \in Response
      BY <3>2, <2>2
    <3> QED
      BY <1>0, <2>3, <2>6, <3>2, <3>3 DEF Recheck, TypeOK
  <2>7. CASE StoreReplay(r)
    <3>1. [out[r] EXCEPT !.rotatedAt = rotationAt[r]] \in Response
      BY <2>3 DEF Response
    <3> QED
      BY <1>0, <2>7, <3>1 DEF StoreReplay, TypeOK
  <2>8. CASE EndFlight(r)
    <3>1. out[r].pair \in Pairs \cup {None}
      BY <2>3 DEF Response
    <3>2. out' \in [Requests -> Response] /\ resp' \in [Requests -> Pairs \cup {None}]
      BY <1>0, <2>8, <3>1 DEF EndFlight, TypeOK
    <3>3. pc' \in [Requests -> Locations]
      BY <1>0, <2>8 DEF EndFlight, TypeOK
    <3> QED
      BY <1>0, <2>8, <3>2, <3>3 DEF EndFlight, TypeOK
  <2>9. CASE Follow(r)
    <3>1. AfterLookup(tok[r], t0[r]) \in Response
      BY <1>0, <2>2, <2>3, LookupType
    <3>2. cache' \in [Pairs -> Response]
      BY <1>0, <2>9, <3>1 DEF Follow, TypeOK
    <3>3. cache'[tok[r]] \in Response /\ out[r].pair \in Pairs \cup {None}
      BY <3>2, <2>2, <2>3 DEF Response
    <3> QED
      BY <1>0, <2>9, <3>2, <3>3 DEF Follow, TypeOK
  <2>10. CASE EmitReplay(r)
    <3>1. out[r].pair \in Pairs \cup {None}
      BY <2>3 DEF Response
    <3>2. audit' \subseteq Event
      BY <1>0, <2>2, <2>3, <2>10 DEF EmitReplay, TypeOK, Event
    <3> QED
      BY <1>0, <2>10, <3>1, <3>2 DEF EmitReplay, TypeOK
  <2>11. CASE Fetch(r) \/ ExchangeFails(r)
    BY <1>0, <2>11 DEF Fetch, ExchangeFails, TypeOK
  <2>12. CASE DeleteAccess(r) \/ DeleteRefresh(r) \/ CreateAccess(r)
    BY <1>0, <2>0, <2>12 DEF DeleteAccess, DeleteRefresh, CreateAccess, TypeOK
  <2>13. CASE CreateRefresh(r) \/ Commit(r) \/ SignIDToken(r)
    BY <1>0, <2>0, <2>2, <2>13, ResponseTypes DEF CreateRefresh, Commit, Minted, SignIDToken, TypeOK
  <2>14. CASE Respond(r)
    <3>1. out[r].pair \in Pairs \cup {None}
      BY <2>3 DEF Response
    <3>2. audit' \subseteq Event
      BY <1>0, <2>2, <2>3, <2>14 DEF Respond, TypeOK, Event
    <3> QED
      BY <1>0, <2>14, <3>1, <3>2 DEF Respond, TypeOK
  <2>15. CASE Revoke(r)
    BY <1>0, <2>2, <2>15 DEF Revoke, RevokeRefresh, RevokeAccess, RevokeFails, TypeOK
  <2> QED
    BY <1>5, <2>4, <2>5, <2>6, <2>7, <2>8, <2>9, <2>10, <2>11, <2>12, <2>13,
       <2>14, <2>15 DEF Step, Exchange, Replay
<1> QED
  BY <1>1, <1>2, <1>3, <1>4, <1>5 DEF Next

-----------------------------------------------------------------------------
(* What every step keeps: the token and the grant of a request that has
   arrived, and that a pair is settled. *)

Kept ==
    /\ \A r \in Requests : pc[r] # "idle" =>
          pc'[r] # "idle" /\ tok'[r] = tok[r] /\ grant'[r] = grant[r]
    /\ \A f \in Families : grant'[f] = grant[f]
    /\ \A p \in Pairs : Settled(p) => Settled(p)' /\ grant'[p] = grant[p]

LEMMA KeptStep == BaseInv /\ [Next]_vars => Kept
<1> SUFFICES ASSUME BaseInv, [Next]_vars PROVE Kept
  OBVIOUS
<1> USE DEF clock, store, locals, revHist, Kept, Settled, PostMint
<1>0. TypeOK
  BY DEF BaseInv
<1>1. CASE UNCHANGED vars
  BY <1>1 DEF vars
<1>2. CASE Tick
  BY <1>2 DEF Tick
<1>3. CASE Crash
  BY <1>0, <1>3 DEF Crash, TypeOK
<1>4. ASSUME NEW r \in Requests, NEW p \in Pairs,
             \/ Arrive(r, p) \/ ArriveRevoke(r, p, refresh) \/ ArriveRevoke(r, p, access)
      PROVE Kept
  BY <1>0, <1>4 DEF Arrive, ArriveRevoke, Goto, TypeOK, Pairs
<1>5. ASSUME NEW r \in Requests, Step(r)
      PROVE Kept
  <2> USE DEF Goto, TypeOK
  <2>1. CASE Exchange(r)
    BY <1>0, <2>1 DEF Exchange, Fetch, DeleteAccess, DeleteRefresh, CreateAccess,
       CreateRefresh, Commit, Minted, SignIDToken, ExchangeFails, Respond, StorePcs, Rotating
  <2>2. CASE EndFlight(r)
    BY <1>0, <2>2 DEF EndFlight, Followers
  <2>3. CASE FastPath(r) \/ Join(r) \/ Recheck(r) \/ StoreReplay(r) \/ Follow(r) \/ EmitReplay(r)
    BY <1>0, <2>3 DEF FastPath, Join, Recheck, StoreReplay, Follow, EmitReplay
  <2>4. CASE Revoke(r)
    BY <1>0, <2>4 DEF Revoke, RevokeRefresh, RevokeAccess, RevokeFails, Revoking
  <2> QED
    BY <1>5, <2>1, <2>2, <2>3, <2>4 DEF Step, Replay
<1> QED
  BY <1>1, <1>2, <1>3, <1>4, <1>5 DEF Next

\* Where the values a step writes come from.
Sources ==
    /\ \A p \in refresh' : p \in refresh \/ (p \in Requests /\ pc'[p] = "signIDToken")
    /\ \A p \in access' : p \in access \/ (p \in Requests /\ pc[p] # "idle")
    /\ \A r \in Requests : resp'[r] \in {resp[r], out[r].pair, cache[tok[r]].pair}
                           /\ (resp'[r] # resp[r] => pc[r] # "idle")
    /\ \A r \in Requests :
          \/ out'[r].pair = out[r].pair
          \/ pc[r] = "signIDToken" /\ out'[r].pair = r
          \/ pc[r] # "idle" /\ out'[r].pair = cache[tok[r]].pair
          \/ pc[r] = "wait" /\ \E q \in Requests :
                pc[q] # "idle" /\ tok[q] = tok[r] /\ out'[r].pair = out[q].pair
    /\ \A p \in Pairs :
          \/ cache'[p].pair \in {None, cache[p].pair}
          \/ \E r \in Requests : pc[r] # "idle" /\ tok[r] = p /\ cache'[p].pair = out[r].pair

LEMMA SourcesStep == BaseInv /\ [Next]_vars => Sources
<1> SUFFICES ASSUME BaseInv, [Next]_vars PROVE Sources
  OBVIOUS
<1> USE DEF clock, store, locals, revHist
<1>0. TypeOK
  BY DEF BaseInv
<1>1. CASE UNCHANGED vars
  BY <1>1 DEF vars, Sources
<1>2. CASE Tick
  BY <1>2 DEF Tick, Sources
<1>3. CASE Crash
  BY <1>0, <1>3, ResponseTypes DEF Crash, TypeOK, Sources
<1>4. ASSUME NEW r \in Requests, NEW p \in Pairs,
             \/ Arrive(r, p) \/ ArriveRevoke(r, p, refresh) \/ ArriveRevoke(r, p, access)
      PROVE Sources
  BY <1>4 DEF Arrive, ArriveRevoke, Sources
<1>5. ASSUME NEW r \in Requests, Step(r)
      PROVE Sources
  <2> USE DEF Goto, TypeOK
  <2>1. pc[r] # "idle"
    BY <1>5 DEF Step, Exchange, Replay, Revoke, Fetch, DeleteAccess, DeleteRefresh,
       CreateAccess, CreateRefresh, Commit, SignIDToken, ExchangeFails, Respond, FastPath, Join,
       Recheck, StoreReplay, EndFlight, Follow, EmitReplay, RevokeRefresh,
       RevokeAccess, RevokeFails, StorePcs, Rotating, Revoking
  <2>2. tok[r] \in Pairs
    BY <2>1, PresentedPair
  <2>3. t0[r] \in Times /\ now \in Times
    BY <1>0
  <2>4. CASE Fetch(r) \/ DeleteAccess(r) \/ DeleteRefresh(r) \/ CreateAccess(r) \/ ExchangeFails(r)
    BY <1>0, <2>1, <2>4 DEF Fetch, DeleteAccess, DeleteRefresh, CreateAccess, ExchangeFails, Sources
  <2>5. CASE CreateRefresh(r) \/ Commit(r) \/ SignIDToken(r)
    BY <1>0, <2>1, <2>2, <2>5, ResponseTypes DEF CreateRefresh, Commit, Minted, SignIDToken, Sources
  <2>6. CASE Respond(r)
    BY <1>0, <2>1, <2>6 DEF Respond, Sources
  <2>7. CASE FastPath(r)
    BY <1>0, <2>1, <2>2, <2>3, <2>7, LookupType DEF FastPath, Sources
  <2>8. CASE Join(r)
    BY <2>8 DEF Join, Sources
  <2>9. CASE Recheck(r)
    BY <1>0, <2>1, <2>2, <2>3, <2>9, LookupType DEF Recheck, Sources
  <2>10. CASE StoreReplay(r)
    <3>1. [out[r] EXCEPT !.rotatedAt = rotationAt[r]].pair = out[r].pair
      BY <1>0 DEF Response
    <3> QED
      BY <1>0, <2>1, <2>2, <2>10, <3>1 DEF StoreReplay, Sources
  <2>11. CASE EndFlight(r)
    BY <1>0, <2>1, <2>2, <2>11 DEF EndFlight, Followers, Sources
  <2>12. CASE Follow(r)
    BY <1>0, <2>1, <2>2, <2>3, <2>12, LookupType DEF Follow, Sources
  <2>13. CASE EmitReplay(r)
    BY <1>0, <2>1, <2>13 DEF EmitReplay, Sources
  <2>14. CASE Revoke(r)
    BY <1>0, <2>14 DEF Revoke, RevokeRefresh, RevokeAccess, RevokeFails, Sources
  <2> QED
    BY <1>5, <2>4, <2>5, <2>6, <2>7, <2>8, <2>9, <2>10, <2>11, <2>12, <2>13,
       <2>14 DEF Step, Exchange, Replay
<1> QED
  BY <1>1, <1>2, <1>3, <1>4, <1>5 DEF Next

-----------------------------------------------------------------------------
(* The grant of every request and row *)

Arrivals ==
    \A r \in Requests : (pc[r] = "idle" /\ pc'[r] # "idle") =>
        \E p \in Held : tok'[r] = p /\ grant'[r] = grant[p]

LEMMA ArrivalsStep == BaseInv /\ [Next]_vars => Arrivals
<1> SUFFICES ASSUME BaseInv, [Next]_vars, NEW r \in Requests,
                    pc[r] = "idle", pc'[r] # "idle"
             PROVE  \E p \in Held : tok'[r] = p /\ grant'[r] = grant[p]
  BY DEF Arrivals
<1>0. TypeOK
  BY DEF BaseInv
<1>1. ASSUME NEW q \in Requests, Step(q)
      PROVE FALSE
  <2> USE DEF Goto, TypeOK, Step, Exchange, Replay, Revoke
  <2>1. CASE EndFlight(q)
    BY <1>0, <2>1 DEF EndFlight, Followers
  <2>2. CASE ~ EndFlight(q)
    BY <1>0, <1>1, <2>2 DEF Fetch, DeleteAccess, DeleteRefresh, CreateAccess,
       CreateRefresh, Commit, Minted, SignIDToken, ExchangeFails, Respond, FastPath, Join, Recheck,
       StoreReplay, Follow, EmitReplay, RevokeRefresh, RevokeAccess, RevokeFails,
       StorePcs, Rotating, Revoking
  <2> QED
    BY <2>1, <2>2
<1>2. CASE UNCHANGED vars \/ Tick \/ Crash
  BY <1>0, <1>2 DEF vars, Tick, Crash, TypeOK, Running, Revoking, InFlight, StorePcs, Rotating
<1>3. ASSUME NEW q \in Requests, NEW p \in Pairs,
             \/ Arrive(q, p) \/ ArriveRevoke(q, p, refresh) \/ ArriveRevoke(q, p, access)
      PROVE p \in Held /\ tok'[r] = p /\ grant'[r] = grant[p]
  BY <1>0, <1>3 DEF Arrive, ArriveRevoke, Goto, TypeOK, Pairs
<1> QED
  BY <1>1, <1>2, <1>3 DEF Next

LEMMA GrantStep == BaseInv /\ [Next]_vars => BaseInv'
<1> SUFFICES ASSUME BaseInv, [Next]_vars PROVE BaseInv'
  OBVIOUS
<1>1. TypeOK'
  BY TypeStep
<1>2. Kept /\ Sources /\ Arrivals
  BY KeptStep, SourcesStep, ArrivalsStep
<1>3. \A f \in Families : grant'[f] = f
  BY <1>2 DEF BaseInv, GrantInv, Kept
<1>4. \A p \in Pairs : Settled(p) => grant[p] \in Families
  BY DEF BaseInv, GrantInv, Settled, PostMint
<1>5. ASSUME NEW r \in Requests, pc'[r] # "idle"
      PROVE  Settled(tok[r])' /\ grant'[r] = grant'[tok'[r]] /\ grant'[r] \in Families
  <2>1. CASE pc[r] # "idle"
    BY <1>2, <2>1, PresentedPair DEF Kept, Settled
  <2>2. CASE pc[r] = "idle"
    <3>1. PICK p \in Held : tok'[r] = p /\ grant'[r] = grant[p]
      BY <1>2, <1>5, <2>2 DEF Arrivals
    <3> QED
      BY <1>2, <1>4, <3>1, HeldPairs DEF Kept, Settled
  <2> QED
    BY <2>1, <2>2
<1>6. \A p \in refresh' : Settled(p)'
  <2>1. \A p \in refresh : p \in Pairs /\ Settled(p)
    BY DEF BaseInv, TypeOK, GrantInv
  <2> QED
    BY <1>2, <2>1 DEF Kept, Sources, Settled, PostMint
<1>7. \A p \in access' : p \in Requests => pc'[p] # "idle"
  <2>1. \A p \in access' : p \in Requests => pc[p] # "idle"
    BY <1>2 DEF BaseInv, GrantInv, Sources
  <2> QED
    BY <1>2, <2>1 DEF Kept
<1>8. \A r \in Requests : out[r].pair # None => out[r].pair \in Pairs /\ Settled(out[r].pair)
  BY DEF BaseInv, TypeOK, GrantInv, Response
<1>9. \A p \in Pairs : cache[p].pair # None => cache[p].pair \in Pairs /\ Settled(cache[p].pair)
  BY DEF BaseInv, TypeOK, GrantInv, Response
<1>10. \A r \in Requests : resp'[r] # None => Settled(resp[r])'
  <2> SUFFICES ASSUME NEW r \in Requests, resp'[r] # None PROVE Settled(resp[r])'
    OBVIOUS
  <2>1. CASE resp'[r] = resp[r]
    BY <1>2, <2>1 DEF BaseInv, TypeOK, GrantInv, Kept, Settled
  <2>2. CASE resp'[r] # resp[r]
    <3>1. tok[r] \in Pairs
      BY <1>2, <2>2, PresentedPair DEF Sources
    <3>2. resp'[r] \in Pairs /\ Settled(resp'[r])
      BY <1>2, <1>8, <1>9, <2>2, <3>1 DEF Sources
    <3> QED
      BY <1>2, <3>2 DEF Kept, Settled
  <2> QED
    BY <2>1, <2>2
<1>11. \A r \in Requests : out'[r].pair # None => Settled(out[r].pair)'
  <2> SUFFICES ASSUME NEW r \in Requests, out'[r].pair # None PROVE Settled(out[r].pair)'
    OBVIOUS
  <2>1. CASE out'[r].pair = out[r].pair
    BY <1>2, <1>8, <2>1 DEF Kept, Settled
  <2>2. CASE pc[r] = "signIDToken" /\ out'[r].pair = r
    BY <1>2, <2>2 DEF Kept, Settled, PostMint, Pairs
  <2>3. CASE pc[r] # "idle" /\ out'[r].pair = cache[tok[r]].pair
    BY <1>2, <1>9, <2>3, PresentedPair DEF Kept, Settled
  <2>4. ASSUME NEW q \in Requests, out'[r].pair = out[q].pair PROVE Settled(out[r].pair)'
    BY <1>2, <1>8, <2>4 DEF Kept, Settled
  <2> QED
    BY <1>2, <2>1, <2>2, <2>3, <2>4 DEF Sources
<1>12. \A p \in Pairs : cache'[p].pair # None => Settled(cache[p].pair)'
  <2> SUFFICES ASSUME NEW p \in Pairs, cache'[p].pair # None PROVE Settled(cache[p].pair)'
    OBVIOUS
  <2>1. CASE cache'[p].pair = cache[p].pair
    BY <1>2, <1>9, <2>1 DEF Kept, Settled
  <2>2. ASSUME NEW q \in Requests, cache'[p].pair = out[q].pair PROVE Settled(cache[p].pair)'
    BY <1>2, <1>8, <2>2 DEF Kept, Settled
  <2> QED
    BY <1>2, <2>1, <2>2 DEF Sources
<1> QED
  BY <1>1, <1>3, <1>5, <1>6, <1>7, <1>10, <1>11, <1>12 DEF BaseInv, GrantInv

LEMMA BaseInit == Init => BaseInv
BY ResponseTypes DEF Init, BaseInv, TypeOK, GrantInv, Settled, Locations, Pairs

\* The token endpoint, the replay cache and the store keep the shape of their
\* state in every behaviour.
THEOREM TypeCorrect == Spec => []TypeOK
<1>1. BaseInv => TypeOK
  BY DEF BaseInv
<1> QED
  BY <1>1, BaseInit, GrantStep, PTL DEF Spec

-----------------------------------------------------------------------------
(* Revocation *)

\* How rows appear and rotations start: a rotation starts from a live refresh
\* row, and only a rotation adds rows, to its own grant.
RotationMoves ==
    /\ \A r \in Requests : pc'[r] \in Rotating =>
          \/ pc[r] \in Rotating
          \/ pc[r] = "fetch" /\ pc'[r] = "deleteAccess" /\ tok[r] \in refresh
             /\ refresh' = refresh
    /\ \A p \in (access' \ access) \cup (refresh' \ refresh) :
          p \in Requests /\ pc[p] \in Rotating

LEMMA RotationMovesStep == BaseInv /\ [Next]_vars => RotationMoves
<1> SUFFICES ASSUME BaseInv, [Next]_vars PROVE RotationMoves
  OBVIOUS
<1> USE DEF clock, store, locals, revHist
<1>0. TypeOK
  BY DEF BaseInv
<1>1. CASE UNCHANGED vars \/ Tick \/ Crash
  BY <1>0, <1>1 DEF vars, Tick, Crash, RotationMoves, TypeOK, Rotating
<1>2. ASSUME NEW r \in Requests, NEW p \in Pairs,
             \/ Arrive(r, p) \/ ArriveRevoke(r, p, refresh) \/ ArriveRevoke(r, p, access)
      PROVE RotationMoves
  BY <1>0, <1>2 DEF Arrive, ArriveRevoke, Goto, RotationMoves, TypeOK, Rotating
<1>3. ASSUME NEW r \in Requests, Step(r)
      PROVE RotationMoves
  <2> USE DEF Goto, TypeOK, RotationMoves, Rotating
  <2>1. CASE EndFlight(r)
    BY <1>0, <2>1 DEF EndFlight, Followers
  <2>2. CASE Fetch(r) \/ SignIDToken(r) \/ ExchangeFails(r) \/ Respond(r)
    BY <1>0, <2>2 DEF Fetch, SignIDToken, ExchangeFails, Respond
  <2>3. CASE DeleteAccess(r) \/ DeleteRefresh(r) \/ CreateAccess(r)
    BY <1>0, <2>3 DEF DeleteAccess, DeleteRefresh, CreateAccess
  <2>4. CASE CreateRefresh(r) \/ Commit(r)
    BY <1>0, <2>4 DEF CreateRefresh, Commit, Minted
  <2>5. CASE FastPath(r) \/ Join(r) \/ Recheck(r) \/ StoreReplay(r) \/ Follow(r) \/ EmitReplay(r)
    BY <1>0, <2>5 DEF FastPath, Join, Recheck, StoreReplay, Follow, EmitReplay
  <2>6. CASE Revoke(r)
    BY <1>0, <2>6 DEF Revoke, RevokeRefresh, RevokeAccess, RevokeFails
  <2> QED
    BY <1>3, <2>1, <2>2, <2>3, <2>4, <2>5, <2>6 DEF Step, Exchange, Replay
<1> QED
  BY <1>1, <1>2, <1>3 DEF Next

\* A grant with no refresh row and no rotation stays so, and gains no row.
Dormant(f) == NoRotation(f) /\ NoRefresh(f)

LEMMA DormantStep ==
    ASSUME BaseInv, [Next]_vars, NEW f \in Families, Dormant(f)
    PROVE  Dormant(f)' /\ (NoAccess(f) => NoAccess(f)')
<1>1. Kept /\ Arrivals /\ RotationMoves /\ BaseInv'
  BY KeptStep, ArrivalsStep, RotationMovesStep, GrantStep
<1>2. ASSUME NEW q \in Requests, pc'[q] \in Rotating, grant'[q] = f
      PROVE  FALSE
  <2>1. pc[q] # "idle"
    BY <1>1, <1>2 DEF RotationMoves, Rotating
  <2>2. grant[q] = f /\ grant[tok[q]] = f
    BY <1>1, <1>2, <2>1, PresentedPair DEF Kept
  <2> QED
    BY <1>1, <1>2, <2>2 DEF RotationMoves, Dormant, NoRotation, NoRefresh
<1>3. \A p \in access \cup refresh : grant'[p] = grant[p]
  <2>1. \A p \in access \cup refresh : p \in Families \/ (p \in Requests /\ pc[p] # "idle")
    BY DEF BaseInv, GrantInv, TypeOK, Settled, PostMint, Pairs
  <2> QED
    BY <1>1, <2>1 DEF Kept
<1>4. \A p \in (access' \ access) \cup (refresh' \ refresh) : grant'[p] # f
  <2>1. \A p \in (access' \ access) \cup (refresh' \ refresh) :
            p \in Requests /\ pc[p] \in Rotating /\ grant[p] # f
    BY <1>1 DEF RotationMoves, Dormant, NoRotation
  <2> QED
    BY <1>1, <2>1 DEF Kept, Rotating
<1>5. (\A p \in refresh' : grant'[p] # f) /\ (NoAccess(f) => NoAccess(f)')
  BY <1>3, <1>4 DEF Dormant, NoRefresh, NoAccess
<1> QED
  BY <1>2, <1>5 DEF Dormant, NoRotation, NoRefresh

LEMMA RevocationStep == BaseInv /\ RevocationInv /\ [Next]_vars => RevocationInv'
<1> SUFFICES ASSUME BaseInv, RevocationInv, [Next]_vars PROVE RevocationInv'
  OBVIOUS
<1> USE DEF clock, store, locals, revHist
<1>0. TypeOK /\ TypeOK' /\ Kept
  BY GrantStep, KeptStep DEF BaseInv
<1>1. \A r \in clean : r \in Requests /\ pc[r] # "idle" /\ grant[r] \in Families /\ grant'[r] = grant[r]
  BY <1>0, PresentedPair DEF TypeOK, RevocationInv, Kept
<1>2. \A f \in revoked : Dormant(f)' /\ NoAccess(f)'
  BY <1>0, DormantStep DEF RevocationInv, Dormant, TypeOK
<1>3. \A r \in clean : pc[r] = "revokeAccess" => Dormant(grant[r])'
  <2> SUFFICES ASSUME NEW r \in clean, pc[r] = "revokeAccess" PROVE Dormant(grant[r])'
    OBVIOUS
  <2>1. Dormant(grant[r]) /\ grant[r] \in Families
    BY <1>1 DEF RevocationInv, Dormant
  <2> DEFINE f == grant[r]
  <2>2. Dormant(f) /\ f \in Families
    BY <2>1
  <2>3. f' = f
    BY <1>1
  <2> HIDE DEF f
  <2>4. (\A q \in Requests : grant'[q] = f => pc'[q] \notin Rotating) /\ (\A p \in refresh' : grant'[p] # f)
    BY <2>2, DormantStep DEF Dormant, NoRotation, NoRefresh
  <2> QED
    BY <2>3, <2>4 DEF Dormant, NoRotation, NoRefresh, f
<1>4. CASE /\ UNCHANGED <<clean, revoked>>
           /\ \A r \in clean : pc'[r] = pc[r] \/ pc'[r] \in {"done", "dead"}
  BY <1>2, <1>3, <1>4 DEF RevocationInv, Dormant
<1>5. ASSUME NEW r \in Requests, RevokeRefresh(r)
      PROVE RevocationInv'
  <2>1. pc[r] = "revokeRefresh" /\ pc' = [pc EXCEPT ![r] = "revokeAccess"] /\ UNCHANGED <<grant, revoked>>
    BY <1>5 DEF RevokeRefresh, Goto
  <2>2. ASSUME r \in clean' PROVE NoRotation(grant[r])' /\ NoRefresh(grant[r])'
    <3>1. r \notin clean
      BY <2>1 DEF RevocationInv
    <3>2. ~ RotationInProgress(grant[r])
      BY <1>5, <2>2, <3>1 DEF RevokeRefresh
    <3> QED
      BY <1>0, <1>5, <2>1, <3>2 DEF RevokeRefresh, RotationInProgress, RowsOf, NoRotation,
         NoRefresh, TypeOK, Rotating
  <2>3. clean' \subseteq clean \cup {r} /\ \A q \in clean : pc'[q] = pc[q]
    BY <1>0, <1>5, <2>1 DEF RevokeRefresh, RevocationInv, TypeOK
  <2>4. pc'[r] = "revokeAccess"
    BY <1>0, <2>1 DEF TypeOK
  <2> QED
    BY <1>2, <1>3, <2>1, <2>2, <2>3, <2>4 DEF RevocationInv, Dormant
<1>6. ASSUME NEW r \in Requests, RevokeAccess(r)
      PROVE RevocationInv'
  <2>1. pc[r] = "revokeAccess" /\ pc' = [pc EXCEPT ![r] = "done"] /\ UNCHANGED <<grant, clean>>
    BY <1>6 DEF RevokeAccess, Goto
  <2>2. \A q \in clean : pc'[q] = pc[q] \/ pc'[q] = "done"
    BY <1>0, <2>1 DEF TypeOK
  <2>3. ASSUME r \in clean PROVE Dormant(grant[r])' /\ NoAccess(grant[r])'
    BY <1>3, <1>6, <2>1, <2>3 DEF RevokeAccess, RowsOf, NoAccess
  <2>4. revoked' \subseteq revoked \cup (IF r \in clean THEN {grant[r]} ELSE {})
    BY <1>6 DEF RevokeAccess
  <2> QED
    BY <1>2, <1>3, <2>1, <2>2, <2>3, <2>4 DEF RevocationInv, Dormant
<1>7. CASE UNCHANGED vars \/ Tick \/ Crash
  BY <1>0, <1>4, <1>7 DEF vars, Tick, Crash, TypeOK, RevocationInv
<1>8. ASSUME NEW r \in Requests, NEW p \in Pairs,
             \/ Arrive(r, p) \/ ArriveRevoke(r, p, refresh) \/ ArriveRevoke(r, p, access)
      PROVE RevocationInv'
  BY <1>0, <1>1, <1>4, <1>8 DEF Arrive, ArriveRevoke, Goto, TypeOK
<1>9. ASSUME NEW r \in Requests, Exchange(r) \/ Replay(r) \/ RevokeFails(r)
      PROVE RevocationInv'
  <2>1. UNCHANGED <<clean, revoked>>
    BY <1>9 DEF Exchange, Replay, Fetch, DeleteAccess, DeleteRefresh, CreateAccess,
       CreateRefresh, Commit, SignIDToken, ExchangeFails, Respond, FastPath, Join, Recheck,
       StoreReplay, EndFlight, Follow, EmitReplay, RevokeFails
  <2>2. CASE EndFlight(r)
    BY <1>0, <1>4, <2>1, <2>2 DEF EndFlight, Followers, RevocationInv, TypeOK
  <2>3. CASE RevokeFails(r)
    BY <1>0, <1>4, <2>1, <2>3 DEF RevokeFails, Goto, RevocationInv, TypeOK, Revoking
  <2>4. CASE ~ EndFlight(r) /\ (Exchange(r) \/ Replay(r))
    <3>1. pc[r] \notin {"revokeAccess", "done", "dead"} /\ \A q \in Requests \ {r} : pc'[q] = pc[q]
      BY <1>0, <2>4 DEF Exchange, Replay, Fetch, DeleteAccess, DeleteRefresh, CreateAccess,
         CreateRefresh, Commit, Minted, SignIDToken, ExchangeFails, Respond, FastPath, Join, Recheck,
         StoreReplay, Follow, EmitReplay, Goto, TypeOK, StorePcs, Rotating
    <3>2. r \notin clean
      BY <3>1 DEF RevocationInv
    <3> QED
      BY <1>1, <1>4, <2>1, <3>1, <3>2
  <2> QED
    BY <1>9, <2>2, <2>3, <2>4
<1> QED
  BY <1>5, <1>6, <1>7, <1>8, <1>9 DEF Next, Step, Revoke

\* A revocation that met no rotation in progress is final, with or without a
\* replay window, whatever fails or restarts.
THEOREM RevocationIsFinal == Spec => []RevocationSticks
<1>1. Init => BaseInv /\ RevocationInv
  BY BaseInit DEF Init, RevocationInv
<1>2. RevocationInv => RevocationSticks
  BY DEF RevocationInv, RevocationSticks, NoRefresh, NoAccess
<1>3. BaseInv /\ RevocationInv /\ [Next]_vars => (BaseInv /\ RevocationInv)'
  BY GrantStep, RevocationStep
<1> QED
  BY <1>1, <1>2, <1>3, PTL DEF Spec

-----------------------------------------------------------------------------
(* One rotation at a time: with a replay window, singleflight serialises the
   exchanges of a token, and a grant has one token that can be exchanged. *)

LEMMA FlightStep ==
    ASSUME Window > 0, BaseInv, FlightInv, [Next]_vars
    PROVE  FlightInv'
<1> USE DEF clock, store, locals, revHist
<1>0. TypeOK
  BY DEF BaseInv
<1>1. CASE UNCHANGED vars \/ Tick \/ Crash
  BY <1>0, <1>1 DEF vars, Tick, Crash, FlightInv, TypeOK, Running, InFlight, StorePcs, Rotating
<1>2. ASSUME NEW r \in Requests, NEW p \in Pairs,
             \/ Arrive(r, p) \/ ArriveRevoke(r, p, refresh) \/ ArriveRevoke(r, p, access)
      PROVE FlightInv'
  BY <1>0, <1>2 DEF Arrive, ArriveRevoke, Goto, FlightInv, TypeOK, InFlight, StorePcs, Rotating
<1>3. ASSUME NEW r \in Requests, Step(r)
      PROVE FlightInv'
  <2> USE DEF Goto, TypeOK, FlightInv, InFlight, StorePcs, Rotating
  <2>1. CASE EndFlight(r)
    <3>1. \A q \in Requests : pc'[q] \in InFlight => pc[q] \in InFlight /\ q # r
      BY <1>0, <2>1 DEF EndFlight, Followers
    <3>2. \A q \in Requests : pc[q] \in InFlight /\ q # r => tok[q] # tok[r]
      BY <2>1 DEF EndFlight
    <3> QED
      BY <1>0, <2>1, <3>1, <3>2 DEF EndFlight
  <2>2. CASE Join(r)
    <3>1. tok[r] \in Pairs /\ pc[r] = "join" /\ \A q \in Requests : q # None
      BY <2>2, PresentedPair DEF Join, Pairs
    <3>2. CASE flight[tok[r]] = None
      <4>1. flight' = [flight EXCEPT ![tok[r]] = r] /\ pc' = [pc EXCEPT ![r] = "recheck"] /\ tok' = tok
        BY <2>2, <3>2 DEF Join
      <4>2. \A q \in Requests : pc[q] \in InFlight => tok[q] # tok[r]
        BY <3>1, <3>2
      <4> QED
        BY <1>0, <3>1, <4>1, <4>2
    <3>3. CASE flight[tok[r]] # None
      BY <1>0, <2>2, <3>1, <3>3 DEF Join
    <3> QED
      BY <3>2, <3>3
  <2>3. CASE Exchange(r)
    BY <1>0, <2>3 DEF Exchange, Fetch, DeleteAccess, DeleteRefresh, CreateAccess,
       CreateRefresh, Commit, Minted, SignIDToken, ExchangeFails, Respond
  <2>4. CASE FastPath(r) \/ Recheck(r) \/ StoreReplay(r) \/ Follow(r) \/ EmitReplay(r)
    BY <1>0, <2>4 DEF FastPath, Recheck, StoreReplay, Follow, EmitReplay
  <2>5. CASE Revoke(r)
    BY <1>0, <2>5 DEF Revoke, RevokeRefresh, RevokeAccess, RevokeFails, Revoking
  <2> QED
    BY <1>3, <2>1, <2>2, <2>3, <2>4, <2>5 DEF Step, Replay
<1> QED
  BY <1>1, <1>2, <1>3 DEF Next

\* The refresh rows and successors a step leaves.
RefreshMoves ==
    \/ refresh' \subseteq refresh /\ succ' = succ
    \/ \E r \in Requests :
          /\ \/ pc[r] = "createRefresh" /\ ~ Transactional /\ refresh' = refresh \cup {r}
             \/ pc[r] = "commit" /\ refresh' = (refresh \ RowsOf(grant[r], refresh)) \cup {r}
          /\ pc' = [pc EXCEPT ![r] = "signIDToken"]
          /\ grant' = grant /\ tok' = tok
          /\ succ' = [succ EXCEPT ![tok[r]] = r]

\* A rotation past its second delete has emptied the grant.
DeleteMoves ==
    \A r \in Requests :
        (pc'[r] \in Rotating \ {"deleteAccess", "deleteRefresh"}) =>
            \/ pc[r] \in Rotating \ {"deleteAccess", "deleteRefresh"}
            \/ /\ pc[r] = "deleteRefresh"
               /\ Transactional \/ refresh' = refresh \ RowsOf(grant[r], refresh)

\* An ID token is signed for a request that has just become a successor.
SignMoves ==
    \A r \in Requests : pc'[r] = "signIDToken" =>
        \/ pc[r] = "signIDToken"
        \/ pc[r] \in Rotating /\ succ' = [succ EXCEPT ![tok[r]] = r]

TableMoves == RefreshMoves /\ DeleteMoves /\ SignMoves

LEMMA RefreshMovesStep == BaseInv /\ [Next]_vars => TableMoves
<1> SUFFICES ASSUME BaseInv, [Next]_vars PROVE TableMoves
  OBVIOUS
<1> USE DEF clock, store, locals, revHist
<1>0. TypeOK
  BY DEF BaseInv
<1>1. CASE UNCHANGED vars \/ Tick \/ Crash
  BY <1>0, <1>1 DEF vars, Tick, Crash, TableMoves, RefreshMoves, DeleteMoves, SignMoves, TypeOK, Rotating
<1>2. ASSUME NEW r \in Requests, NEW p \in Pairs,
             \/ Arrive(r, p) \/ ArriveRevoke(r, p, refresh) \/ ArriveRevoke(r, p, access)
      PROVE TableMoves
  BY <1>0, <1>2 DEF Arrive, ArriveRevoke, Goto, TableMoves, RefreshMoves, DeleteMoves, SignMoves, TypeOK, Rotating
<1>3. ASSUME NEW r \in Requests, Step(r)
      PROVE TableMoves
  <2> USE DEF Goto, TypeOK, Rotating
  <2>1. CASE EndFlight(r)
    BY <1>0, <2>1 DEF EndFlight, Followers, TableMoves, RefreshMoves, DeleteMoves, SignMoves
  <2>2. CASE \/ Fetch(r) \/ SignIDToken(r) \/ ExchangeFails(r) \/ Respond(r)
             \/ DeleteAccess(r) \/ DeleteRefresh(r) \/ CreateAccess(r)
    BY <1>0, <2>2 DEF Fetch, SignIDToken, ExchangeFails, Respond, DeleteAccess,
       DeleteRefresh, CreateAccess, TableMoves, RefreshMoves, DeleteMoves, SignMoves
  <2>3. CASE CreateRefresh(r)
    BY <1>0, <2>3 DEF CreateRefresh, Minted, TableMoves, RefreshMoves, DeleteMoves, SignMoves
  <2>4. CASE Commit(r)
    BY <1>0, <2>4 DEF Commit, Minted, TableMoves, RefreshMoves, DeleteMoves, SignMoves
  <2>5. CASE FastPath(r) \/ Join(r) \/ Recheck(r) \/ StoreReplay(r) \/ Follow(r) \/ EmitReplay(r)
    BY <1>0, <2>5 DEF FastPath, Join, Recheck, StoreReplay, Follow, EmitReplay, TableMoves, RefreshMoves, DeleteMoves, SignMoves
  <2>6. CASE Revoke(r)
    BY <1>0, <2>6 DEF Revoke, RevokeRefresh, RevokeAccess, RevokeFails, TableMoves, RefreshMoves, DeleteMoves, SignMoves
  <2> QED
    BY <1>3, <2>1, <2>2, <2>3, <2>4, <2>5, <2>6 DEF Step, Exchange, Replay
<1> QED
  BY <1>1, <1>2, <1>3 DEF Next

LEMMA RotationStep ==
    ASSUME BaseInv, FlightInv, RotationInv, [Next]_vars
    PROVE  RotationInv'
<1>1. Kept /\ RotationMoves /\ RefreshMoves /\ DeleteMoves
  BY KeptStep, RotationMovesStep, RefreshMovesStep DEF TableMoves
<1>2. \A p \in refresh : p \in Pairs /\ Settled(p) /\ grant'[p] = grant[p]
  BY <1>1 DEF BaseInv, GrantInv, TypeOK, Kept
<1>3. ASSUME NEW r \in Requests, pc'[r] \in Rotating
      PROVE  /\ pc[r] # "idle" /\ tok'[r] = tok[r] /\ grant'[r] = grant[r]
             /\ grant[tok[r]] = grant[r] /\ flight[tok[r]] = r
  <2>1. pc[r] \in Rotating \cup {"fetch"}
    BY <1>1, <1>3 DEF RotationMoves
  <2> QED
    BY <1>1, <2>1, PresentedPair DEF Kept, FlightInv, InFlight, StorePcs, Rotating
<1>4. ASSUME NEW p \in refresh', p \notin refresh
      PROVE  /\ p \in Requests /\ pc[p] \in Rotating /\ pc'[p] = "signIDToken"
             /\ grant'[p] = grant[p]
             /\ \A q \in refresh' : grant'[q] = grant'[p] => q = p
  <2>1. PICK r \in Requests :
          /\ \/ pc[r] = "createRefresh" /\ ~ Transactional /\ refresh' = refresh \cup {r}
             \/ pc[r] = "commit" /\ refresh' = (refresh \ RowsOf(grant[r], refresh)) \cup {r}
          /\ pc' = [pc EXCEPT ![r] = "signIDToken"]
          /\ grant' = grant
    BY <1>1, <1>4 DEF RefreshMoves
  <2>2. p = r
    BY <1>4, <2>1
  <2>3. pc'[r] = "signIDToken"
    BY <2>1 DEF BaseInv, TypeOK
  <2>4. pc[r] = "createRefresh" /\ ~ Transactional => \A q \in refresh : grant[q] # grant[r]
    BY DEF RotationInv, Rotating
  <2> QED
    BY <2>1, <2>2, <2>3, <2>4 DEF Rotating, RowsOf
<1>5. \A p, q \in refresh' : grant'[p] = grant'[q] => p = q
  BY <1>2, <1>4 DEF RotationInv
<1>6. ASSUME NEW q \in Requests, NEW r \in Requests, pc'[q] \in Rotating,
             pc'[r] \in Rotating, grant'[q] = grant'[r]
      PROVE  q = r
  <2>1. grant[q] = grant[r]
    BY <1>3, <1>6
  <2>2. CASE pc[q] \in Rotating /\ pc[r] \in Rotating
    BY <2>1, <2>2 DEF RotationInv
  <2>3. CASE pc[q] \in Rotating /\ pc[r] \notin Rotating
    BY <1>1, <1>3, <1>6, <2>1, <2>3 DEF RotationMoves, RotationInv
  <2>4. CASE pc[q] \notin Rotating /\ pc[r] \in Rotating
    BY <1>1, <1>3, <1>6, <2>1, <2>4 DEF RotationMoves, RotationInv
  <2>5. CASE pc[q] \notin Rotating /\ pc[r] \notin Rotating
    BY <1>1, <1>3, <1>6, <2>1, <2>5 DEF RotationMoves, RotationInv
  <2> QED
    BY <2>2, <2>3, <2>4, <2>5
<1>7. ASSUME NEW r \in Requests, pc'[r] \in Rotating, NEW p \in refresh',
             grant'[p] = grant'[r]
      PROVE  p = tok'[r] /\ (Transactional \/ pc'[r] \in {"deleteAccess", "deleteRefresh"})
  <2>1. CASE pc[r] \notin Rotating
    BY <1>1, <1>2, <1>3, <1>7, <2>1 DEF RotationMoves, RotationInv
  <2>2. CASE pc[r] \in Rotating
    <3>1. p \in refresh
      BY <1>3, <1>4, <1>7, <2>2 DEF RotationInv, Rotating
    <3>2. grant[p] = grant[r]
      BY <1>2, <1>3, <1>7, <3>1
    <3>3. p = tok[r] /\ (Transactional \/ pc[r] \in {"deleteAccess", "deleteRefresh"})
      BY <2>2, <3>1, <3>2 DEF RotationInv
    <3> QED
      BY <1>1, <1>3, <1>7, <3>2, <3>3 DEF DeleteMoves, RowsOf
  <2> QED
    BY <2>1, <2>2
<1> QED
  BY <1>5, <1>6, <1>7 DEF RotationInv

LEMMA SuccessorStep ==
    ASSUME SingleInv, [Next]_vars
    PROVE  SuccessorInv'
<1>0. BaseInv /\ FlightInv /\ RotationInv /\ SuccessorInv
  BY DEF SingleInv
<1>1. Kept /\ Sources /\ RotationMoves /\ RefreshMoves /\ SignMoves
  BY <1>0, KeptStep, SourcesStep, RotationMovesStep, RefreshMovesStep DEF TableMoves
<1>2. TypeOK
  BY <1>0 DEF BaseInv
<1>3. ASSUME NEW r \in Requests,
             \/ pc[r] = "createRefresh" /\ ~ Transactional /\ refresh' = refresh \cup {r}
             \/ pc[r] = "commit" /\ refresh' = (refresh \ RowsOf(grant[r], refresh)) \cup {r},
             pc' = [pc EXCEPT ![r] = "signIDToken"], succ' = [succ EXCEPT ![tok[r]] = r]
      PROVE  /\ \A p \in Pairs : succ'[p] # None =>
                    p \notin refresh' /\ Settled(p)' /\ Settled(succ[p])'
             /\ \A p \in Pairs : succ[p] # None => succ'[p] = succ[p]
             /\ \A q \in Requests : pc'[q] \in Rotating => succ'[tok'[q]] = None
  <2>1. pc[r] \in Rotating /\ pc[r] \notin PostMint /\ pc'[r] = "signIDToken" /\ Settled(r)'
    BY <1>2, <1>3 DEF Rotating, PostMint, TypeOK, Settled
  <2>2. tok[r] \in Pairs /\ Settled(tok[r]) /\ grant[tok[r]] = grant[r]
    BY <1>0, <2>1, PresentedPair DEF Rotating
  <2>3. succ[tok[r]] = None
    BY <1>0, <2>1 DEF SuccessorInv
  <2>4. ~ Settled(r)
    BY <2>1 DEF Settled
  <2>5. tok[r] \notin refresh'
    BY <1>0, <1>3, <2>1, <2>2, <2>4 DEF RotationInv, RowsOf
  <2>6. \A p \in Pairs \ {tok[r]} : succ'[p] = succ[p]
    BY <1>2, <1>3 DEF TypeOK
  <2>7. succ'[tok[r]] = r
    BY <1>2, <1>3, <2>2 DEF TypeOK
  <2>8. ASSUME NEW p \in Pairs, succ[p] # None
        PROVE  p \notin refresh' /\ Settled(p)' /\ Settled(succ[p])' /\ succ'[p] = succ[p]
    <3>1. p # r /\ p # tok[r] /\ p \notin refresh /\ Settled(p) /\ Settled(succ[p]) /\ succ[p] \in Pairs
      BY <1>0, <1>2, <2>3, <2>4, <2>8 DEF SuccessorInv, TypeOK, Pairs
    <3>2. succ'[p] = succ[p]
      BY <2>6, <3>1
    <3> QED
      BY <1>1, <1>3, <3>1, <3>2 DEF Kept, Settled
  <2>9. ASSUME NEW q \in Requests, pc'[q] \in Rotating
        PROVE  succ'[tok'[q]] = None
    <3>1. q # r /\ pc[q] \in Rotating
      BY <1>2, <1>3, <2>1, <2>9 DEF Rotating, TypeOK
    <3>2. tok'[q] = tok[q] /\ tok[q] \in Pairs
      BY <1>0, <1>1, <3>1, PresentedPair DEF Kept, Rotating
    <3>3. tok[q] # tok[r]
      BY <1>0, <2>1, <3>1 DEF FlightInv, InFlight, StorePcs
    <3> QED
      BY <1>0, <2>6, <3>1, <3>2, <3>3 DEF SuccessorInv
  <2> QED
    BY <1>1, <2>1, <2>2, <2>5, <2>6, <2>7, <2>8, <2>9 DEF Kept, Settled
<1>4. ASSUME refresh' \subseteq refresh, succ' = succ
      PROVE  /\ \A p \in Pairs : succ'[p] # None =>
                    p \notin refresh' /\ Settled(p)' /\ Settled(succ[p])'
             /\ \A p \in Pairs : succ[p] # None => succ'[p] = succ[p]
             /\ \A q \in Requests : pc'[q] \in Rotating => succ'[tok'[q]] = None
  <2>1. ASSUME NEW p \in Pairs, succ[p] # None
        PROVE  p \notin refresh' /\ Settled(p)' /\ Settled(succ[p])'
    <3>1. p \notin refresh /\ Settled(p) /\ Settled(succ[p]) /\ succ[p] \in Pairs
      BY <1>0, <1>2, <2>1 DEF SuccessorInv, TypeOK, Pairs
    <3> QED
      BY <1>1, <1>4, <3>1 DEF Kept, Settled
  <2>2. ASSUME NEW q \in Requests, pc'[q] \in Rotating
        PROVE  succ'[tok'[q]] = None
    <3>1. pc[q] \in Rotating \/ (pc[q] = "fetch" /\ tok[q] \in refresh)
      BY <1>1, <2>2 DEF RotationMoves
    <3>2. tok'[q] = tok[q] /\ tok[q] \in Pairs
      BY <1>0, <1>1, <3>1, PresentedPair DEF Kept, Rotating
    <3> QED
      BY <1>0, <1>4, <3>1, <3>2 DEF SuccessorInv
  <2> QED
    BY <1>4, <2>1, <2>2
<1>5. /\ \A p \in Pairs : succ'[p] # None =>
            p \notin refresh' /\ Settled(p)' /\ Settled(succ[p])'
      /\ \A p \in Pairs : succ[p] # None => succ'[p] = succ[p]
      /\ \A q \in Requests : pc'[q] \in Rotating => succ'[tok'[q]] = None
  BY <1>1, <1>3, <1>4 DEF RefreshMoves
<1>6. \A r \in Requests : pc'[r] = "idle" => out'[r].pair = None /\ resp'[r] = None
  BY <1>0, <1>1 DEF Kept, Sources, SuccessorInv
<1>7. \A r \in Requests : pc[r] # "idle" => tok'[r] = tok[r] /\ tok[r] \in Pairs
  BY <1>0, <1>1, PresentedPair DEF Kept
<1>8. \A r \in Requests : pc[r] = "signIDToken" => succ'[tok[r]] = r
  <2>1. \A r \in Requests : r # None
    BY DEF Pairs
  <2> QED
    BY <1>0, <1>5, <1>7, <2>1 DEF SuccessorInv
<1>9. ASSUME NEW r \in Requests, pc'[r] = "signIDToken"
       PROVE  succ'[tok'[r]] = r
  <2>1. pc[r] # "idle"
    BY <1>1, <1>9 DEF SignMoves, Rotating
  <2> QED
    BY <1>1, <1>2, <1>7, <1>8, <1>9, <2>1 DEF SignMoves, TypeOK
<1>10. \A r \in Requests : (pc[r] # "idle" /\ out[r].pair # None) => out[r].pair = succ'[tok[r]]
  BY <1>0, <1>5, <1>7 DEF SuccessorInv
<1>11. \A p \in Pairs : cache[p].pair # None => cache[p].pair = succ'[p]
  BY <1>0, <1>5 DEF SuccessorInv
<1>12. ASSUME NEW r \in Requests, out'[r].pair # None
       PROVE  out'[r].pair = succ'[tok'[r]]
  <2>1. pc[r] # "idle"
    BY <1>0, <1>1, <1>12 DEF Sources, SuccessorInv
  <2> QED
    BY <1>1, <1>7, <1>10, <1>11, <1>12, <1>8, <2>1 DEF Sources
<1>13. ASSUME NEW r \in Requests, resp'[r] # None
       PROVE  resp'[r] = succ'[tok'[r]]
  <2>1. pc[r] # "idle"
    BY <1>0, <1>1, <1>13 DEF Sources, SuccessorInv
  <2>2. resp[r] # None => resp[r] = succ'[tok[r]]
    BY <1>0, <1>5, <1>7, <2>1 DEF SuccessorInv
  <2> QED
    BY <1>1, <1>7, <1>10, <1>11, <1>13, <2>1, <2>2 DEF Sources
<1>14. ASSUME NEW p \in Pairs, cache'[p].pair # None
       PROVE  cache'[p].pair = succ'[p]
  BY <1>1, <1>10, <1>11, <1>14 DEF Sources
<1> QED
  BY <1>5, <1>6, <1>12, <1>13, <1>14, <1>9 DEF SuccessorInv

LEMMA SingleInvariant ==
    ASSUME Window > 0
    PROVE  Spec => []SingleInv
<1>1. Init => SingleInv
  BY BaseInit, ResponseTypes DEF Init, SingleInv, FlightInv, RotationInv, SuccessorInv,
     InFlight, StorePcs, Rotating, Pairs
<1>2. SingleInv /\ [Next]_vars => SingleInv'
  BY GrantStep, FlightStep, RotationStep, SuccessorStep DEF SingleInv
<1> QED
  BY <1>1, <1>2, PTL DEF Spec

\* With a replay window a grant never has two refresh tokens that work.
THEOREM RotationIsExclusive == Spec => []OneLiveRefresh
<1>1. CASE Window > 0
  <2>1. SingleInv => OneLiveRefresh
    BY DEF SingleInv, RotationInv, OneLiveRefresh
  <2> QED
    BY <1>1, <2>1, SingleInvariant, PTL
<1>2. CASE ~ (Window > 0)
  <2>1. OneLiveRefresh
    BY <1>2 DEF OneLiveRefresh
  <2> QED
    BY <2>1, PTL
<1> QED
  BY <1>1, <1>2

\* With a replay window every 200 answer to one refresh token is the same pair.
THEOREM AnswersAgree == Spec => []SameAnswer
<1>1. CASE Window > 0
  <2>1. SingleInv => SameAnswer
    BY DEF SingleInv, SuccessorInv, SameAnswer
  <2> QED
    BY <1>1, <2>1, SingleInvariant, PTL
<1>2. CASE ~ (Window > 0)
  <2>1. SameAnswer
    BY <1>2 DEF SameAnswer
  <2> QED
    BY <2>1, PTL
<1> QED
  BY <1>1, <1>2

-----------------------------------------------------------------------------
(* Refinement of TokenSuccession *)

\* A request presents a token of the line, and is answered at its end, once.
AnswerInv ==
    /\ \A r \in Requests : pc[r] # "idle" => tok[r] \in Line!Issued
    /\ \A r \in Requests : resp[r] # None => pc[r] \in {"emitReplay", "done", "dead"}
    /\ \A r \in Requests : pc[r] = "emitReplay" => out[r].pair # None
    /\ \A r \in isReplay : /\ pc[r] \in {"endFlight", "emitReplay", "done", "dead"}
                           /\ out[r].pair # None

LineInv == SingleInv /\ AnswerInv

LEMMA IssuedPairs ==
    ASSUME SingleInv
    PROVE  \A p : p \in Line!Issued <=>
               p \in Families \/ \E q \in Pairs : succ[q] # None /\ succ[q] = p
BY DEF Line!Issued, Pairs

\* The line only grows.
LEMMA HeirsStay ==
    ASSUME SingleInv, [Next]_vars
    PROVE  \A p \in Pairs : succ[p] # None => succ'[p] = succ[p]
<1>0. BaseInv /\ TypeOK /\ SuccessorInv
  BY DEF SingleInv, BaseInv
<1>1. RefreshMoves
  BY <1>0, RefreshMovesStep DEF TableMoves
<1>2. CASE succ' = succ
  BY <1>2
<1>3. ASSUME NEW r \in Requests, pc[r] \in Rotating, succ' = [succ EXCEPT ![tok[r]] = r]
      PROVE  \A p \in Pairs : succ[p] # None => succ'[p] = succ[p]
  BY <1>0, <1>3 DEF SuccessorInv, TypeOK
<1> QED
  BY <1>1, <1>2, <1>3 DEF RefreshMoves, Rotating

LEMMA IssuedStay ==
    ASSUME SingleInv, SingleInv', [Next]_vars
    PROVE  \A p \in Line!Issued : p \in (Line!Issued)'
<1>1. \A p \in Pairs : succ[p] # None => succ'[p] = succ[p]
  BY HeirsStay
<1>2. \A p : p \in Line!Issued <=> p \in Families \/ \E q \in Pairs : succ[q] # None /\ succ[q] = p
  BY IssuedPairs
<1>3. \A p : p \in (Line!Issued)' <=> p \in Families \/ \E q \in Pairs : succ'[q] # None /\ succ'[q] = p
  BY DEF Line!Issued, Pairs
<1> QED
  BY <1>1, <1>2, <1>3

\* Requests that arrive present a token somebody was answered with.
LEMMA HeldIssued ==
    ASSUME SingleInv
    PROVE  \A p \in Held : p \in Line!Issued
<1>1. \A r \in Requests : resp[r] # None => tok[r] \in Pairs /\ resp[r] = succ[tok[r]]
  <2>1. \A r \in Requests : resp[r] # None => pc[r] # "idle"
    BY DEF SingleInv, SuccessorInv
  <2> QED
    BY <2>1, PresentedPair DEF SingleInv, SuccessorInv
<1>2. \A p \in Held : p \in Families \/ \E r \in Requests : resp[r] # None /\ p = resp[r]
  BY DEF Held
<1> QED
  BY <1>1, <1>2, IssuedPairs

LEMMA PresentedIssued ==
    ASSUME LineInv, SingleInv', [Next]_vars
    PROVE  \A r \in Requests : pc'[r] # "idle" => tok'[r] \in (Line!Issued)'
<1>0. SingleInv /\ BaseInv /\ TypeOK
  BY DEF LineInv, SingleInv, BaseInv
<1>1. Kept
  BY <1>0, KeptStep
<1>2. ASSUME NEW r \in Requests, pc[r] = "idle", pc'[r] # "idle"
      PROVE  tok'[r] \in Held
  <2>1. \E p \in Held : tok' = [tok EXCEPT ![r] = p]
    <3>1. CASE UNCHANGED vars \/ Tick \/ Crash
      BY <1>0, <1>2, <3>1 DEF vars, Tick, Crash, TypeOK, Running, Revoking, InFlight, StorePcs, Rotating
    <3>2. ASSUME NEW q \in Requests, NEW p \in Pairs,
                 \/ Arrive(q, p) \/ ArriveRevoke(q, p, refresh) \/ ArriveRevoke(q, p, access)
          PROVE  \E x \in Held : tok' = [tok EXCEPT ![r] = x]
      BY <1>0, <1>2, <3>2 DEF Arrive, ArriveRevoke, Goto, TypeOK
    <3>3. ASSUME NEW q \in Requests, Step(q) PROVE FALSE
      <4> USE DEF Goto, TypeOK
      <4>1. CASE Exchange(q)
        BY <1>0, <1>2, <4>1 DEF Exchange, Fetch, DeleteAccess, DeleteRefresh, CreateAccess,
           CreateRefresh, Commit, Minted, SignIDToken, ExchangeFails, Respond, StorePcs, Rotating
      <4>2. CASE EndFlight(q)
        BY <1>0, <1>2, <4>2 DEF EndFlight, Followers
      <4>3. CASE FastPath(q) \/ Join(q) \/ Recheck(q) \/ StoreReplay(q) \/ Follow(q) \/ EmitReplay(q)
        BY <1>0, <1>2, <4>3 DEF FastPath, Join, Recheck, StoreReplay, Follow, EmitReplay
      <4>4. CASE Revoke(q)
        BY <1>0, <1>2, <4>4 DEF Revoke, RevokeRefresh, RevokeAccess, RevokeFails, Revoking
      <4> QED
        BY <3>3, <4>1, <4>2, <4>3, <4>4 DEF Step, Replay
    <3> QED
      BY <3>1, <3>2, <3>3 DEF Next
  <2> QED
    BY <1>0, <2>1 DEF TypeOK
<1>3. \A r \in Requests : pc[r] # "idle" => tok'[r] = tok[r] /\ tok[r] \in Line!Issued
  BY <1>1 DEF Kept, LineInv, AnswerInv
<1> QED
  BY <1>0, <1>2, <1>3, HeldIssued, IssuedStay

\* What the answers of a step are: none, or one to a request at its end, while
\* the rows and successors stay.
AnswerMoves ==
    \/ resp' = resp
    \/ \E r \in Requests :
          /\ resp[r] = None \/ (pc[r] = "emitReplay" /\ out[r].pair # None)
          /\ pc[r] # "idle" /\ resp' = [resp EXCEPT ![r] = resp'[r]]
          /\ pc[r] = "emitReplay" => resp'[r] = out[r].pair
          /\ refresh' = refresh /\ succ' = succ /\ tok' = tok

AnswersEnd ==
    /\ \A r \in Requests : resp'[r] # None => pc'[r] \in {"emitReplay", "done", "dead"}
    /\ \A r \in Requests : pc'[r] = "emitReplay" => out'[r].pair # None
    /\ \A r \in isReplay' : /\ pc'[r] \in {"endFlight", "emitReplay", "done", "dead"}
                            /\ out'[r].pair # None

LEMMA AnswerStep ==
    ASSUME LineInv, [Next]_vars, Window > 0
    PROVE  AnswerMoves /\ AnswersEnd
<1> USE DEF clock, store, locals, revHist
<1>0. BaseInv /\ TypeOK /\ AnswerInv
  BY DEF LineInv, SingleInv, BaseInv
<1>1. CASE UNCHANGED vars \/ Tick
  BY <1>0, <1>1 DEF vars, Tick, AnswerMoves, AnswersEnd, AnswerInv
<1>2. CASE Crash
  BY <1>0, <1>2 DEF Crash, AnswerMoves, AnswersEnd, AnswerInv, TypeOK
<1>3. ASSUME NEW r \in Requests, NEW p \in Pairs,
             \/ Arrive(r, p) \/ ArriveRevoke(r, p, refresh) \/ ArriveRevoke(r, p, access)
      PROVE AnswerMoves /\ AnswersEnd
  BY <1>0, <1>3 DEF Arrive, ArriveRevoke, Goto, AnswerMoves, AnswersEnd, AnswerInv, TypeOK
<1>4. ASSUME NEW r \in Requests, Step(r)
      PROVE AnswerMoves /\ AnswersEnd
  <2> USE DEF Goto, TypeOK, AnswerMoves, AnswersEnd, AnswerInv
  <2>1. CASE \/ Fetch(r) \/ DeleteAccess(r) \/ DeleteRefresh(r) \/ CreateAccess(r)
             \/ ExchangeFails(r) \/ CreateRefresh(r) \/ Commit(r) \/ Respond(r)
    BY <1>0, <2>1 DEF Fetch, DeleteAccess, DeleteRefresh, CreateAccess, CreateRefresh,
       Commit, Minted, ExchangeFails, Respond, StorePcs, Rotating
  <2>2. CASE SignIDToken(r)
    BY <1>0, <2>2, ResponseTypes DEF SignIDToken, Pairs
  <2>3. CASE FastPath(r)
    <3>1. tok[r] \in Pairs /\ t0[r] \in Times /\ pc[r] # "idle" /\ resp[r] = None
      BY <1>0, <2>3, PresentedPair DEF FastPath
    <3>2. cache'[tok[r]] = AfterLookup(tok[r], t0[r])
      BY <1>0, <2>3, <3>1 DEF FastPath
    <3>3. Hit(tok[r], t0[r]) => cache'[tok[r]].pair # None
      BY <1>0, <3>1, <3>2, LookupType DEF Hit
    <3> QED
      BY <1>0, <2>3, <3>1, <3>3 DEF FastPath
  <2>4. CASE Join(r) \/ StoreReplay(r)
    BY <1>0, <2>4 DEF Join, StoreReplay
  <2>5. CASE Recheck(r)
    <3>1. tok[r] \in Pairs /\ now \in Times
      BY <1>0, <2>5, PresentedPair DEF Recheck
    <3>2. cache'[tok[r]] = AfterLookup(tok[r], now)
      BY <1>0, <2>5, <3>1 DEF Recheck
    <3>3. Hit(tok[r], now) => cache'[tok[r]].pair # None
      BY <1>0, <3>1, <3>2, LookupType DEF Hit
    <3> QED
      BY <1>0, <2>5, <3>3 DEF Recheck
  <2>6. CASE EndFlight(r)
    BY <1>0, <2>6 DEF EndFlight, Followers
  <2>7. CASE Follow(r)
    <3>1. tok[r] \in Pairs /\ t0[r] \in Times
      BY <1>0, <2>7, PresentedPair DEF Follow
    <3>2. cache'[tok[r]] = AfterLookup(tok[r], t0[r])
      BY <1>0, <2>7, <3>1 DEF Follow
    <3>3. Hit(tok[r], t0[r]) => cache'[tok[r]].pair # None
      BY <1>0, <3>1, <3>2, LookupType DEF Hit
    <3> QED
      BY <1>0, <2>7, <3>3 DEF Follow
  <2>8. CASE EmitReplay(r)
    BY <1>0, <2>8 DEF EmitReplay
  <2>9. CASE Revoke(r)
    BY <1>0, <2>9 DEF Revoke, RevokeRefresh, RevokeAccess, RevokeFails, Revoking
  <2> QED
    BY <1>4, <2>1, <2>2, <2>3, <2>4, <2>5, <2>6, <2>7, <2>8, <2>9 DEF Step, Exchange, Replay
<1> QED
  BY <1>1, <1>2, <1>3, <1>4 DEF Next

LEMMA LineInit == Init => LineInv
<1> SUFFICES ASSUME Init PROVE LineInv
  OBVIOUS
<1>1. SingleInv
  BY BaseInit, ResponseTypes DEF Init, SingleInv, FlightInv, RotationInv, SuccessorInv,
     InFlight, StorePcs, Rotating, Pairs
<1>2. AnswerInv
  BY DEF Init, AnswerInv
<1> QED
  BY <1>1, <1>2 DEF LineInv

LEMMA LineInvStep ==
    ASSUME LineInv, [Next]_vars, Window > 0
    PROVE  LineInv'
<1>1. SingleInv'
  BY GrantStep, FlightStep, RotationStep, SuccessorStep DEF SingleInv, LineInv
<1>2. AnswersEnd
  BY AnswerStep
<1>3. AnswerInv'
  BY <1>1, <1>2, PresentedIssued DEF AnswerInv, AnswersEnd
<1> QED
  BY <1>1, <1>3 DEF LineInv

Given == {<<tok[r], resp[r]>> : r \in {q \in Requests : resp[q] # None}}

\* Every step of the endpoint is a step of the line, or none.
LEMMA LineStep ==
    ASSUME LineInv, LineInv', [Next]_vars, Window > 0
    PROVE  [Line!Next]_(Line!svars)
<1>0. BaseInv /\ TypeOK /\ RotationInv /\ SuccessorInv /\ AnswerInv /\ SingleInv
      /\ SuccessorInv'
  BY DEF LineInv, SingleInv, BaseInv
<1>1. AnswerMoves /\ RefreshMoves /\ Kept
  BY <1>0, AnswerStep, RefreshMovesStep, KeptStep DEF TableMoves
<1>2. \A r \in Requests : resp[r] # None => pc[r] # "idle" /\ tok'[r] = tok[r]
  BY <1>0, <1>1 DEF SuccessorInv, Kept
<1>3. ASSUME resp' = resp PROVE Given' = Given
  BY <1>2, <1>3 DEF Given
<1>4. CASE resp' = resp /\ refresh' \subseteq refresh /\ succ' = succ
  <2>1. Line!Lapse
    BY <1>3, <1>4 DEF Line!Lapse, Given
  <2> QED
    BY <2>1 DEF Line!Next
<1>5. ASSUME NEW r \in Requests, resp' = resp,
             \/ pc[r] = "createRefresh" /\ ~ Transactional /\ refresh' = refresh \cup {r}
             \/ pc[r] = "commit" /\ refresh' = (refresh \ RowsOf(grant[r], refresh)) \cup {r},
             succ' = [succ EXCEPT ![tok[r]] = r]
      PROVE  Line!Next
  <2>1. pc[r] \in Rotating /\ pc[r] # "idle" /\ ~ Settled(r)
    BY <1>5 DEF Rotating, Settled, PostMint
  <2>2. tok[r] \in Pairs /\ Settled(tok[r]) /\ grant[r] = grant[tok[r]]
    BY <1>0, <2>1, PresentedPair
  <2>3. tok[r] \in Line!Issued /\ succ[tok[r]] = None
    BY <1>0, <2>1 DEF AnswerInv, SuccessorInv
  <2>4. r \notin Line!Issued
    BY <1>0, <2>1, IssuedPairs DEF SuccessorInv, Settled
  <2>5. refresh' = (refresh \ {tok[r]}) \cup {r}
    <3>1. \A p \in refresh : grant[p] = grant[r] => p = tok[r]
      BY <1>0, <2>1 DEF RotationInv
    <3>2. CASE pc[r] = "createRefresh" /\ ~ Transactional /\ refresh' = refresh \cup {r}
      <4>1. tok[r] \notin refresh
        BY <1>0, <2>1, <2>2, <3>2 DEF RotationInv
      <4> QED
        BY <3>2, <4>1
    <3>3. CASE refresh' = (refresh \ RowsOf(grant[r], refresh)) \cup {r}
      <4>1. \A p \in refresh : p \in RowsOf(grant[r], refresh) <=> p = tok[r]
        BY <2>2, <3>1 DEF RowsOf
      <4> QED
        BY <3>3, <4>1
    <3> QED
      BY <1>5, <3>2, <3>3
  <2>6. Line!Succeed(tok[r], r)
    BY <1>3, <1>5, <2>3, <2>4, <2>5 DEF Line!Succeed, Given
  <2> QED
    BY <2>2, <2>6 DEF Line!Next, Pairs
<1>6. ASSUME NEW r \in Requests,
             resp[r] = None \/ (pc[r] = "emitReplay" /\ out[r].pair # None),
             pc[r] # "idle", resp' = [resp EXCEPT ![r] = resp'[r]],
             pc[r] = "emitReplay" => resp'[r] = out[r].pair,
             refresh' = refresh, succ' = succ, tok' = tok
      PROVE  [Line!Next]_(Line!svars)
  <2>1. tok[r] \in Pairs
    BY <1>0, <1>6, PresentedPair
  <2>2. \A q \in Requests \ {r} : resp'[q] = resp[q]
    BY <1>0, <1>6 DEF TypeOK
  <2>3. CASE resp'[r] = None
    <3>1. resp[r] = None
      BY <1>6, <2>3
    <3>2. Given' = Given
      BY <1>6, <2>2, <2>3, <3>1 DEF Given
    <3> QED
      BY <1>6, <3>2 DEF Line!svars, Given
  <2>4. CASE resp'[r] # None
    <3>1. resp'[r] = succ[tok[r]]
      BY <1>0, <1>6, <2>4 DEF SuccessorInv
    <3>2. resp[r] # None => resp[r] = succ[tok[r]]
      BY <1>0 DEF SuccessorInv
    <3>3. Given' = Given \cup {<<tok[r], succ[tok[r]]>>}
      <4>1. \A x : x \in Given' <=>
               (\E q \in Requests \ {r} : resp[q] # None /\ x = <<tok[q], resp[q]>>)
                 \/ x = <<tok[r], succ[tok[r]]>>
        BY <1>6, <2>2, <2>4, <3>1 DEF Given
      <4>2. \A x : x \in Given <=>
               (\E q \in Requests \ {r} : resp[q] # None /\ x = <<tok[q], resp[q]>>)
                 \/ (resp[r] # None /\ x = <<tok[r], resp[r]>>)
        BY DEF Given
      <4> QED
        BY <3>2, <4>1, <4>2
    <3>4. Line!Answer(tok[r])
      BY <1>6, <2>4, <3>1, <3>3 DEF Line!Answer, Given
    <3>5. tok[r] \in Families \cup Requests
      BY <2>1 DEF Pairs
    <3>6. Line!Next
      <4>1. \E p \in Families \cup Requests : Line!Answer(p)
        BY <3>4, <3>5 DEF Line!Answer
      <4> QED
        BY <4>1 DEF Line!Next
    <3> QED
      BY <3>6
  <2> QED
    BY <2>3, <2>4
<1>7. CASE resp' = resp
  BY <1>1, <1>4, <1>5, <1>7 DEF RefreshMoves
<1> QED
  BY <1>1, <1>6, <1>7 DEF AnswerMoves

\* With a replay window the endpoint implements the line of succession: for any
\* number of requests, grants, failures and restarts, over either kind of store.
THEOREM RotationIsSuccession == Window > 0 => (Spec => Succession)
<1> SUFFICES ASSUME Window > 0 PROVE Spec => Succession
  OBVIOUS
<1>1. Init => LineInv /\ Line!Init
  <2> SUFFICES ASSUME Init PROVE Line!Init
    BY LineInit
  <2>1. Given = {}
    BY DEF Init, Given
  <2>2. Families \cup Requests = Pairs
    BY DEF Pairs
  <2> QED
    BY <2>1, <2>2 DEF Init, Line!Init, Given
<1>2. LineInv /\ [Next]_vars => LineInv'
  BY LineInvStep
<1>3. LineInv /\ LineInv' /\ [Next]_vars => [Line!Next]_(Line!svars)
  BY LineStep
<1> QED
  BY <1>1, <1>2, <1>3, PTL DEF Spec, Succession, Line!Spec

-----------------------------------------------------------------------------
(* Replays and the audit trail *)

\* Requests on their way to report a replay.
Reporting(r) == pc[r] = "emitReplay" \/ (pc[r] = "endFlight" /\ r \in isReplay)

ReplayPcs == {"lookup", "join", "recheck", "wait", "storeReplay", "endFlight", "follow", "emitReplay"}

\* The lookup that found a replay used a time not before t0, and found the
\* window open.
WindowInv ==
    /\ \A r \in Requests : t0[r] <= now
    /\ \A r \in isReplay : pc[r] \in {"endFlight", "emitReplay", "done", "dead"}
    /\ \A r \in Requests : Reporting(r) => t0[r] < out[r].rotatedAt + Window
    /\ ReplayInsideWindow

\* Until a request answers, shares or looks up a pair, the only one it can have
\* is the one it minted.
OwnPairInv ==
    \A r \in Requests :
        /\ pc[r] \in StorePcs \cup {"idle", "lookup", "join", "wait", "recheck", "signIDToken"} =>
              out[r].pair = None
        /\ (pc[r] \in {"respond", "storeReplay"} \/ (pc[r] = "endFlight" /\ r \notin isReplay)) =>
              out[r].pair \in {None, r}

\* Mint before store: the replays of a token start with the entry of its one rotation.
Unstored(r) == pc[r] \in {"signIDToken", "respond", "storeReplay"} /\ succ[tok[r]] = r

CountInv ==
    /\ \A r \in Requests : Reporting(r) =>
          cache[tok[r]].pair = None \/ out[r].replayCount <= cache[tok[r]].replayCount
    /\ \A e \in ReplayEvents :
          /\ succ[e.tok] # None
          /\ cache[e.tok].pair = None \/ e.response.replayCount <= cache[e.tok].replayCount
    /\ \A q, r \in Requests :
          (Reporting(q) /\ Reporting(r) /\ tok[q] = tok[r]
             /\ out[q].replayCount = out[r].replayCount) => q = r
    /\ \A r \in Requests : Reporting(r) => \A e \in ReplayEvents :
          e.tok = tok[r] => e.response.replayCount # out[r].replayCount
    /\ ReplayCountsDistinct
    /\ \A r \in Requests : Unstored(r) =>
          /\ cache[tok[r]].pair = None
          /\ \A q \in Requests : Reporting(q) => tok[q] # tok[r]
          /\ \A e \in ReplayEvents : e.tok # tok[r]

\* The rotation that minted x is in the audit trail, and answered token p.
Accounted(x, p) == EventOf(x, "rotated") /\ tok[x] = p

Sharing == {"storeReplay", "endFlight", "follow", "emitReplay"}

\* The extent of the gap that EveryRequestAudited finds: a refresh answered without
\* an event of its own shared the failure of a leader whose event is there, or was
\* answered with a rotation whose window had closed.
OnlyLateOrFailedUnaudited ==
    \A r \in Requests : (pc[r] = "done" /\ t0[r] # NoTime) =>
        \/ \E e \in audit : e.req = r
        \/ resp[r] = None /\ \E q \in Requests : tok[q] = tok[r] /\ EventOf(q, "failed")
        \/ resp[r] # None /\ rotationAt[resp[r]] + Window <= now

AuditInv ==
    /\ \A e \in audit : pc[e.req] # "idle"
    /\ \A r \in Requests : pc[r] \in Revoking \cup {"idle"} => t0[r] = NoTime
    /\ \A p \in Pairs : cache[p].pair # None =>
          Accounted(cache[p].pair, p) /\ cache[p].rotatedAt = rotationAt[cache[p].pair]
    /\ \A r \in Requests : (pc[r] \in Sharing /\ out[r].pair # None) =>
          Accounted(out[r].pair, tok[r])
    /\ \A r \in Requests :
          (pc[r] \in {"storeReplay", "endFlight"} /\ r \notin isReplay /\ out[r].pair = None) =>
              EventOf(r, "failed")
    /\ \A r \in Requests : (pc[r] = "follow" /\ out[r].pair = None) =>
          \E q \in Requests : tok[q] = tok[r] /\ EventOf(q, "failed")
    /\ \A r \in Requests : (pc[r] \in {"endFlight", "follow"} /\ out[r].pair # None) =>
          cache[tok[r]].pair # None \/ rotationAt[out[r].pair] + Window <= now
    /\ MintingAudited /\ OnlyLateOrFailedUnaudited

\* What a lookup leaves and reports.
LEMMA LookupKeeps ==
    ASSUME TypeOK, NEW p \in Pairs, NEW t \in Times, Hit(p, t)
    PROVE  /\ AfterLookup(p, t).pair = cache[p].pair /\ cache[p].pair # None
           /\ AfterLookup(p, t).rotatedAt = cache[p].rotatedAt
           /\ t < cache[p].rotatedAt + Window
           /\ cache[p].rotatedAt \in Int /\ cache[p].replayCount \in Nat
           /\ AfterLookup(p, t).replayCount = cache[p].replayCount + 1
<1>1. cache[p] \in Response
  BY DEF TypeOK
<1>2. cache[p].rotatedAt \in Int /\ cache[p].replayCount \in Nat
  BY <1>1 DEF Response
<1>3. cache[p].rotatedAt + Window > t
  BY DEF Hit, Expired
<1> QED
  BY <1>2, <1>3 DEF AfterLookup, Counted, Hit

LEMMA MissKeeps ==
    ASSUME TypeOK, NEW p \in Pairs, NEW t \in Times, ~ Hit(p, t)
    PROVE  /\ AfterLookup(p, t) = NoEntry
           /\ cache[p].pair # None => cache[p].rotatedAt + Window <= t
<1>1. cache[p].rotatedAt \in Int
  BY DEF TypeOK, Response
<1> QED
  BY <1>1 DEF AfterLookup, Hit, Expired

LEMMA WindowStep ==
    ASSUME BaseInv, WindowInv, [Next]_vars
    PROVE  WindowInv'
<1> USE DEF clock, store, locals, revHist
<1>0. TypeOK /\ TypeOK'
  BY GrantStep DEF BaseInv
<1>1. CASE UNCHANGED vars
  BY <1>1 DEF vars, WindowInv, Reporting, ReplayInsideWindow, ReplayEvents
<1>2. CASE Tick
  BY <1>0, <1>2 DEF Tick, WindowInv, Reporting, ReplayInsideWindow, ReplayEvents, TypeOK
<1>3. CASE Crash
  BY <1>0, <1>3 DEF Crash, WindowInv, Reporting, ReplayInsideWindow, ReplayEvents, TypeOK, Running, InFlight
<1>4. ASSUME NEW r \in Requests, NEW p \in Pairs,
             \/ Arrive(r, p) \/ ArriveRevoke(r, p, refresh) \/ ArriveRevoke(r, p, access)
      PROVE WindowInv'
  BY <1>0, <1>4 DEF Arrive, ArriveRevoke, Goto, WindowInv, Reporting, ReplayInsideWindow, ReplayEvents, TypeOK
<1>5. ASSUME NEW r \in Requests, Step(r)
      PROVE WindowInv'
  <2> USE DEF Goto, TypeOK, Reporting, ReplayInsideWindow, ReplayEvents, WindowInv
  <2>1. CASE \/ Fetch(r) \/ DeleteAccess(r) \/ DeleteRefresh(r) \/ CreateAccess(r)
             \/ ExchangeFails(r) \/ CreateRefresh(r) \/ Commit(r) \/ SignIDToken(r)
    BY <1>0, <2>1 DEF Fetch, DeleteAccess, DeleteRefresh, CreateAccess, CreateRefresh,
       Commit, Minted, ExchangeFails, SignIDToken, StorePcs, Rotating
  <2>2. CASE Respond(r)
    BY <1>0, <2>2 DEF Respond
  <2>3. CASE FastPath(r)
    <3>1. tok[r] \in Pairs /\ t0[r] \in Times
      BY <1>0, <2>3, PresentedPair DEF FastPath
    <3>2. cache'[tok[r]] = AfterLookup(tok[r], t0[r])
      BY <1>0, <2>3, <3>1 DEF FastPath
    <3>3. Hit(tok[r], t0[r]) => t0[r] < cache'[tok[r]].rotatedAt + Window
      BY <1>0, <3>1, <3>2, LookupKeeps
    <3> QED
      BY <1>0, <2>3, <3>3 DEF FastPath
  <2>4. CASE Join(r) \/ StoreReplay(r)
    BY <1>0, <2>4 DEF Join, StoreReplay
  <2>5. CASE Recheck(r)
    <3>1. tok[r] \in Pairs /\ now \in Times /\ t0[r] \in Times
      BY <1>0, <2>5, PresentedPair DEF Recheck
    <3>2. cache'[tok[r]] = AfterLookup(tok[r], now)
      BY <1>0, <2>5, <3>1 DEF Recheck
    <3>3. Hit(tok[r], now) => t0[r] < cache'[tok[r]].rotatedAt + Window
      <4> SUFFICES ASSUME Hit(tok[r], now) PROVE t0[r] < cache'[tok[r]].rotatedAt + Window
        OBVIOUS
      <4>1. now < cache'[tok[r]].rotatedAt + Window /\ cache'[tok[r]].rotatedAt \in Int
        BY <1>0, <3>1, <3>2, LookupKeeps
      <4>2. t0[r] <= now
        OBVIOUS
      <4> QED
        BY <3>1, <4>1, <4>2
    <3> QED
      BY <1>0, <2>5, <3>3 DEF Recheck
  <2>6. CASE EndFlight(r)
    BY <1>0, <2>6 DEF EndFlight, Followers
  <2>7. CASE Follow(r)
    <3>1. tok[r] \in Pairs /\ t0[r] \in Times
      BY <1>0, <2>7, PresentedPair DEF Follow
    <3>2. cache'[tok[r]] = AfterLookup(tok[r], t0[r])
      BY <1>0, <2>7, <3>1 DEF Follow
    <3>3. Hit(tok[r], t0[r]) => t0[r] < cache'[tok[r]].rotatedAt + Window
      BY <1>0, <3>1, <3>2, LookupKeeps
    <3> QED
      BY <1>0, <2>7, <3>3 DEF Follow
  <2>8. CASE EmitReplay(r)
    BY <1>0, <2>8 DEF EmitReplay
  <2>9. CASE Revoke(r)
    BY <1>0, <2>9 DEF Revoke, RevokeRefresh, RevokeAccess, RevokeFails, Revoking
  <2> QED
    BY <1>5, <2>1, <2>2, <2>3, <2>4, <2>5, <2>6, <2>7, <2>8, <2>9 DEF Step, Exchange, Replay
<1> QED
  BY <1>1, <1>2, <1>3, <1>4, <1>5 DEF Next

\* A replay is served only while its window is open by the clock the request read.
THEOREM ReplaysAreTimely == Spec => []ReplayInsideWindow
<1>1. Init => BaseInv /\ WindowInv
  BY BaseInit DEF Init, WindowInv, Reporting, ReplayInsideWindow, ReplayEvents
<1>2. BaseInv /\ WindowInv /\ [Next]_vars => (BaseInv /\ WindowInv)'
  BY GrantStep, WindowStep
<1>3. WindowInv => ReplayInsideWindow
  BY DEF WindowInv
<1> QED
  BY <1>1, <1>2, <1>3, PTL DEF Spec

LEMMA OwnPairStep ==
    ASSUME BaseInv, WindowInv, OwnPairInv, [Next]_vars
    PROVE  OwnPairInv'
<1> USE DEF clock, store, locals, revHist
<1>0. TypeOK
  BY DEF BaseInv
<1>1. CASE UNCHANGED vars \/ Tick
  BY <1>1 DEF vars, Tick, OwnPairInv
<1>2. CASE Crash
  BY <1>0, <1>2 DEF Crash, OwnPairInv, TypeOK, Running, InFlight, StorePcs, Rotating
<1>3. ASSUME NEW r \in Requests, NEW p \in Pairs,
             \/ Arrive(r, p) \/ ArriveRevoke(r, p, refresh) \/ ArriveRevoke(r, p, access)
      PROVE OwnPairInv'
  BY <1>0, <1>3 DEF Arrive, ArriveRevoke, Goto, OwnPairInv, TypeOK, StorePcs, Rotating
<1>4. ASSUME NEW r \in Requests, Step(r)
      PROVE OwnPairInv'
  <2> USE DEF Goto, TypeOK, OwnPairInv, StorePcs, Rotating
  <2>1. CASE Exchange(r)
    BY <1>0, <2>1, ResponseTypes DEF Exchange, Fetch, DeleteAccess, DeleteRefresh, CreateAccess,
       CreateRefresh, Commit, Minted, SignIDToken, ExchangeFails, Respond
  <2>2. CASE FastPath(r) \/ Join(r) \/ StoreReplay(r) \/ Follow(r) \/ EmitReplay(r)
    BY <1>0, <2>2 DEF FastPath, Join, StoreReplay, Follow, EmitReplay
  <2>3. CASE Recheck(r)
    BY <1>0, <2>3 DEF Recheck
  <2>4. CASE EndFlight(r)
    BY <1>0, <2>4 DEF EndFlight, Followers
  <2>5. CASE Revoke(r)
    BY <1>0, <2>5 DEF Revoke, RevokeRefresh, RevokeAccess, RevokeFails, Revoking
  <2> QED
    BY <1>4, <2>1, <2>2, <2>3, <2>4, <2>5 DEF Step, Replay
<1> QED
  BY <1>1, <1>2, <1>3, <1>4 DEF Next

-----------------------------------------------------------------------------
(* Replays are counted *)

ReplayInv == LineInv /\ WindowInv /\ OwnPairInv /\ CountInv

\* A token without a successor has no entry and was never replayed.
LEMMA NoReplayYet ==
    ASSUME LineInv, CountInv, NEW p \in Pairs, succ[p] = None
    PROVE  /\ cache[p].pair = None
           /\ \A q \in Requests : Reporting(q) => tok[q] # p
           /\ \A e \in ReplayEvents : e.tok # p
<1>1. SuccessorInv /\ AnswerInv
  BY DEF LineInv, SingleInv
<1>2. \A q \in Requests : Reporting(q) => succ[tok[q]] # None
  BY <1>1 DEF Reporting, SuccessorInv, AnswerInv
<1> QED
  BY <1>1, <1>2 DEF SuccessorInv, CountInv

\* Between its minting and its entry a request does not come from nowhere.
LEMMA PreStoreMoves ==
    ASSUME BaseInv, [Next]_vars, NEW r \in Requests,
           pc'[r] \in {"signIDToken", "respond", "storeReplay"}
    PROVE  pc[r] \in StorePcs \cup {"signIDToken", "respond", "storeReplay"}
<1> USE DEF clock, store, locals, revHist
<1>0. TypeOK
  BY DEF BaseInv
<1>1. CASE UNCHANGED vars \/ Tick \/ Crash
  BY <1>0, <1>1 DEF vars, Tick, Crash, TypeOK
<1>2. ASSUME NEW q \in Requests, NEW p \in Pairs,
             \/ Arrive(q, p) \/ ArriveRevoke(q, p, refresh) \/ ArriveRevoke(q, p, access)
      PROVE pc[r] \in {"signIDToken", "respond", "storeReplay"}
  BY <1>0, <1>2 DEF Arrive, ArriveRevoke, Goto, TypeOK
<1>3. ASSUME NEW q \in Requests, Step(q)
      PROVE pc[r] \in StorePcs \cup {"signIDToken", "respond", "storeReplay"}
  <2> USE DEF Goto, TypeOK
  <2>1. CASE Exchange(q)
    BY <1>0, <2>1 DEF Exchange, Fetch, DeleteAccess, DeleteRefresh, CreateAccess,
       CreateRefresh, Commit, Minted, SignIDToken, ExchangeFails, Respond, StorePcs, Rotating
  <2>2. CASE EndFlight(q)
    BY <1>0, <2>2 DEF EndFlight, Followers
  <2>3. CASE FastPath(q) \/ Join(q) \/ Recheck(q) \/ StoreReplay(q) \/ Follow(q) \/ EmitReplay(q)
    BY <1>0, <2>3 DEF FastPath, Join, Recheck, StoreReplay, Follow, EmitReplay
  <2>4. CASE Revoke(q)
    BY <1>0, <2>4 DEF Revoke, RevokeRefresh, RevokeAccess, RevokeFails
  <2> QED
    BY <1>3, <2>1, <2>2, <2>3, <2>4 DEF Step, Replay
<1> QED
  BY <1>1, <1>2, <1>3 DEF Next

LEMMA UnstoredFresh ==
    ASSUME LineInv, [Next]_vars, NEW r \in Requests, Unstored(r)'
    PROVE  /\ pc[r] # "idle" /\ tok'[r] = tok[r] /\ tok[r] \in Pairs
           /\ Unstored(r) \/ succ[tok[r]] = None
<1>0. BaseInv /\ TypeOK /\ SuccessorInv
  BY DEF LineInv, SingleInv, BaseInv
<1>1. pc[r] \in StorePcs \cup {"signIDToken", "respond", "storeReplay"}
  BY <1>0, PreStoreMoves DEF Unstored
<1>2. pc[r] # "idle" /\ tok'[r] = tok[r] /\ tok[r] \in Pairs
  BY <1>0, <1>1, KeptStep, PresentedPair DEF Kept, StorePcs, Rotating
<1>3. succ'[tok[r]] = r
  BY <1>2 DEF Unstored
<1>4. succ[tok[r]] = r \/ succ[tok[r]] = None
  <2>1. RefreshMoves
    BY <1>0, RefreshMovesStep DEF TableMoves
  <2>2. CASE succ' = succ
    BY <1>3, <2>2
  <2>3. ASSUME NEW q \in Requests, pc[q] \in Rotating, succ' = [succ EXCEPT ![tok[q]] = q]
        PROVE  succ[tok[r]] = r \/ succ[tok[r]] = None
    BY <1>0, <1>2, <1>3, <2>3 DEF SuccessorInv, TypeOK
  <2> QED
    BY <2>1, <2>2, <2>3 DEF RefreshMoves, Rotating
<1>5. CASE succ[tok[r]] = r
  <2>1. r # None
    BY DEF Pairs
  <2>2. Settled(r)
    BY <1>0, <1>2, <1>5, <2>1 DEF SuccessorInv
  <2>3. r \notin Families
    OBVIOUS
  <2>4. pc[r] \notin StorePcs
    BY <2>2, <2>3 DEF Settled, PostMint, StorePcs, Rotating
  <2> QED
    BY <1>1, <1>2, <1>5, <2>4 DEF Unstored
<1> QED
  BY <1>2, <1>4, <1>5

\* What is true of an unstored rotation after any step that adds no replay.
LEMMA UnstoredReplays ==
    ASSUME LineInv, CountInv, [Next]_vars, NEW r \in Requests, Unstored(r)'
    PROVE  /\ tok'[r] = tok[r] /\ tok[r] \in Pairs
           /\ cache[tok[r]].pair = None
           /\ \A q \in Requests : Reporting(q) => tok[q] # tok[r]
           /\ \A e \in ReplayEvents : e.tok # tok[r]
BY UnstoredFresh, NoReplayYet DEF CountInv

\* A request that reports presents a pair, and keeps presenting it.
LEMMA ReportingKept ==
    ASSUME LineInv, [Next]_vars, NEW r \in Requests, Reporting(r)
    PROVE  tok'[r] = tok[r] /\ tok[r] \in Pairs /\ succ[tok[r]] # None
<1>1. BaseInv /\ pc[r] # "idle" /\ SuccessorInv /\ AnswerInv
  BY DEF LineInv, SingleInv, Reporting
<1> QED
  BY <1>1, KeptStep, PresentedPair DEF Kept, Reporting, SuccessorInv, AnswerInv

\* Steps that report no replay and store no entry.
LEMMA QuietCount ==
    ASSUME LineInv, CountInv, [Next]_vars, ReplayEvents' = ReplayEvents,
           \A p \in Pairs : cache'[p] = cache[p] \/ cache'[p].pair = None,
           \A r \in Requests : Reporting(r)' => Reporting(r) /\ out'[r] = out[r]
    PROVE  CountInv'
<1>1. \A e \in ReplayEvents : e.tok \in Pairs
  BY DEF LineInv, SingleInv, BaseInv, TypeOK, ReplayEvents, Event
<1>2. \A r \in Requests : Reporting(r)' =>
         Reporting(r) /\ out'[r] = out[r] /\ tok'[r] = tok[r] /\ tok[r] \in Pairs
  BY ReportingKept
<1>3. \A p \in Pairs : succ[p] # None => succ'[p] = succ[p]
  BY HeirsStay DEF LineInv
<1>4. ASSUME NEW r \in Requests, Reporting(r)'
      PROVE  cache'[tok'[r]].pair = None \/ out'[r].replayCount <= cache'[tok'[r]].replayCount
  BY <1>2, <1>4 DEF CountInv
<1>5. ASSUME NEW e \in ReplayEvents'
      PROVE  succ'[e.tok] # None
             /\ (cache'[e.tok].pair = None \/ e.response.replayCount <= cache'[e.tok].replayCount)
  BY <1>1, <1>3 DEF CountInv
<1>6. ASSUME NEW q \in Requests, NEW r \in Requests, Reporting(q)', Reporting(r)', tok'[q] = tok'[r],
             out'[q].replayCount = out'[r].replayCount
      PROVE  q = r
  BY <1>2, <1>6 DEF CountInv
<1>7. ASSUME NEW r \in Requests, Reporting(r)', NEW e \in ReplayEvents', e.tok = tok'[r]
      PROVE  e.response.replayCount # out'[r].replayCount
  BY <1>2, <1>7 DEF CountInv
<1>8. ReplayCountsDistinct'
  BY DEF CountInv, ReplayCountsDistinct
<1>9. ASSUME NEW r \in Requests, Unstored(r)'
      PROVE  /\ cache'[tok'[r]].pair = None
             /\ \A q \in Requests : Reporting(q)' => tok'[q] # tok'[r]
             /\ \A e \in ReplayEvents' : e.tok # tok'[r]
  BY <1>2, <1>9, UnstoredReplays
<1> QED
  BY <1>4, <1>5, <1>6, <1>7, <1>8, <1>9 DEF CountInv

\* A lookup that hits: the new count is above all earlier ones.
LEMMA HitCount ==
    ASSUME LineInv, CountInv, [Next]_vars, ReplayEvents' = ReplayEvents,
           NEW r \in Requests, NEW t \in Times, tok[r] \in Pairs, tok'[r] = tok[r],
           ~ Reporting(r), Hit(tok[r], t),
           cache' = [cache EXCEPT ![tok[r]] = AfterLookup(tok[r], t)],
           out'[r] = cache'[tok[r]],
           \A q \in Requests \ {r} : Reporting(q)' => Reporting(q) /\ out'[q] = out[q]
    PROVE  CountInv'
<1>0. TypeOK
  BY DEF LineInv, SingleInv, BaseInv
<1> DEFINE p == tok[r]
           n == cache[p].replayCount
<1>1. /\ cache[p].pair # None /\ n \in Nat
      /\ cache'[p].replayCount = n + 1 /\ out'[r].replayCount = n + 1
      /\ \A x \in Pairs \ {p} : cache'[x] = cache[x]
  BY <1>0, LookupKeeps DEF TypeOK
<1>2. \A e \in ReplayEvents : e.tok \in Pairs /\ e.response.replayCount \in Nat
  BY <1>0 DEF TypeOK, ReplayEvents, Event, Response
<1>3. \A q \in Requests \ {r} : Reporting(q)' =>
         /\ Reporting(q) /\ out'[q] = out[q] /\ tok'[q] = tok[q] /\ tok[q] \in Pairs
         /\ out[q].replayCount \in Nat
  BY <1>0, ReportingKept DEF TypeOK, Response
<1>4. \A x \in Pairs : succ[x] # None => succ'[x] = succ[x]
  BY HeirsStay DEF LineInv
<1>5. \A q \in Requests \ {r} : Reporting(q)' /\ tok[q] = p => out[q].replayCount <= n
  BY <1>1, <1>3 DEF CountInv
<1>6. \A e \in ReplayEvents : e.tok = p => e.response.replayCount <= n
  BY <1>1 DEF CountInv
<1>7. ASSUME NEW q \in Requests, Reporting(q)'
      PROVE  cache'[tok'[q]].pair = None \/ out'[q].replayCount <= cache'[tok'[q]].replayCount
  <2>1. CASE q = r
    BY <1>1, <2>1
  <2>2. CASE q # r /\ tok[q] = p
    BY <1>1, <1>3, <1>5, <1>7, <2>2
  <2>3. CASE q # r /\ tok[q] # p
    BY <1>1, <1>3, <1>7, <2>3 DEF CountInv
  <2> QED
    BY <2>1, <2>2, <2>3
<1>8. ASSUME NEW e \in ReplayEvents'
      PROVE  succ'[e.tok] # None
             /\ (cache'[e.tok].pair = None \/ e.response.replayCount <= cache'[e.tok].replayCount)
  <2>1. CASE e.tok = p
    BY <1>1, <1>2, <1>4, <1>6, <2>1 DEF CountInv
  <2>2. CASE e.tok # p
    BY <1>1, <1>2, <1>4, <2>2 DEF CountInv
  <2> QED
    BY <2>1, <2>2
<1>9. ASSUME NEW q \in Requests, NEW s \in Requests, Reporting(q)', Reporting(s)',
             tok'[q] = tok'[s], out'[q].replayCount = out'[s].replayCount
      PROVE  q = s
  <2>1. CASE q = r /\ s # r
    BY <1>1, <1>3, <1>5, <1>9, <2>1
  <2>2. CASE q # r /\ s = r
    BY <1>1, <1>3, <1>5, <1>9, <2>2
  <2>3. CASE q # r /\ s # r
    BY <1>3, <1>9, <2>3 DEF CountInv
  <2> QED
    BY <2>1, <2>2, <2>3
<1>10. ASSUME NEW q \in Requests, Reporting(q)', NEW e \in ReplayEvents', e.tok = tok'[q]
       PROVE  e.response.replayCount # out'[q].replayCount
  <2>1. CASE q = r
    BY <1>1, <1>2, <1>6, <1>10, <2>1
  <2>2. CASE q # r
    BY <1>3, <1>10, <2>2 DEF CountInv
  <2> QED
    BY <2>1, <2>2
<1>11. ReplayCountsDistinct'
  BY DEF CountInv, ReplayCountsDistinct
<1>12. ASSUME NEW s \in Requests, Unstored(s)'
       PROVE  /\ cache'[tok'[s]].pair = None
              /\ \A q \in Requests : Reporting(q)' => tok'[q] # tok'[s]
              /\ \A e \in ReplayEvents' : e.tok # tok'[s]
  <2>1. /\ tok'[s] = tok[s] /\ tok[s] \in Pairs /\ cache[tok[s]].pair = None
        /\ \A q \in Requests : Reporting(q) => tok[q] # tok[s]
        /\ \A e \in ReplayEvents : e.tok # tok[s]
    BY <1>12, UnstoredReplays
  <2>2. tok[s] # p
    BY <1>1, <2>1
  <2> QED
    BY <1>1, <1>3, <2>1, <2>2
<1> QED
  BY <1>7, <1>8, <1>9, <1>10, <1>11, <1>12 DEF CountInv

\* The one entry of a rotation: nobody has replayed it yet.
LEMMA StoreCount ==
    ASSUME LineInv, CountInv, [Next]_vars, ReplayEvents' = ReplayEvents,
           NEW r \in Requests, Unstored(r), ~ Unstored(r)', tok[r] \in Pairs,
           \A p \in Pairs \ {tok[r]} : cache'[p] = cache[p],
           \A q \in Requests : Reporting(q)' => Reporting(q) /\ out'[q] = out[q]
    PROVE  CountInv'
<1>1. \A e \in ReplayEvents : e.tok \in Pairs /\ e.tok # tok[r]
  BY DEF LineInv, SingleInv, BaseInv, TypeOK, ReplayEvents, Event, CountInv
<1>2. \A q \in Requests : Reporting(q)' =>
         /\ Reporting(q) /\ out'[q] = out[q] /\ tok'[q] = tok[q] /\ tok[q] \in Pairs
         /\ tok[q] # tok[r]
  BY ReportingKept DEF CountInv
<1>3. \A p \in Pairs : succ[p] # None => succ'[p] = succ[p]
  BY HeirsStay DEF LineInv
<1>4. ASSUME NEW q \in Requests, Reporting(q)'
      PROVE  cache'[tok'[q]].pair = None \/ out'[q].replayCount <= cache'[tok'[q]].replayCount
  BY <1>2, <1>4 DEF CountInv
<1>5. ASSUME NEW e \in ReplayEvents'
      PROVE  succ'[e.tok] # None
             /\ (cache'[e.tok].pair = None \/ e.response.replayCount <= cache'[e.tok].replayCount)
  BY <1>1, <1>3 DEF CountInv
<1>6. ASSUME NEW q \in Requests, NEW s \in Requests, Reporting(q)', Reporting(s)', tok'[q] = tok'[s],
             out'[q].replayCount = out'[s].replayCount
      PROVE  q = s
  BY <1>2, <1>6 DEF CountInv
<1>7. ASSUME NEW q \in Requests, Reporting(q)', NEW e \in ReplayEvents', e.tok = tok'[q]
      PROVE  e.response.replayCount # out'[q].replayCount
  BY <1>2, <1>7 DEF CountInv
<1>8. ReplayCountsDistinct'
  BY DEF CountInv, ReplayCountsDistinct
<1>9. ASSUME NEW s \in Requests, Unstored(s)'
      PROVE  /\ cache'[tok'[s]].pair = None
             /\ \A q \in Requests : Reporting(q)' => tok'[q] # tok'[s]
             /\ \A e \in ReplayEvents' : e.tok # tok'[s]
  <2>1. s # r /\ r # None
    BY <1>9 DEF Pairs
  <2>2. tok'[s] = tok[s] /\ tok[s] # tok[r] /\ tok[s] \in Pairs
    BY <1>9, <2>1, UnstoredFresh DEF Unstored
  <2> QED
    BY <1>2, <1>9, <2>2, UnstoredReplays
<1> QED
  BY <1>4, <1>5, <1>6, <1>7, <1>8, <1>9 DEF CountInv

\* A replay is reported once, with its count.
LEMMA EmitCount ==
    ASSUME LineInv, CountInv, [Next]_vars, NEW r \in Requests, EmitReplay(r)
    PROVE  CountInv'
<1> DEFINE e0 == [req |-> r, action |-> "replayed", tok |-> tok[r], at |-> t0[r], response |-> out[r]]
<1>0. TypeOK /\ Reporting(r) /\ tok[r] \in Pairs /\ succ[tok[r]] # None
  BY ReportingKept DEF LineInv, SingleInv, BaseInv, EmitReplay, Reporting
<1>1. audit' = audit \cup {e0} /\ cache' = cache /\ out' = out /\ tok' = tok /\ succ' = succ
      /\ isReplay' = isReplay /\ pc' = [pc EXCEPT ![r] = "done"]
  BY DEF EmitReplay, Goto
<1>2. e0.action = "replayed" /\ e0.tok = tok[r] /\ e0.response = out[r]
  OBVIOUS
<1> HIDE DEF e0
<1>3. ReplayEvents' = ReplayEvents \cup {e0}
  BY <1>1, <1>2 DEF ReplayEvents
<1>4. \A q \in Requests : Reporting(q)' => Reporting(q) /\ q # r
  BY <1>0, <1>1 DEF Reporting, TypeOK
<1>5. \A e \in ReplayEvents : e.tok = tok[r] => e.response.replayCount # out[r].replayCount
  BY <1>0 DEF CountInv
<1>6. ReplayCountsDistinct'
  <2>1. ASSUME NEW d \in ReplayEvents', NEW e \in ReplayEvents', d.tok = e.tok,
               d.response.replayCount = e.response.replayCount
        PROVE  d = e
    <3>1. CASE d \in ReplayEvents /\ e \in ReplayEvents
      BY <2>1, <3>1 DEF CountInv, ReplayCountsDistinct
    <3>2. CASE d = e0 /\ e \in ReplayEvents
      BY <1>2, <1>5, <2>1, <3>2
    <3>3. CASE d \in ReplayEvents /\ e = e0
      BY <1>2, <1>5, <2>1, <3>3
    <3>4. CASE d = e0 /\ e = e0
      BY <3>4
    <3> QED
      BY <1>3, <3>1, <3>2, <3>3, <3>4
  <2> QED
    BY <2>1 DEF ReplayCountsDistinct
<1>7. ASSUME NEW e \in ReplayEvents'
      PROVE  succ'[e.tok] # None
             /\ (cache'[e.tok].pair = None \/ e.response.replayCount <= cache'[e.tok].replayCount)
  BY <1>0, <1>1, <1>2, <1>3 DEF CountInv
<1>8. ASSUME NEW q \in Requests, Reporting(q)', NEW e \in ReplayEvents', e.tok = tok'[q]
      PROVE  e.response.replayCount # out'[q].replayCount
  <2>1. CASE e \in ReplayEvents
    BY <1>1, <1>4, <1>8, <2>1 DEF CountInv
  <2>2. CASE e = e0
    BY <1>0, <1>1, <1>2, <1>4, <1>8, <2>2 DEF CountInv
  <2> QED
    BY <1>3, <2>1, <2>2
<1>9. ASSUME NEW s \in Requests, Unstored(s)'
      PROVE  /\ cache'[tok'[s]].pair = None
             /\ \A q \in Requests : Reporting(q)' => tok'[q] # tok'[s]
             /\ \A e \in ReplayEvents' : e.tok # tok'[s]
  BY <1>0, <1>1, <1>2, <1>3, <1>4, <1>9, UnstoredReplays
<1>10. ASSUME NEW q \in Requests, Reporting(q)'
       PROVE  cache'[tok'[q]].pair = None \/ out'[q].replayCount <= cache'[tok'[q]].replayCount
  BY <1>1, <1>4, <1>10 DEF CountInv
<1>11. ASSUME NEW q \in Requests, NEW s \in Requests, Reporting(q)', Reporting(s)',
              tok'[q] = tok'[s], out'[q].replayCount = out'[s].replayCount
       PROVE  q = s
  BY <1>1, <1>4, <1>11 DEF CountInv
<1> QED
  BY <1>6, <1>7, <1>8, <1>9, <1>10, <1>11 DEF CountInv

-----------------------------------------------------------------------------
(* Every step keeps the counts *)

LEMMA CountStep ==
    ASSUME ReplayInv, [Next]_vars
    PROVE  CountInv'
<1> USE DEF clock, store, locals, revHist
<1>0. TypeOK /\ BaseInv /\ LineInv /\ WindowInv /\ OwnPairInv /\ CountInv /\ SuccessorInv
  BY DEF ReplayInv, LineInv, SingleInv, BaseInv
<1>1. CASE UNCHANGED vars \/ Tick
  <2>1. /\ ReplayEvents' = ReplayEvents /\ cache' = cache
        /\ \A r \in Requests : Reporting(r)' => Reporting(r) /\ out'[r] = out[r]
    BY <1>1 DEF vars, Tick, ReplayEvents, Reporting
  <2> QED
    BY <1>0, <2>1, QuietCount
<1>2. CASE Crash
  <2>1. /\ ReplayEvents' = ReplayEvents
        /\ \A p \in Pairs : cache'[p].pair = None
        /\ \A r \in Requests : Reporting(r)' => Reporting(r) /\ out'[r] = out[r]
    BY <1>0, <1>2, ResponseTypes DEF Crash, ReplayEvents, Reporting, TypeOK
  <2> QED
    BY <1>0, <2>1, QuietCount
<1>3. ASSUME NEW r \in Requests, NEW p \in Pairs,
             \/ Arrive(r, p) \/ ArriveRevoke(r, p, refresh) \/ ArriveRevoke(r, p, access)
      PROVE CountInv'
  <2>1. /\ ReplayEvents' = ReplayEvents /\ cache' = cache
        /\ \A q \in Requests : Reporting(q)' => Reporting(q) /\ out'[q] = out[q]
    BY <1>0, <1>3 DEF Arrive, ArriveRevoke, Goto, ReplayEvents, Reporting, TypeOK
  <2> QED
    BY <1>0, <2>1, QuietCount
<1>4. ASSUME NEW r \in Requests, Step(r)
      PROVE CountInv'
  <2> USE DEF Goto, TypeOK
  <2>0. pc[r] # "idle" => tok[r] \in Pairs
    BY <1>0, PresentedPair
  <2>1. CASE Exchange(r)
    <3>1. cache' = cache
      BY <2>1 DEF Exchange, Fetch, DeleteAccess, DeleteRefresh, CreateAccess,
         CreateRefresh, Commit, Minted, SignIDToken, ExchangeFails, Respond
    <3>2. \A q \in Requests : Reporting(q)' => Reporting(q) /\ out'[q] = out[q]
      BY <1>0, <2>1 DEF Exchange, Fetch, DeleteAccess, DeleteRefresh, CreateAccess,
         CreateRefresh, Commit, Minted, SignIDToken, ExchangeFails, Respond, Reporting,
         StorePcs, Rotating
    <3>3. ReplayEvents' = ReplayEvents
      <4>1. CASE Respond(r)
        BY <4>1 DEF Respond, ReplayEvents
      <4>2. CASE ~ Respond(r)
        BY <2>1, <4>2 DEF Exchange, Fetch, DeleteAccess, DeleteRefresh, CreateAccess,
           CreateRefresh, Commit, Minted, SignIDToken, ExchangeFails, ReplayEvents
      <4> QED
        BY <4>1, <4>2
    <3> QED
      BY <1>0, <3>1, <3>2, <3>3, QuietCount
  <2>2. CASE FastPath(r)
    <3>1. tok[r] \in Pairs /\ t0[r] \in Times /\ tok'[r] = tok[r] /\ ~ Reporting(r)
          /\ ReplayEvents' = ReplayEvents
      BY <1>0, <2>0, <2>2 DEF FastPath, Reporting, ReplayEvents
    <3>2. cache' = [cache EXCEPT ![tok[r]] = AfterLookup(tok[r], t0[r])]
      BY <2>2 DEF FastPath
    <3>3. \A q \in Requests \ {r} : Reporting(q)' => Reporting(q) /\ out'[q] = out[q]
      BY <1>0, <2>2 DEF FastPath, Reporting
    <3>4. CASE Hit(tok[r], t0[r])
      <4>1. out'[r] = cache'[tok[r]]
        BY <1>0, <2>2, <3>4 DEF FastPath
      <4> QED
        BY <1>0, <3>1, <3>2, <3>3, <3>4, <4>1, HitCount
    <3>5. CASE ~ Hit(tok[r], t0[r])
      <4>1. \A p \in Pairs : cache'[p] = cache[p] \/ cache'[p].pair = None
        BY <1>0, <3>1, <3>2, <3>5, LookupType
      <4>2. ~ Reporting(r)'
        BY <1>0, <2>2, <3>5 DEF FastPath, Reporting
      <4> QED
        BY <1>0, <3>1, <3>3, <4>1, <4>2, QuietCount
    <3> QED
      BY <3>4, <3>5
  <2>3. CASE Join(r)
    <3>1. /\ ReplayEvents' = ReplayEvents /\ cache' = cache
          /\ \A q \in Requests : Reporting(q)' => Reporting(q) /\ out'[q] = out[q]
      BY <1>0, <2>3 DEF Join, ReplayEvents, Reporting
    <3> QED
      BY <1>0, <3>1, QuietCount
  <2>4. CASE Recheck(r)
    <3>1. tok[r] \in Pairs /\ now \in Times /\ tok'[r] = tok[r] /\ ~ Reporting(r)
          /\ ReplayEvents' = ReplayEvents
      BY <1>0, <2>0, <2>4 DEF Recheck, Reporting, ReplayEvents
    <3>2. cache' = [cache EXCEPT ![tok[r]] = AfterLookup(tok[r], now)]
      BY <2>4 DEF Recheck
    <3>3. \A q \in Requests \ {r} : Reporting(q)' => Reporting(q) /\ out'[q] = out[q]
      BY <1>0, <2>4 DEF Recheck, Reporting
    <3>4. CASE Hit(tok[r], now)
      <4>1. out'[r] = cache'[tok[r]]
        BY <1>0, <2>4, <3>4 DEF Recheck
      <4> QED
        BY <1>0, <3>1, <3>2, <3>3, <3>4, <4>1, HitCount
    <3>5. CASE ~ Hit(tok[r], now)
      <4>1. \A p \in Pairs : cache'[p] = cache[p] \/ cache'[p].pair = None
        BY <1>0, <3>1, <3>2, <3>5, LookupType
      <4>2. ~ Reporting(r)'
        BY <1>0, <2>4, <3>5 DEF Recheck, Reporting
      <4> QED
        BY <1>0, <3>1, <3>3, <4>1, <4>2, QuietCount
    <3> QED
      BY <3>4, <3>5
  <2>5. CASE StoreReplay(r)
    <3>1. r \notin isReplay /\ pc[r] = "storeReplay" /\ tok[r] \in Pairs
      BY <1>0, <2>0, <2>5 DEF StoreReplay, WindowInv
    <3>2. /\ ReplayEvents' = ReplayEvents
          /\ \A q \in Requests : Reporting(q)' => Reporting(q) /\ out'[q] = out[q]
      BY <1>0, <2>5, <3>1 DEF StoreReplay, ReplayEvents, Reporting
    <3>3. CASE out[r].pair = None
      BY <1>0, <2>5, <3>2, <3>3, QuietCount DEF StoreReplay
    <3>4. CASE out[r].pair # None
      <4>1. out[r].pair = r
        BY <1>0, <3>1, <3>4 DEF OwnPairInv
      <4>2. Unstored(r)
        BY <1>0, <3>1, <3>4, <4>1 DEF Unstored, SuccessorInv
      <4>3. ~ Unstored(r)'
        BY <1>0, <2>5 DEF StoreReplay, Unstored
      <4>4. \A p \in Pairs \ {tok[r]} : cache'[p] = cache[p]
        BY <1>0, <2>5 DEF StoreReplay
      <4> QED
        BY <1>0, <3>1, <3>2, <4>2, <4>3, <4>4, StoreCount
    <3> QED
      BY <3>3, <3>4
  <2>6. CASE EndFlight(r)
    <3>1. /\ ReplayEvents' = ReplayEvents /\ cache' = cache
          /\ \A q \in Requests : Reporting(q)' => Reporting(q) /\ out'[q] = out[q]
      BY <1>0, <2>6 DEF EndFlight, Followers, ReplayEvents, Reporting
    <3> QED
      BY <1>0, <3>1, QuietCount
  <2>7. CASE Follow(r)
    <3>1. tok[r] \in Pairs /\ t0[r] \in Times /\ tok'[r] = tok[r] /\ ~ Reporting(r)
          /\ ReplayEvents' = ReplayEvents
      BY <1>0, <2>0, <2>7 DEF Follow, Reporting, ReplayEvents
    <3>2. cache' = [cache EXCEPT ![tok[r]] = AfterLookup(tok[r], t0[r])]
      BY <2>7 DEF Follow
    <3>3. \A q \in Requests \ {r} : Reporting(q)' => Reporting(q) /\ out'[q] = out[q]
      BY <1>0, <2>7 DEF Follow, Reporting
    <3>4. CASE Hit(tok[r], t0[r])
      <4>1. out'[r] = cache'[tok[r]]
        BY <1>0, <2>7, <3>4 DEF Follow
      <4> QED
        BY <1>0, <3>1, <3>2, <3>3, <3>4, <4>1, HitCount
    <3>5. CASE ~ Hit(tok[r], t0[r])
      <4>1. \A p \in Pairs : cache'[p] = cache[p] \/ cache'[p].pair = None
        BY <1>0, <3>1, <3>2, <3>5, LookupType
      <4>2. ~ Reporting(r)'
        BY <1>0, <2>7, <3>5 DEF Follow, Reporting
      <4> QED
        BY <1>0, <3>1, <3>3, <4>1, <4>2, QuietCount
    <3> QED
      BY <3>4, <3>5
  <2>8. CASE EmitReplay(r)
    BY <1>0, <2>8, EmitCount
  <2>9. CASE Revoke(r)
    <3>1. /\ ReplayEvents' = ReplayEvents /\ cache' = cache
          /\ \A q \in Requests : Reporting(q)' => Reporting(q) /\ out'[q] = out[q]
      BY <1>0, <2>9 DEF Revoke, RevokeRefresh, RevokeAccess, RevokeFails, ReplayEvents, Reporting
    <3> QED
      BY <1>0, <3>1, QuietCount
  <2> QED
    BY <1>4, <2>1, <2>2, <2>3, <2>4, <2>5, <2>6, <2>7, <2>8, <2>9 DEF Step, Replay
<1> QED
  BY <1>1, <1>2, <1>3, <1>4 DEF Next

LEMMA ReplayInit == Init => ReplayInv
<1> SUFFICES ASSUME Init PROVE ReplayInv
  OBVIOUS
<1>1. WindowInv /\ OwnPairInv
  BY ResponseTypes DEF Init, WindowInv, OwnPairInv, Reporting, ReplayInsideWindow, ReplayEvents
<1>2. CountInv
  BY DEF Init, CountInv, Reporting, Unstored, ReplayCountsDistinct, ReplayEvents
<1> QED
  BY <1>1, <1>2, LineInit DEF ReplayInv

LEMMA ReplayStep ==
    ASSUME ReplayInv, [Next]_vars, Window > 0
    PROVE  ReplayInv'
<1>1. BaseInv
  BY DEF ReplayInv, LineInv, SingleInv
<1> QED
  BY <1>1, LineInvStep, WindowStep, OwnPairStep, CountStep DEF ReplayInv

-----------------------------------------------------------------------------
(* Without a window a request never meets the cache *)

PlainInv ==
    /\ BaseInv /\ WindowInv /\ OwnPairInv
    /\ \A r \in Requests : pc[r] \notin ReplayPcs
    /\ ReplayEvents = {}
    /\ \A r \in Requests : pc[r] \in Revoking \cup {"idle"} => t0[r] = NoTime
    /\ \A r \in Requests : resp[r] # None => resp[r] = r /\ EventOf(r, "rotated")
    /\ \A r \in Requests : (pc[r] = "done" /\ t0[r] # NoTime) => \E e \in audit : e.req = r

LEMMA PlainInit == Init => PlainInv
<1> SUFFICES ASSUME Init PROVE PlainInv
  OBVIOUS
<1>1. WindowInv /\ OwnPairInv /\ BaseInv
  BY ReplayInit DEF ReplayInv, LineInv, SingleInv
<1> QED
  BY <1>1 DEF Init, PlainInv, ReplayPcs, ReplayEvents

LEMMA PlainStep ==
    ASSUME PlainInv, [Next]_vars, Window = 0
    PROVE  PlainInv'
<1> USE DEF clock, store, locals, revHist
<1>0. TypeOK /\ BaseInv /\ WindowInv /\ OwnPairInv
  BY DEF PlainInv, BaseInv
<1>1. BaseInv' /\ WindowInv' /\ OwnPairInv'
  BY <1>0, GrantStep, WindowStep, OwnPairStep
<1>2. CASE UNCHANGED vars \/ Tick
  BY <1>1, <1>2 DEF vars, Tick, PlainInv, ReplayEvents, EventOf
<1>3. CASE Crash
  BY <1>0, <1>1, <1>3 DEF Crash, PlainInv, ReplayEvents, EventOf, TypeOK, ReplayPcs, Revoking
<1>4. ASSUME NEW r \in Requests, NEW p \in Pairs,
             \/ Arrive(r, p) \/ ArriveRevoke(r, p, refresh) \/ ArriveRevoke(r, p, access)
      PROVE PlainInv'
  BY <1>0, <1>1, <1>4 DEF Arrive, ArriveRevoke, Goto, PlainInv, ReplayEvents, EventOf, TypeOK,
     ReplayPcs, Revoking
<1>5. ASSUME NEW r \in Requests, Step(r)
      PROVE PlainInv'
  <2> USE DEF Goto, TypeOK, PlainInv, ReplayPcs, Revoking
  <2>1. CASE Exchange(r) /\ ~ Respond(r)
    BY <1>0, <1>1, <2>1 DEF Exchange, Fetch, DeleteAccess, DeleteRefresh, CreateAccess,
       CreateRefresh, Commit, Minted, SignIDToken, ExchangeFails, ReplayEvents, EventOf,
       StorePcs, Rotating
  <2>2. CASE Respond(r)
    <3> DEFINE e0 == [req |-> r, action |-> IF out[r].pair = None THEN "failed" ELSE "rotated",
                      tok |-> tok[r], at |-> rotationAt[r], response |-> out[r]]
    <3>1. /\ audit' = audit \cup {e0} /\ pc' = [pc EXCEPT ![r] = "done"]
          /\ resp' = [resp EXCEPT ![r] = out[r].pair] /\ t0' = t0
      BY <2>2 DEF Respond
    <3>2. e0.req = r /\ e0.action # "replayed" /\ (out[r].pair # None => e0.action = "rotated")
      OBVIOUS
    <3>3. out[r].pair \in {None, r}
      BY <1>0, <2>2 DEF Respond, OwnPairInv
    <3> HIDE DEF e0
    <3>4. ReplayEvents' = {}
      BY <3>1, <3>2 DEF ReplayEvents
    <3>5. \A q \in Requests : resp'[q] # None => resp'[q] = q /\ EventOf(q, "rotated")'
      BY <1>0, <3>1, <3>2, <3>3 DEF EventOf
    <3>6. \A q \in Requests : (pc'[q] = "done" /\ t0'[q] # NoTime) => \E e \in audit' : e.req = q
      BY <1>0, <3>1, <3>2
    <3>7. \A q \in Requests : pc'[q] \notin ReplayPcs
                              /\ (pc'[q] \in Revoking \cup {"idle"} => t0'[q] = NoTime)
      BY <1>0, <3>1
    <3> QED
      BY <1>1, <3>4, <3>5, <3>6, <3>7
  <2>3. CASE Replay(r)
    BY <2>3 DEF Replay, FastPath, Join, Recheck, StoreReplay, EndFlight, Follow, EmitReplay
  <2>4. CASE Revoke(r)
    BY <1>0, <1>1, <2>4 DEF Revoke, RevokeRefresh, RevokeAccess, RevokeFails, ReplayEvents, EventOf
  <2> QED
    BY <1>5, <2>1, <2>2, <2>3, <2>4 DEF Step
<1> QED
  BY <1>2, <1>3, <1>4, <1>5 DEF Next

\* replay_count is a count: whatever the lookups of parallel requests, the late
\* followers, the evictions and the restarts, no two replays of a token are
\* reported with the same number.
THEOREM ReplaysAreCounted == Spec => []ReplayCountsDistinct
<1>1. Init => ReplayInv /\ PlainInv
  BY ReplayInit, PlainInit
<1>2. ReplayInv => ReplayCountsDistinct
  BY DEF ReplayInv, CountInv
<1>3. PlainInv => ReplayCountsDistinct
  BY DEF PlainInv, ReplayCountsDistinct
<1>4. CASE Window > 0
  <2>1. ReplayInv /\ [Next]_vars => ReplayInv'
    BY <1>4, ReplayStep
  <2> QED
    BY <1>1, <1>2, <2>1, PTL DEF Spec
<1>5. CASE Window = 0
  <2>1. PlainInv /\ [Next]_vars => PlainInv'
    BY <1>5, PlainStep
  <2> QED
    BY <1>1, <1>3, <2>1, PTL DEF Spec
<1> QED
  BY <1>4, <1>5

-----------------------------------------------------------------------------
(* The audit trail accounts for everybody *)

\* The trail and the clock only grow, and the token and the rotation time of a
\* request that minted a pair are fixed.
LEMMA AuditKept ==
    ASSUME LineInv, [Next]_vars
    PROVE  /\ \A r \in Requests, a \in {"rotated", "failed"} : EventOf(r, a) => EventOf(r, a)'
           /\ \A r \in Requests : (\E e \in audit : e.req = r) => \E e \in audit' : e.req = r
           /\ now <= now' /\ now \in Nat /\ now' \in Nat
           /\ \A p \in Pairs : succ[p] # None =>
                 /\ succ[p] \in Requests /\ tok'[succ[p]] = tok[succ[p]]
                 /\ rotationAt'[succ[p]] = rotationAt[succ[p]] /\ rotationAt[succ[p]] \in Int
<1> USE DEF clock, store, locals, revHist
<1>0. BaseInv /\ TypeOK /\ SuccessorInv /\ TypeOK'
  BY TypeStep DEF LineInv, SingleInv, BaseInv
<1>1. audit \subseteq audit' /\ now <= now'
      /\ \A r \in Requests : pc[r] \in PostMint => rotationAt'[r] = rotationAt[r]
  <2>1. CASE UNCHANGED vars \/ Tick \/ Crash
    BY <1>0, <2>1 DEF vars, Tick, Crash, TypeOK
  <2>2. ASSUME NEW r \in Requests, NEW p \in Pairs,
               \/ Arrive(r, p) \/ ArriveRevoke(r, p, refresh) \/ ArriveRevoke(r, p, access)
        PROVE audit' = audit /\ now' = now /\ rotationAt' = rotationAt
    BY <2>2 DEF Arrive, ArriveRevoke
  <2>3. ASSUME NEW r \in Requests, Step(r), ~ Recheck(r)
        PROVE audit \subseteq audit' /\ now' = now /\ rotationAt' = rotationAt
    BY <2>3 DEF Step, Exchange, Replay, Revoke, Fetch, DeleteAccess, DeleteRefresh,
       CreateAccess, CreateRefresh, Commit, SignIDToken, ExchangeFails, Respond, FastPath, Join,
       StoreReplay, EndFlight, Follow, EmitReplay, RevokeRefresh, RevokeAccess, RevokeFails
  <2>4. ASSUME NEW r \in Requests, Recheck(r)
        PROVE /\ audit' = audit /\ now' = now
              /\ \A q \in Requests : pc[q] \in PostMint => rotationAt'[q] = rotationAt[q]
    BY <1>0, <2>4 DEF Recheck, PostMint, TypeOK
  <2>5. now \in Nat
    BY <1>0 DEF TypeOK
  <2> QED
    BY <2>1, <2>2, <2>3, <2>4, <2>5 DEF Next
<1>2. \A p \in Pairs : succ[p] # None => succ[p] \in Requests /\ pc[succ[p]] \in PostMint
  BY <1>0 DEF TypeOK, SuccessorInv, Settled
<1>3. Kept
  BY <1>0, KeptStep
<1>4. \A p \in Pairs : succ[p] # None =>
         /\ succ[p] \in Requests /\ tok'[succ[p]] = tok[succ[p]]
         /\ rotationAt'[succ[p]] = rotationAt[succ[p]] /\ rotationAt[succ[p]] \in Int
  BY <1>0, <1>1, <1>2, <1>3 DEF Kept, PostMint, TypeOK
<1>5. now \in Nat /\ now' \in Nat
  BY <1>0 DEF TypeOK
<1> QED
  BY <1>1, <1>4, <1>5 DEF EventOf

\* Where an entry comes from, and when it goes.
EntryMoves ==
    /\ \A p \in Pairs : cache'[p].pair # None =>
          \/ cache'[p].pair = cache[p].pair /\ cache'[p].rotatedAt = cache[p].rotatedAt
          \/ \E r \in Requests : /\ pc[r] = "storeReplay" /\ tok[r] = p /\ out[r].pair = r
                                 /\ cache'[p].pair = r /\ cache'[p].rotatedAt = rotationAt[r]
    /\ \A p \in Pairs : (cache[p].pair # None /\ cache'[p].pair = None) =>
          \/ cache[p].rotatedAt + Window <= now
          \/ \A r \in Requests : pc'[r] \notin {"endFlight", "follow"}

LEMMA EntryStep ==
    ASSUME BaseInv, WindowInv, OwnPairInv, [Next]_vars
    PROVE  EntryMoves
<1> USE DEF clock, store, locals, revHist
<1>0. TypeOK
  BY DEF BaseInv
<1>1. CASE cache' = cache
  BY <1>1 DEF EntryMoves
<1>2. CASE Crash
  BY <1>0, <1>2, ResponseTypes DEF Crash, EntryMoves, TypeOK, Running, InFlight
<1>3. ASSUME NEW r \in Requests, NEW t \in Times, pc[r] # "idle", t <= now,
             cache' = [cache EXCEPT ![tok[r]] = AfterLookup(tok[r], t)]
      PROVE  EntryMoves
  <2>1. tok[r] \in Pairs
    BY <1>3, PresentedPair
  <2>2. cache[tok[r]].rotatedAt \in Int /\ now \in Int /\ t \in Int
    BY <1>0, <2>1 DEF TypeOK, Response
  <2>3. \A p \in Pairs \ {tok[r]} : cache'[p] = cache[p]
    BY <1>0, <1>3 DEF TypeOK
  <2>4. cache'[tok[r]] = AfterLookup(tok[r], t)
    BY <1>0, <1>3, <2>1 DEF TypeOK
  <2>5. CASE Hit(tok[r], t)
    <3>1. cache'[tok[r]].pair = cache[tok[r]].pair /\ cache[tok[r]].pair # None
          /\ cache'[tok[r]].rotatedAt = cache[tok[r]].rotatedAt
      BY <1>0, <2>1, <2>4, <2>5, LookupKeeps
    <3> QED
      BY <2>3, <3>1 DEF EntryMoves
  <2>6. CASE ~ Hit(tok[r], t)
    <3>1. cache'[tok[r]].pair = None
          /\ (cache[tok[r]].pair # None => cache[tok[r]].rotatedAt + Window <= t)
      BY <1>0, <2>1, <2>4, <2>6, MissKeeps, ResponseTypes
    <3>2. cache[tok[r]].pair # None => cache[tok[r]].rotatedAt + Window <= now
      BY <1>3, <2>2, <3>1
    <3> QED
      BY <2>3, <3>1, <3>2 DEF EntryMoves
  <2> QED
    BY <2>5, <2>6
<1>4. ASSUME NEW r \in Requests, FastPath(r) \/ Follow(r) PROVE EntryMoves
  BY <1>0, <1>3, <1>4 DEF FastPath, Follow, TypeOK, WindowInv
<1>5. ASSUME NEW r \in Requests, Recheck(r) PROVE EntryMoves
  <2>1. /\ pc[r] # "idle" /\ now \in Times /\ now <= now
        /\ cache' = [cache EXCEPT ![tok[r]] = AfterLookup(tok[r], now)]
    BY <1>0, <1>5 DEF Recheck, TypeOK
  <2> QED
    BY <1>3, <2>1
<1>6. ASSUME NEW r \in Requests, StoreReplay(r) PROVE EntryMoves
  <2>1. tok[r] \in Pairs /\ pc[r] = "storeReplay"
    BY <1>6, PresentedPair DEF StoreReplay
  <2>2. CASE out[r].pair = None
    BY <1>1, <1>6, <2>2 DEF StoreReplay
  <2>3. CASE out[r].pair # None
    <3>1. out[r].pair = r
      BY <2>1, <2>3 DEF OwnPairInv
    <3>2. cache'[tok[r]].pair = r /\ cache'[tok[r]].rotatedAt = rotationAt[r]
      <4>1. cache'[tok[r]] = [out[r] EXCEPT !.rotatedAt = rotationAt[r]]
        BY <1>0, <1>6, <2>1, <2>3 DEF StoreReplay, TypeOK
      <4>2. out[r] \in Response
        BY <1>0 DEF TypeOK
      <4> QED
        BY <3>1, <4>1, <4>2 DEF Response
    <3>3. \A p \in Pairs \ {tok[r]} : cache'[p] = cache[p]
      BY <1>0, <1>6 DEF StoreReplay, TypeOK
    <3>4. cache'[tok[r]].pair # None
      BY <3>2 DEF Pairs
    <3> QED
      BY <2>1, <3>1, <3>2, <3>3, <3>4 DEF EntryMoves
  <2> QED
    BY <2>2, <2>3
<1>7. ASSUME NEW r \in Requests, Step(r),
             ~ FastPath(r), ~ Follow(r), ~ Recheck(r), ~ StoreReplay(r)
      PROVE  cache' = cache
  BY <1>7 DEF Step, Exchange, Replay, Revoke, Fetch, DeleteAccess, DeleteRefresh,
     CreateAccess, CreateRefresh, Commit, SignIDToken, ExchangeFails, Respond, Join,
     EndFlight, EmitReplay, RevokeRefresh, RevokeAccess, RevokeFails
<1>8. ASSUME NEW r \in Requests, NEW p \in Pairs,
             \/ Arrive(r, p) \/ ArriveRevoke(r, p, refresh) \/ ArriveRevoke(r, p, access)
      PROVE cache' = cache
  BY <1>8 DEF Arrive, ArriveRevoke
<1>9. CASE UNCHANGED vars \/ Tick
  BY <1>1, <1>9 DEF vars, Tick
<1> QED
  BY <1>1, <1>2, <1>4, <1>5, <1>6, <1>7, <1>8, <1>9 DEF Next

\* Where the outcome a request shares comes from.
ShareMoves ==
    \A r \in Requests :
        /\ (pc'[r] \in Sharing /\ out'[r].pair # None) =>
              \/ pc[r] \in Sharing /\ out'[r].pair = out[r].pair
              \/ pc[r] # "idle" /\ out'[r].pair = cache[tok[r]].pair
              \/ pc[r] = "wait" /\ \E q \in Requests :
                    pc[q] = "endFlight" /\ tok[q] = tok[r] /\ out'[r].pair = out[q].pair
              \/ pc[r] = "respond" /\ out'[r].pair = r /\ EventOf(r, "rotated")'
        /\ (pc'[r] \in {"storeReplay", "endFlight"} /\ r \notin isReplay' /\ out'[r].pair = None) =>
              \/ EventOf(r, "failed")'
              \/ pc[r] \in {"storeReplay", "endFlight"} /\ r \notin isReplay /\ out[r].pair = None
        /\ (pc'[r] = "follow" /\ out'[r].pair = None) =>
              \/ pc[r] = "follow" /\ out[r].pair = None
              \/ pc[r] = "wait" /\ \E q \in Requests :
                    pc[q] = "endFlight" /\ tok[q] = tok[r] /\ out[q].pair = None
        /\ (pc'[r] \in {"endFlight", "follow"} /\ out'[r].pair # None) =>
              \/ pc[r] \in {"endFlight", "follow"} /\ out'[r].pair = out[r].pair
              \/ pc[r] # "idle" /\ cache'[tok[r]].pair # None
              \/ pc[r] = "wait" /\ \E q \in Requests :
                    pc[q] = "endFlight" /\ tok[q] = tok[r] /\ out'[r].pair = out[q].pair

\* Where the answer of a request comes from, and how a request ends.
EndMoves ==
    \A r \in Requests :
        /\ resp'[r] # None =>
              \/ resp'[r] = resp[r]
              \/ pc[r] \in Sharing /\ resp'[r] = out[r].pair
              \/ pc[r] # "idle" /\ resp'[r] = cache[tok[r]].pair
        /\ (pc'[r] = "done" /\ t0'[r] # NoTime) =>
              \/ pc[r] = "done" /\ t0[r] # NoTime /\ resp'[r] = resp[r]
              \/ pc[r] \in Revoking \cup {"idle"} /\ t0[r] # NoTime
              \/ \E e \in audit' : e.req = r
              \/ pc[r] = "endFlight" /\ r \notin isReplay
              \/ pc[r] = "follow" /\ ~ Hit(tok[r], t0[r]) /\ resp'[r] = out[r].pair
        /\ pc'[r] \in Revoking \cup {"idle"} =>
              pc[r] \in Revoking \cup {"idle"} /\ t0'[r] = t0[r]

LEMMA AuditMovesStep ==
    ASSUME BaseInv, WindowInv, OwnPairInv, [Next]_vars, Window > 0
    PROVE  ShareMoves /\ EndMoves
<1> USE DEF clock, store, locals, revHist
<1>0. TypeOK
  BY DEF BaseInv
<1>1. CASE UNCHANGED vars \/ Tick
  BY <1>1 DEF vars, Tick, ShareMoves, EndMoves
<1>2. CASE Crash
  BY <1>0, <1>2 DEF Crash, ShareMoves, EndMoves, TypeOK, Sharing, Running, InFlight, Revoking
<1>3. ASSUME NEW r \in Requests, NEW p \in Pairs,
             \/ Arrive(r, p) \/ ArriveRevoke(r, p, refresh) \/ ArriveRevoke(r, p, access)
      PROVE ShareMoves /\ EndMoves
  BY <1>0, <1>3 DEF Arrive, ArriveRevoke, Goto, ShareMoves, EndMoves, TypeOK, Sharing, Revoking
<1>4. ASSUME NEW r \in Requests, Step(r)
      PROVE ShareMoves /\ EndMoves
  <2> USE DEF Goto, TypeOK, Sharing, Revoking
  <2>0. pc[r] # "idle" => tok[r] \in Pairs
    BY <1>0, PresentedPair
  <2>1. CASE Exchange(r) /\ ~ Respond(r)
    BY <1>0, <2>1, ResponseTypes DEF Exchange, Fetch, DeleteAccess, DeleteRefresh, CreateAccess,
       CreateRefresh, Commit, Minted, SignIDToken, ExchangeFails, StorePcs, Rotating,
       ShareMoves, EndMoves
  <2>2. CASE Respond(r)
    <3>1. /\ pc[r] = "respond" /\ pc' = [pc EXCEPT ![r] = "storeReplay"] /\ resp' = resp
          /\ out' = out /\ t0' = t0 /\ cache' = cache /\ isReplay' = isReplay /\ audit \subseteq audit'
      BY <2>2 DEF Respond
    <3> DEFINE e0 == [req |-> r, action |-> IF out[r].pair = None THEN "failed" ELSE "rotated",
                      tok |-> tok[r], at |-> rotationAt[r], response |-> out[r]]
    <3>11. e0 \in audit'
      BY <2>2 DEF Respond
    <3>12. e0.req = r /\ e0.action = (IF out[r].pair = None THEN "failed" ELSE "rotated")
      OBVIOUS
    <3> HIDE DEF e0
    <3>2. out[r].pair = None => EventOf(r, "failed")'
      BY <3>11, <3>12 DEF EventOf
    <3>3. out[r].pair # None => out[r].pair = r /\ EventOf(r, "rotated")'
      BY <3>1, <3>11, <3>12 DEF EventOf, OwnPairInv
    <3>4. EndMoves
      BY <1>0, <3>1 DEF EndMoves
    <3>5. ShareMoves
      BY <1>0, <3>1, <3>2, <3>3 DEF ShareMoves
    <3> QED
      BY <3>4, <3>5
  <2>3. CASE FastPath(r)
    <3>1. pc[r] # "idle" /\ tok[r] \in Pairs /\ t0[r] \in Times
      BY <1>0, <2>0, <2>3 DEF FastPath
    <3>2. Hit(tok[r], t0[r]) => cache'[tok[r]].pair = cache[tok[r]].pair
      BY <1>0, <2>3, <3>1, LookupType DEF FastPath
    <3> QED
      BY <1>0, <2>3, <3>1, <3>2 DEF FastPath, ShareMoves, EndMoves
  <2>4. CASE Join(r)
    BY <1>0, <2>4 DEF Join, ShareMoves, EndMoves
  <2>5. CASE Recheck(r)
    <3>1. pc[r] # "idle" /\ tok[r] \in Pairs /\ now \in Times
      BY <1>0, <2>0, <2>5 DEF Recheck
    <3>2. Hit(tok[r], now) => cache'[tok[r]].pair = cache[tok[r]].pair /\ cache[tok[r]].pair # None
      BY <1>0, <2>5, <3>1, LookupType DEF Recheck, Hit
    <3> QED
      BY <1>0, <2>5, <3>1, <3>2 DEF Recheck, ShareMoves, EndMoves
  <2>6. CASE StoreReplay(r)
    <3>1. pc[r] # "idle" /\ tok[r] \in Pairs /\ r \notin isReplay
      BY <1>0, <2>0, <2>6 DEF StoreReplay, WindowInv
    <3>2. out[r].pair # None => cache'[tok[r]].pair # None
      <4>1. out[r] \in Response
        BY <1>0
      <4> QED
        BY <1>0, <2>6, <3>1, <4>1 DEF StoreReplay, Response
    <3>3. /\ pc[r] = "storeReplay" /\ pc' = [pc EXCEPT ![r] = "endFlight"] /\ resp' = resp
          /\ out' = out /\ t0' = t0 /\ isReplay' = isReplay /\ audit' = audit
      BY <2>6 DEF StoreReplay
    <3> QED
      BY <1>0, <3>1, <3>2, <3>3 DEF ShareMoves, EndMoves
  <2>7. CASE EndFlight(r)
    <3>1. ShareMoves
      BY <1>0, <2>7 DEF EndFlight, Followers, ShareMoves
    <3>2. EndMoves
      BY <1>0, <2>7 DEF EndFlight, Followers, EndMoves
    <3> QED
      BY <3>1, <3>2
  <2>8. CASE Follow(r)
    <3>1. pc[r] # "idle" /\ tok[r] \in Pairs /\ t0[r] \in Times
      BY <1>0, <2>0, <2>8 DEF Follow
    <3>2. Hit(tok[r], t0[r]) => cache'[tok[r]].pair = cache[tok[r]].pair
      BY <1>0, <2>8, <3>1, LookupType DEF Follow
    <3> QED
      BY <1>0, <2>8, <3>1, <3>2 DEF Follow, ShareMoves, EndMoves
  <2>9. CASE EmitReplay(r)
    <3> DEFINE e0 == [req |-> r, action |-> "replayed", tok |-> tok[r], at |-> t0[r],
                      response |-> out[r]]
    <3>11. e0 \in audit' /\ e0.req = r
      BY <2>9 DEF EmitReplay
    <3> HIDE DEF e0
    <3>1. \E e \in audit' : e.req = r
      BY <3>11
    <3>2. /\ pc[r] = "emitReplay" /\ pc' = [pc EXCEPT ![r] = "done"] /\ resp' = [resp EXCEPT ![r] = out[r].pair]
          /\ out' = out /\ t0' = t0 /\ isReplay' = isReplay /\ cache' = cache
      BY <2>9 DEF EmitReplay
    <3> QED
      BY <1>0, <3>1, <3>2 DEF ShareMoves, EndMoves
  <2>10. CASE Revoke(r)
    BY <1>0, <2>10 DEF Revoke, RevokeRefresh, RevokeAccess, RevokeFails, ShareMoves, EndMoves
  <2> QED
    BY <1>4, <2>1, <2>2, <2>3, <2>4, <2>5, <2>6, <2>7, <2>8, <2>9, <2>10 DEF Step, Replay
<1> QED
  BY <1>1, <1>2, <1>3, <1>4 DEF Next

\* An event is given to the emitter by a request that has arrived.
LEMMA EventStep ==
    ASSUME BaseInv, [Next]_vars
    PROVE  \A e \in audit' : e \in audit \/ (e.req \in Requests /\ pc[e.req] # "idle")
<1> USE DEF clock, store, locals, revHist
<1>1. CASE UNCHANGED vars \/ Tick \/ Crash
  BY <1>1 DEF vars, Tick, Crash
<1>2. ASSUME NEW r \in Requests, NEW p \in Pairs,
             \/ Arrive(r, p) \/ ArriveRevoke(r, p, refresh) \/ ArriveRevoke(r, p, access)
      PROVE audit' = audit
  BY <1>2 DEF Arrive, ArriveRevoke
<1>3. ASSUME NEW r \in Requests, Step(r), ~ Respond(r), ~ EmitReplay(r)
      PROVE audit' = audit
  BY <1>3 DEF Step, Exchange, Replay, Revoke, Fetch, DeleteAccess, DeleteRefresh,
     CreateAccess, CreateRefresh, Commit, SignIDToken, ExchangeFails, FastPath, Join, Recheck,
     StoreReplay, EndFlight, Follow, RevokeRefresh, RevokeAccess, RevokeFails
<1>4. ASSUME NEW r \in Requests, NEW d, d.req = r, audit' = audit \cup {d}, pc[r] # "idle"
      PROVE  \A e \in audit' : e \in audit \/ (e.req \in Requests /\ pc[e.req] # "idle")
  BY <1>4
<1>5. ASSUME NEW r \in Requests, Respond(r) \/ EmitReplay(r)
      PROVE  \A e \in audit' : e \in audit \/ (e.req \in Requests /\ pc[e.req] # "idle")
  <2> DEFINE e0(a, t) == [req |-> r, action |-> a, tok |-> tok[r], at |-> t, response |-> out[r]]
  <2>1. pc[r] # "idle" /\ \A a, t : e0(a, t).req = r
    BY <1>5 DEF Respond, EmitReplay
  <2>2. \E a, t : audit' = audit \cup {e0(a, t)}
    BY <1>5 DEF Respond, EmitReplay
  <2> HIDE DEF e0
  <2> QED
    BY <1>4, <2>1, <2>2
<1> QED
  BY <1>1, <1>2, <1>3, <1>5 DEF Next

AuditedInv == ReplayInv /\ AuditInv

LEMMA AuditStep ==
    ASSUME AuditedInv, [Next]_vars, Window > 0
    PROVE  AuditInv'
<1>0. /\ BaseInv /\ TypeOK /\ SuccessorInv /\ AnswerInv /\ LineInv /\ WindowInv /\ OwnPairInv
      /\ AuditInv /\ BaseInv' /\ SuccessorInv' /\ TypeOK'
  BY LineInvStep DEF AuditedInv, ReplayInv, LineInv, SingleInv, BaseInv
<1>1. /\ \A r \in Requests, a \in {"rotated", "failed"} : EventOf(r, a) => EventOf(r, a)'
      /\ \A r \in Requests : (\E e \in audit : e.req = r) => \E e \in audit' : e.req = r
      /\ now <= now' /\ now \in Nat /\ now' \in Nat
      /\ \A p \in Pairs : succ[p] # None =>
            /\ succ[p] \in Requests /\ tok'[succ[p]] = tok[succ[p]]
            /\ rotationAt'[succ[p]] = rotationAt[succ[p]] /\ rotationAt[succ[p]] \in Int
  BY <1>0, AuditKept
<1>2. EntryMoves /\ ShareMoves /\ EndMoves
  BY <1>0, EntryStep, AuditMovesStep
<1>3. \A r \in Requests : pc[r] # "idle" => pc'[r] # "idle" /\ tok'[r] = tok[r] /\ tok[r] \in Pairs
  BY <1>0, KeptStep, PresentedPair DEF Kept
<1>4. \A r \in Requests : EventOf(r, "failed") => pc[r] # "idle" /\ tok'[r] = tok[r] /\ EventOf(r, "failed")'
  BY <1>0, <1>1, <1>3 DEF AuditInv, EventOf
<1>5. ASSUME NEW p \in Pairs, cache[p].pair # None
      PROVE  /\ cache[p].pair = succ[p] /\ cache[p].pair \in Requests
             /\ \E e \in audit : e.req = succ[p] /\ e.action = "rotated"
             /\ tok[succ[p]] = p /\ cache[p].rotatedAt = rotationAt[succ[p]]
  BY <1>0, <1>1, <1>5 DEF SuccessorInv, AuditInv, Accounted, EventOf
<1>6. ASSUME NEW r \in Requests, pc[r] \in Sharing, out[r].pair # None
      PROVE  /\ out[r].pair = succ[tok[r]] /\ out[r].pair \in Requests /\ tok[r] \in Pairs
             /\ \E e \in audit : e.req = succ[tok[r]] /\ e.action = "rotated"
             /\ tok[succ[tok[r]]] = tok[r]
  BY <1>0, <1>1, <1>3, <1>6 DEF SuccessorInv, AuditInv, Accounted, EventOf, Sharing
\* The successor of a token, once it is in the trail, stays there.
<1>7. ASSUME NEW p \in Pairs, NEW x \in Requests, x = succ[p], tok[x] = p,
             \E e \in audit : e.req = x /\ e.action = "rotated"
      PROVE  EventOf(x, "rotated")' /\ tok'[x] = p /\ rotationAt'[x] = rotationAt[x]
  <2>1. EventOf(x, "rotated")
    BY <1>7 DEF EventOf
  <2>2. x # None
    BY DEF Pairs
  <2> QED
    BY <1>1, <1>7, <2>1, <2>2
<1>8. ASSUME NEW p \in Pairs, NEW x, x = cache'[p].pair, x # None
      PROVE  EventOf(x, "rotated")' /\ tok'[x] = p /\ cache'[p].rotatedAt = rotationAt'[x]
  <2>1. CASE cache'[p].pair = cache[p].pair /\ cache'[p].rotatedAt = cache[p].rotatedAt
    BY <1>5, <1>7, <1>8, <2>1
  <2>2. ASSUME NEW r \in Requests, pc[r] = "storeReplay", tok[r] = p, out[r].pair = r,
               cache'[p].pair = r, cache'[p].rotatedAt = rotationAt[r]
        PROVE  EventOf(x, "rotated")' /\ tok'[x] = p /\ cache'[p].rotatedAt = rotationAt'[x]
    BY <1>6, <1>7, <1>8, <2>2 DEF Sharing
  <2> QED
    BY <1>2, <1>8, <2>1, <2>2 DEF EntryMoves
<1>9. ASSUME NEW r \in Requests, pc[r] \in Sharing, NEW x, x = out[r].pair, x # None
      PROVE  EventOf(x, "rotated")' /\ tok'[x] = tok[r]
  BY <1>6, <1>7, <1>9
<1>10. ASSUME NEW p \in Pairs, NEW x, x = cache[p].pair, x # None
       PROVE  EventOf(x, "rotated")' /\ tok'[x] = p
  BY <1>5, <1>7, <1>10
<1>11. ASSUME NEW r \in Requests, pc'[r] \in Sharing, NEW x, x = out'[r].pair, x # None
       PROVE  EventOf(x, "rotated")' /\ tok'[x] = tok'[r]
  <2>1. CASE pc[r] \in Sharing /\ out'[r].pair = out[r].pair
    BY <1>3, <1>9, <1>11, <2>1 DEF Sharing
  <2>2. CASE pc[r] # "idle" /\ out'[r].pair = cache[tok[r]].pair
    BY <1>3, <1>10, <1>11, <2>2
  <2>3. ASSUME pc[r] = "wait", NEW q \in Requests, pc[q] = "endFlight", tok[q] = tok[r],
               out'[r].pair = out[q].pair
        PROVE  EventOf(x, "rotated")' /\ tok'[x] = tok'[r]
    BY <1>3, <1>9, <1>11, <2>3 DEF Sharing
  <2>4. CASE pc[r] = "respond" /\ out'[r].pair = r /\ EventOf(r, "rotated")'
    BY <1>11, <2>4
  <2> QED
    BY <1>2, <1>11, <2>1, <2>2, <2>3, <2>4 DEF ShareMoves
<1>12. ASSUME NEW r \in Requests, pc'[r] \in {"storeReplay", "endFlight"}, r \notin isReplay',
              out'[r].pair = None
       PROVE  EventOf(r, "failed")'
  BY <1>0, <1>1, <1>2, <1>12 DEF ShareMoves, AuditInv
<1>13. ASSUME NEW r \in Requests, pc'[r] = "follow", out'[r].pair = None
       PROVE  \E q \in Requests : tok'[q] = tok'[r] /\ EventOf(q, "failed")'
  <2>1. CASE pc[r] = "follow" /\ out[r].pair = None
    <3>1. PICK q \in Requests : tok[q] = tok[r] /\ EventOf(q, "failed")
      BY <1>0, <2>1 DEF AuditInv
    <3> QED
      BY <1>3, <1>4, <2>1, <3>1
  <2>2. ASSUME pc[r] = "wait", NEW q \in Requests, pc[q] = "endFlight", tok[q] = tok[r],
               out[q].pair = None
        PROVE  \E s \in Requests : tok'[s] = tok'[r] /\ EventOf(s, "failed")'
    <3>1. q \notin isReplay
      BY <1>0, <2>2 DEF AnswerInv
    <3>2. EventOf(q, "failed")
      BY <1>0, <2>2, <3>1 DEF AuditInv
    <3> QED
      BY <1>3, <1>4, <2>2, <3>2
  <2> QED
    BY <1>2, <1>13, <2>1, <2>2 DEF ShareMoves
<1>14. ASSUME NEW r \in Requests, pc[r] \in {"endFlight", "follow"}, out[r].pair # None,
              cache'[tok[r]].pair = None, \E q \in Requests : pc'[q] \in {"endFlight", "follow"}
       PROVE  rotationAt'[out[r].pair] + Window <= now'
  <2>1. /\ out[r].pair = succ[tok[r]] /\ out[r].pair \in Requests /\ tok[r] \in Pairs
        /\ rotationAt'[out[r].pair] = rotationAt[out[r].pair] /\ rotationAt[out[r].pair] \in Int
    BY <1>1, <1>6, <1>14 DEF Sharing, Pairs
  <2>2. cache[tok[r]].pair # None \/ rotationAt[out[r].pair] + Window <= now
    BY <1>0, <1>14 DEF AuditInv
  <2>3. CASE cache[tok[r]].pair # None
    <3>1. cache[tok[r]].rotatedAt = rotationAt[out[r].pair]
      BY <1>5, <2>1, <2>3
    <3>2. cache[tok[r]].rotatedAt + Window <= now
      BY <1>2, <1>14, <2>1, <2>3 DEF EntryMoves
    <3> QED
      BY <1>1, <2>1, <3>1, <3>2
  <2>4. CASE rotationAt[out[r].pair] + Window <= now
    BY <1>1, <2>1, <2>4
  <2> QED
    BY <2>2, <2>3, <2>4
<1>15. ASSUME NEW r \in Requests, pc'[r] \in {"endFlight", "follow"}, out'[r].pair # None
       PROVE  cache'[tok'[r]].pair # None \/ rotationAt'[out'[r].pair] + Window <= now'
  <2>0. pc[r] # "idle" => tok'[r] = tok[r]
    BY <1>3
  <2>1. CASE pc[r] \in {"endFlight", "follow"} /\ out'[r].pair = out[r].pair
    BY <1>14, <1>15, <2>0, <2>1
  <2>2. CASE pc[r] # "idle" /\ cache'[tok[r]].pair # None
    BY <2>0, <2>2
  <2>3. ASSUME pc[r] = "wait", NEW q \in Requests, pc[q] = "endFlight", tok[q] = tok[r],
               out'[r].pair = out[q].pair
        PROVE  cache'[tok'[r]].pair # None \/ rotationAt'[out'[r].pair] + Window <= now'
    BY <1>14, <1>15, <2>0, <2>3
  <2> QED
    BY <1>2, <1>15, <2>1, <2>2, <2>3 DEF ShareMoves
<1>16. ASSUME NEW r \in Requests, NEW x, x = resp'[r], x # None
       PROVE  EventOf(x, "rotated")' /\ tok'[x] = tok'[r]
  <2>1. CASE resp'[r] = resp[r]
    <3>1. pc[r] # "idle" /\ x = succ[tok[r]]
      BY <1>0, <1>16, <2>1 DEF SuccessorInv
    <3>2. tok[r] \in Pairs /\ tok'[r] = tok[r] /\ x \in Requests
      BY <1>1, <1>3, <1>16, <3>1
    <3>3. tok[x] = tok[r] /\ \E e \in audit : e.req = x /\ e.action = "rotated"
      BY <1>0, <1>16, <2>1 DEF AuditInv, MintingAudited, EventOf
    <3> QED
      BY <1>7, <3>1, <3>2, <3>3
  <2>2. CASE pc[r] \in Sharing /\ resp'[r] = out[r].pair
    BY <1>3, <1>9, <1>16, <2>2 DEF Sharing
  <2>3. CASE pc[r] # "idle" /\ resp'[r] = cache[tok[r]].pair
    BY <1>3, <1>10, <1>16, <2>3
  <2> QED
    BY <1>2, <1>16, <2>1, <2>2, <2>3 DEF EndMoves
<1> DEFINE Explained(r) ==
        \/ \E e \in audit' : e.req = r
        \/ resp'[r] = None /\ \E q \in Requests : tok'[q] = tok'[r] /\ EventOf(q, "failed")'
        \/ resp'[r] # None /\ rotationAt'[resp'[r]] + Window <= now'
<1>17. ASSUME NEW r \in Requests, pc'[r] = "done", t0'[r] # NoTime
       PROVE  Explained(r)
  <2>1. CASE pc[r] = "done" /\ t0[r] # NoTime /\ resp'[r] = resp[r]
    <3>1. tok'[r] = tok[r]
      BY <1>3, <2>1
    <3>2. CASE \E e \in audit : e.req = r
      BY <1>1, <3>2
    <3>3. CASE resp[r] = None /\ \E q \in Requests : tok[q] = tok[r] /\ EventOf(q, "failed")
      BY <1>4, <2>1, <3>1, <3>3
    <3>4. CASE resp[r] # None /\ rotationAt[resp[r]] + Window <= now
      <4>1. resp[r] = succ[tok[r]] /\ tok[r] \in Pairs
        BY <1>0, <1>3, <2>1, <3>4 DEF SuccessorInv
      <4>2. rotationAt'[resp[r]] = rotationAt[resp[r]] /\ rotationAt[resp[r]] \in Int
        BY <1>1, <3>4, <4>1
      <4> QED
        BY <1>1, <2>1, <3>4, <4>2
    <3> QED
      BY <1>0, <2>1, <3>2, <3>3, <3>4 DEF AuditInv, OnlyLateOrFailedUnaudited
  <2>2. CASE pc[r] \in Revoking \cup {"idle"} /\ t0[r] # NoTime
    BY <1>0, <2>2 DEF AuditInv
  <2>3. CASE \E e \in audit' : e.req = r
    BY <2>3
  <2>4. CASE pc[r] = "endFlight" /\ r \notin isReplay
    <3>1. out[r].pair \in {None, r}
      BY <1>0, <2>4 DEF OwnPairInv
    <3>2. CASE out[r].pair = None
      <4>1. EventOf(r, "failed")'
        BY <1>0, <1>1, <2>4, <3>2 DEF AuditInv
      <4> QED
        BY <4>1 DEF EventOf
    <3>3. CASE out[r].pair = r /\ out[r].pair # None
      <4>1. EventOf(r, "rotated")'
        BY <1>9, <2>4, <3>3 DEF Sharing
      <4> QED
        BY <4>1 DEF EventOf
    <3> QED
      BY <3>1, <3>2, <3>3
  <2>5. CASE pc[r] = "follow" /\ ~ Hit(tok[r], t0[r]) /\ resp'[r] = out[r].pair
    <3>0. tok[r] \in Pairs /\ tok'[r] = tok[r] /\ t0[r] \in Times /\ t0[r] <= now
      BY <1>0, <1>3, <2>5 DEF TypeOK, WindowInv
    <3>1. CASE out[r].pair = None
      <4>1. PICK q \in Requests : tok[q] = tok[r] /\ EventOf(q, "failed")
        BY <1>0, <2>5, <3>1 DEF AuditInv
      <4> QED
        BY <1>4, <2>5, <3>0, <3>1, <4>1
    <3>2. CASE out[r].pair # None
      <4>1. /\ out[r].pair = succ[tok[r]]
            /\ rotationAt'[out[r].pair] = rotationAt[out[r].pair] /\ rotationAt[out[r].pair] \in Int
        BY <1>1, <1>6, <2>5, <3>2 DEF Sharing, Pairs
      <4>2. CASE cache[tok[r]].pair # None
        <5>1. cache[tok[r]].rotatedAt = rotationAt[out[r].pair]
          BY <1>5, <3>0, <4>1, <4>2
        <5>2. cache[tok[r]].rotatedAt + Window <= t0[r]
          BY <1>0, <2>5, <3>0, <4>2, MissKeeps
        <5> QED
          BY <1>1, <2>5, <3>0, <3>2, <4>1, <5>1, <5>2
      <4>3. CASE rotationAt[out[r].pair] + Window <= now
        BY <1>1, <2>5, <3>2, <4>1, <4>3
      <4> QED
        BY <1>0, <2>5, <3>2, <4>2, <4>3 DEF AuditInv
    <3> QED
      BY <3>1, <3>2
  <2> QED
    BY <1>2, <1>17, <2>1, <2>2, <2>3, <2>4, <2>5 DEF EndMoves
<1>18. (MintingAudited /\ OnlyLateOrFailedUnaudited)'
  <2>1. ASSUME NEW r \in Requests, resp'[r] # None
        PROVE  EventOf(resp[r], "rotated")' /\ tok'[resp'[r]] = tok'[r]
    BY <1>16, <2>1 DEF EventOf
  <2> QED
    BY <1>17, <2>1 DEF MintingAudited, OnlyLateOrFailedUnaudited
<1>19. /\ \A e \in audit' : pc'[e.req] # "idle"
       /\ \A r \in Requests : pc'[r] \in Revoking \cup {"idle"} => t0'[r] = NoTime
  <2>1. \A e \in audit' : e.req \in Requests /\ (e \in audit \/ pc[e.req] # "idle")
    <3>1. audit' \subseteq Event
      BY <1>0 DEF TypeOK
    <3> QED
      BY <1>0, <3>1, EventStep DEF Event
  <2>2. \A e \in audit' : pc'[e.req] # "idle"
    BY <1>0, <1>3, <2>1 DEF AuditInv
  <2> QED
    BY <1>0, <1>2, <2>2 DEF AuditInv, EndMoves
<1>20. \A p \in Pairs : cache'[p].pair # None =>
          Accounted(cache[p].pair, p)' /\ cache'[p].rotatedAt = rotationAt'[cache'[p].pair]
  BY <1>8 DEF Accounted, EventOf
<1>21. \A r \in Requests : (pc'[r] \in Sharing /\ out'[r].pair # None) =>
          Accounted(out[r].pair, tok[r])'
  BY <1>11 DEF Accounted, EventOf
<1> QED
  BY <1>12, <1>13, <1>15, <1>18, <1>19, <1>20, <1>21 DEF AuditInv

LEMMA AuditInits == Init => AuditedInv /\ PlainInv
<1> SUFFICES ASSUME Init PROVE AuditInv
  BY ReplayInit, PlainInit DEF AuditedInv
<1> QED
  BY ResponseTypes DEF Init, AuditInv, MintingAudited, OnlyLateOrFailedUnaudited, Sharing,
     Revoking

LEMMA AuditedInvariant == ASSUME Window > 0 PROVE Spec => []AuditedInv
<1>1. AuditedInv /\ [Next]_vars => AuditedInv'
  BY ReplayStep, AuditStep DEF AuditedInv
<1> QED
  BY <1>1, AuditInits, PTL DEF Spec

LEMMA PlainInvariant == ASSUME Window = 0 PROVE Spec => []PlainInv
<1>1. PlainInv /\ [Next]_vars => PlainInv'
  BY PlainStep
<1> QED
  BY <1>1, AuditInits, PTL DEF Spec

\* No client holds a pair whose minting the audit emitter was not given.
THEOREM MintingIsAudited == Spec => []MintingAudited
<1>1. AuditedInv => MintingAudited
  BY DEF AuditedInv, AuditInv
<1>2. PlainInv => MintingAudited
  BY DEF PlainInv, MintingAudited
<1>3. CASE Window > 0
  BY <1>1, <1>3, AuditedInvariant, PTL
<1>4. CASE Window = 0
  BY <1>2, <1>4, PlainInvariant, PTL
<1> QED
  BY <1>3, <1>4

\* The requests answered without an event of their own are of two kinds: those of
\* a leader whose failure is in the trail, and those answered after the window of
\* the rotation they share had closed.
THEOREM AuditGapIsKnown == Spec => []OnlyLateOrFailedUnaudited
<1>1. AuditedInv => OnlyLateOrFailedUnaudited
  BY DEF AuditedInv, AuditInv
<1>2. PlainInv => OnlyLateOrFailedUnaudited
  BY DEF PlainInv, OnlyLateOrFailedUnaudited
<1>3. CASE Window > 0
  BY <1>1, <1>3, AuditedInvariant, PTL
<1>4. CASE Window = 0
  BY <1>2, <1>4, PlainInvariant, PTL
<1> QED
  BY <1>3, <1>4

-----------------------------------------------------------------------------
(* Grants survive failures and restarts on a transactional store *)

\* The refresh rows of a transactional store move by whole rotations and by
\* revocations.
LEMMA TransactionalMoves ==
    ASSUME BaseInv, Transactional, [Next]_vars
    PROVE  \/ refresh' = refresh /\ revoking \subseteq revoking'
           \/ \E r \in Requests : pc[r] = "commit" /\ revoking' = revoking
                 /\ refresh' = (refresh \ RowsOf(grant[r], refresh)) \cup {r}
           \/ \E r \in Requests : pc[r] = "revokeRefresh"
                 /\ revoking' = revoking \cup {grant[r]}
                 /\ refresh' = refresh \ RowsOf(grant[r], refresh)
<1> USE DEF clock, store, locals, revHist
<1>1. CASE UNCHANGED vars \/ Tick \/ Crash
  BY <1>1 DEF vars, Tick, Crash
<1>2. ASSUME NEW r \in Requests, NEW p \in Pairs,
             \/ Arrive(r, p) \/ ArriveRevoke(r, p, refresh) \/ ArriveRevoke(r, p, access)
      PROVE refresh' = refresh /\ revoking \subseteq revoking'
  BY <1>2 DEF Arrive, ArriveRevoke
<1>3. ASSUME NEW r \in Requests, Commit(r)
      PROVE pc[r] = "commit" /\ revoking' = revoking
            /\ refresh' = (refresh \ RowsOf(grant[r], refresh)) \cup {r}
  BY <1>3 DEF Commit
<1>4. ASSUME NEW r \in Requests, RevokeRefresh(r)
      PROVE pc[r] = "revokeRefresh" /\ revoking' = revoking \cup {grant[r]}
            /\ refresh' = refresh \ RowsOf(grant[r], refresh)
  BY <1>4 DEF RevokeRefresh
<1>5. ASSUME NEW r \in Requests, Step(r), ~ Commit(r), ~ RevokeRefresh(r)
      PROVE refresh' = refresh /\ revoking \subseteq revoking'
  BY <1>5 DEF Step, Exchange, Replay, Revoke, Fetch, DeleteAccess, DeleteRefresh,
     CreateAccess, CreateRefresh, SignIDToken, ExchangeFails, Respond, FastPath, Join,
     Recheck, StoreReplay, EndFlight, Follow, EmitReplay, RevokeAccess, RevokeFails
<1> QED
  BY <1>1, <1>2, <1>3, <1>4, <1>5 DEF Next

LEMMA SurvivesStep ==
    ASSUME BaseInv, GrantSurvives, [Next]_vars
    PROVE  GrantSurvives'
<1> SUFFICES ASSUME Transactional, NEW f \in Families, f \notin revoking'
             PROVE  \E p \in refresh' : grant'[p] = f
  BY DEF GrantSurvives
<1>1. Kept
  BY KeptStep
<1>2. \A p \in refresh : grant'[p] = grant[p]
  BY <1>1 DEF BaseInv, GrantInv, TypeOK, Kept
<1>3. CASE refresh' = refresh /\ revoking \subseteq revoking'
  BY <1>2, <1>3 DEF GrantSurvives
<1>4. ASSUME NEW r \in Requests, pc[r] = "commit", revoking' = revoking,
             refresh' = (refresh \ RowsOf(grant[r], refresh)) \cup {r}
      PROVE  \E p \in refresh' : grant'[p] = f
  <2>1. grant'[r] = grant[r] /\ r \in refresh'
    BY <1>1, <1>4 DEF Kept
  <2>2. CASE grant[r] = f
    BY <2>1, <2>2
  <2>3. CASE grant[r] # f
    <3>1. PICK p \in refresh : grant[p] = f
      BY <1>4 DEF GrantSurvives
    <3>2. p \in refresh'
      BY <1>4, <2>3, <3>1 DEF RowsOf
    <3> QED
      BY <1>2, <3>1, <3>2
  <2> QED
    BY <2>2, <2>3
<1>5. ASSUME NEW r \in Requests, pc[r] = "revokeRefresh", revoking' = revoking \cup {grant[r]},
             refresh' = refresh \ RowsOf(grant[r], refresh)
      PROVE  \E p \in refresh' : grant'[p] = f
  <2>1. PICK p \in refresh : grant[p] = f
    BY <1>5 DEF GrantSurvives
  <2>2. p \in refresh'
    BY <1>5, <2>1 DEF RowsOf
  <2> QED
    BY <1>2, <2>1, <2>2
<1> QED
  BY <1>3, <1>4, <1>5, TransactionalMoves

\* Over a TransactionalStore no failure, restart or overlap leaves a grant that
\* was not revoked without a refresh token that works, with a window or without.
THEOREM GrantsSurviveFailures == Spec => []GrantSurvives
<1>1. Init => BaseInv /\ GrantSurvives
  BY BaseInit DEF Init, GrantSurvives, Pairs
<1>2. BaseInv /\ GrantSurvives /\ [Next]_vars => (BaseInv /\ GrantSurvives)'
  BY GrantStep, SurvivesStep
<1> QED
  BY <1>1, <1>2, PTL DEF Spec
=============================================================================
