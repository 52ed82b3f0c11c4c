--------------------------- MODULE ConsentProofs ---------------------------
(***************************************************************************)
(* Proofs about Consent for any number of POSTs, users and parameters,     *)
(* every backend, with restarts and backend failures.                      *)
(***************************************************************************)
EXTENDS Consent, TLAPS

LoginPcs == {"idle", "policy", "challenge", "stamp", "issue", "consentPage"}

\* A token belongs to a consent page; it is stored or taken, never both.
TokenInv ==
    /\ \A t \in stored : pc[t] = "consentPage" /\ taken[t] = None
    /\ \A t \in Posts : taken[t] # None => pc[t] = "consentPage"
    /\ \A r \in Posts : tok[r] # None => pc[tok[r]] = "consentPage"
    /\ \A r \in Posts : pc[r] \in LoginPcs => tok[r] = None
    /\ \A r \in Posts : pc[r] \in {"idle", "policy", "challenge", "stamp", "issue"} => taken[r] = None

\* A decision that passed Consume's checks is bound to its page, and the one that
\* got the subject out is the one that took the token.
DecisionInv ==
    /\ \A r \in Posts : pc[r] \in {"consume", "pulled"} =>
          tok[r] # None /\ par[r] = par[tok[r]] /\ ~ Unreadable(tok[r])
    /\ \A r \in Posts : pc[r] = "pulled" => taken[tok[r]] = r
    /\ \A r \in Posts : acceptedAt[r] # Never =>
          /\ tok[r] # None /\ taken[tok[r]] = r
          /\ par[r] = par[tok[r]] /\ who[r] = who[tok[r]]
          /\ acceptedAt[r] <= expires[tok[r]]
    /\ \A r \in Posts : acceptedAt[r] # Never => pc[r] \in {"deny", "complete", "done", "dead"}
    /\ \A r \in Posts : (pc[r] = "complete" \/ r \in codes) /\ tok[r] # None => acceptedAt[r] # Never
    /\ \A r \in codes : pc[r] = "done"

\* A page that was denied, or is about to be, has no token anyone can consume.
Dead(t) == t \notin stored \/ Unreadable(t)
DenyInv ==
    ~ storeFails =>
        /\ \A t \in denied : pc[t] = "consentPage" /\ Dead(t)
        /\ \A r \in Posts :
              (pc[r] = "deny" /\ tok[r] # None) => (par[r] = par[tok[r]] => Dead(tok[r]))

ConsentInv == TypeOK /\ TokenInv /\ DecisionInv /\ DenyInv

-----------------------------------------------------------------------------
USE ConsentConstants DEF request, Goto, Never

LEMMA TypeStep == TypeOK /\ DecisionInv /\ [Next]_vars => TypeOK'
<1> SUFFICES ASSUME TypeOK, DecisionInv, [Next]_vars PROVE TypeOK'
  OBVIOUS
<1> USE DEF TypeOK, Locations
<1> UNCHANGED setup
  BY DEF Next, vars
<1> USE DEF setup
<1>1. CASE UNCHANGED vars
  BY <1>1 DEF vars
<1>2. CASE Tick
  BY <1>2 DEF Tick
<1>3. CASE Crash
  BY <1>3 DEF Crash
<1>4. ASSUME NEW r \in Posts, NEW p \in Params, NEW s \in Subjects, PostLogin(r, s, p)
      PROVE TypeOK'
  BY <1>4 DEF PostLogin
<1>5. ASSUME NEW r \in Posts, NEW p \in Params, NEW a \in {"approve", "deny"},
             NEW t \in Shown \cup {None}, PostDecision(r, a, t, p)
      PROVE TypeOK'
  BY <1>5 DEF PostDecision, Shown
<1>6. ASSUME NEW r \in Posts, Login(r) PROVE TypeOK'
  BY <1>6 DEF Login, Policy, Challenge, Stamp, Issue, IssueFails
<1>7. ASSUME NEW r \in Posts, Decide(r) PROVE TypeOK'
  <2>1. CASE Check(r)
    BY <2>1 DEF Check, Refuse
  <2>2. CASE Consume(r)
    BY <2>2 DEF Consume, Refuse, Accept
  <2>3. CASE Pulled(r)
    BY <2>3 DEF Pulled, Refuse, Accept, DecisionInv
  <2>4. CASE ConsumeFails(r) \/ Deny(r)
    BY <2>4 DEF ConsumeFails, Deny
  <2> QED
    BY <1>7, <2>1, <2>2, <2>3, <2>4 DEF Decide
<1>8. ASSUME NEW r \in Posts, Finish(r) PROVE TypeOK'
  BY <1>8 DEF Finish, Complete, CompleteFails
<1> QED
  BY <1>1, <1>2, <1>3, <1>4, <1>5, <1>6, <1>7, <1>8 DEF Next

LEMMA TokenStep == ConsentInv /\ [Next]_vars => TokenInv'
<1> SUFFICES ASSUME ConsentInv, [Next]_vars PROVE TokenInv'
  OBVIOUS
<1>0. TypeOK /\ TokenInv /\ DecisionInv
  BY DEF ConsentInv
<1> USE DEF TypeOK, TokenInv, LoginPcs
<1> UNCHANGED setup
  BY DEF Next, vars
<1> USE DEF setup
<1>1. CASE UNCHANGED vars
  BY <1>0, <1>1 DEF vars
<1>2. CASE Tick
  BY <1>0, <1>2 DEF Tick
<1>3. CASE Crash
  BY <1>0, <1>3 DEF Crash
<1>4. ASSUME NEW r \in Posts, NEW p \in Params, NEW s \in Subjects, PostLogin(r, s, p)
      PROVE TokenInv'
  BY <1>0, <1>4 DEF PostLogin
<1>5. ASSUME NEW r \in Posts, NEW p \in Params, NEW a \in {"approve", "deny"},
             NEW t \in Shown \cup {None}, PostDecision(r, a, t, p)
      PROVE TokenInv'
  BY <1>0, <1>5 DEF PostDecision, Shown
<1>6. ASSUME NEW r \in Posts, Login(r) PROVE TokenInv'
  BY <1>0, <1>6 DEF Login, Policy, Challenge, Stamp, Issue, IssueFails
<1>7. ASSUME NEW r \in Posts, Decide(r) PROVE TokenInv'
  <2>1. CASE Check(r)
    BY <1>0, <2>1 DEF Check, Refuse
  <2>2. CASE Consume(r)
    BY <1>0, <2>2 DEF Consume, Refuse, Accept, DecisionInv
  <2>3. CASE Pulled(r)
    BY <1>0, <2>3 DEF Pulled, Refuse, Accept
  <2>4. CASE ConsumeFails(r) \/ Deny(r)
    BY <1>0, <2>4 DEF ConsumeFails, Deny
  <2> QED
    BY <1>7, <2>1, <2>2, <2>3, <2>4 DEF Decide
<1>8. ASSUME NEW r \in Posts, Finish(r) PROVE TokenInv'
  BY <1>0, <1>8 DEF Finish, Complete, CompleteFails
<1> QED
  BY <1>1, <1>2, <1>3, <1>4, <1>5, <1>6, <1>7, <1>8 DEF Next

LEMMA DecisionStep == ConsentInv /\ [Next]_vars => DecisionInv'
<1> SUFFICES ASSUME ConsentInv, [Next]_vars PROVE DecisionInv'
  OBVIOUS
<1>0. TypeOK /\ TokenInv /\ DecisionInv
  BY DEF ConsentInv
<1> USE DEF TypeOK, TokenInv, DecisionInv, LoginPcs, Unreadable
<1> UNCHANGED setup
  BY DEF Next, vars
<1> USE DEF setup
<1>1. CASE UNCHANGED vars
  BY <1>0, <1>1 DEF vars
<1>2. CASE Tick
  BY <1>0, <1>2 DEF Tick
<1>3. CASE Crash
  BY <1>0, <1>3 DEF Crash
<1>4. ASSUME NEW r \in Posts, NEW p \in Params, NEW s \in Subjects, PostLogin(r, s, p)
      PROVE DecisionInv'
  BY <1>0, <1>4 DEF PostLogin
<1>5. ASSUME NEW r \in Posts, NEW p \in Params, NEW a \in {"approve", "deny"},
             NEW t \in Shown \cup {None}, PostDecision(r, a, t, p)
      PROVE DecisionInv'
  BY <1>0, <1>5 DEF PostDecision, Shown
<1>6. ASSUME NEW r \in Posts, Login(r) PROVE DecisionInv'
  BY <1>0, <1>6 DEF Login, Policy, Challenge, Stamp, Issue, IssueFails
<1>7. ASSUME NEW r \in Posts, Decide(r) PROVE DecisionInv'
  <2>1. CASE Check(r)
    BY <1>0, <2>1 DEF Check, Refuse, Mismatch
  <2>2. CASE Consume(r)
    BY <1>0, <2>2 DEF Consume, Refuse, Accept
  <2>3. CASE Pulled(r)
    BY <1>0, <2>3 DEF Pulled, Refuse, Accept
  <2>4. CASE ConsumeFails(r) \/ Deny(r)
    BY <1>0, <2>4 DEF ConsumeFails, Deny
  <2> QED
    BY <1>7, <2>1, <2>2, <2>3, <2>4 DEF Decide
<1>8. ASSUME NEW r \in Posts, Finish(r) PROVE DecisionInv'
  BY <1>0, <1>8 DEF Finish, Complete, CompleteFails
<1> QED
  BY <1>1, <1>2, <1>3, <1>4, <1>5, <1>6, <1>7, <1>8 DEF Next

LEMMA DenyStep == ConsentInv /\ [Next]_vars => DenyInv'
<1> SUFFICES ASSUME ConsentInv, [Next]_vars, ~ storeFails PROVE DenyInv'
  BY DEF DenyInv, Next, vars, setup
<1>0. TypeOK /\ TokenInv /\ DecisionInv /\ DenyInv
  BY DEF ConsentInv
<1> USE DEF TypeOK, TokenInv, DenyInv, LoginPcs, Unreadable, Dead
<1> UNCHANGED setup
  BY DEF Next, vars
<1> USE DEF setup
<1>1. CASE UNCHANGED vars
  BY <1>0, <1>1 DEF vars
<1>2. CASE Tick
  BY <1>0, <1>2 DEF Tick
<1>3. CASE Crash
  BY <1>0, <1>3 DEF Crash
<1>4. ASSUME NEW r \in Posts, NEW p \in Params, NEW s \in Subjects, PostLogin(r, s, p)
      PROVE DenyInv'
  BY <1>0, <1>4 DEF PostLogin
<1>5. ASSUME NEW r \in Posts, NEW p \in Params, NEW a \in {"approve", "deny"},
             NEW t \in Shown \cup {None}, PostDecision(r, a, t, p)
      PROVE DenyInv'
  BY <1>0, <1>5 DEF PostDecision, Shown
<1>6. ASSUME NEW r \in Posts, Login(r) PROVE DenyInv'
  BY <1>0, <1>6 DEF Login, Policy, Challenge, Stamp, Issue, IssueFails
<1>7. ASSUME NEW r \in Posts, Decide(r) PROVE DenyInv'
  <2>1. CASE Check(r)
    BY <1>0, <2>1 DEF Check, Refuse, Mismatch
  <2>2. CASE Consume(r)
    BY <1>0, <2>2 DEF Consume, Refuse, Accept, DecisionInv
  <2>3. CASE Pulled(r)
    BY <1>0, <2>3 DEF Pulled, Refuse, Accept, DecisionInv
  <2>4. CASE ConsumeFails(r) \/ Deny(r)
    BY <1>0, <2>4 DEF ConsumeFails, Deny
  <2> QED
    BY <1>7, <2>1, <2>2, <2>3, <2>4 DEF Decide
<1>8. ASSUME NEW r \in Posts, Finish(r) PROVE DenyInv'
  BY <1>0, <1>8 DEF Finish, Complete, CompleteFails
<1> QED
  BY <1>1, <1>2, <1>3, <1>4, <1>5, <1>6, <1>7, <1>8 DEF Next

LEMMA ConsentInvariant == Spec => []ConsentInv
<1>1. Init => ConsentInv
  BY DEF Init, ConsentInv, TypeOK, Locations, TokenInv, DecisionInv, DenyInv
<1>2. ConsentInv /\ [Next]_vars => ConsentInv'
  BY TypeStep, TokenStep, DecisionStep, DenyStep DEF ConsentInv
<1> QED
  BY <1>1, <1>2, PTL DEF Spec

-----------------------------------------------------------------------------
\* At most one POST gets a code out of a consent page.
THEOREM ApprovalsAreSingleUse == Spec => []SingleUse
<1>1. ConsentInv => SingleUse
  BY DEF ConsentInv, DecisionInv, SingleUse, TypeOK
<1> QED
  BY <1>1, ConsentInvariant, PTL

\* A code goes to the user who logged in, for the parameters he saw.
THEOREM ApprovalsAreBound == Spec => []BoundToLogin
<1>1. ConsentInv => BoundToLogin
  BY DEF ConsentInv, DecisionInv, BoundToLogin, TypeOK
<1> QED
  BY <1>1, ConsentInvariant, PTL

\* No approval is accepted after its token's lifetime.
THEOREM ApprovalsAreTimely == Spec => []AcceptedInTime
<1>1. ConsentInv => AcceptedInTime
  BY DEF ConsentInv, DecisionInv, AcceptedInTime, TypeOK
<1> QED
  BY <1>1, ConsentInvariant, PTL

\* After an answered deny nothing consumes the page's token.
THEOREM DenialIsFinal == Spec => DenyIsFinal
<1>1. ConsentInv /\ [Next]_vars => [~ storeFails => \A t \in denied : taken'[t] = taken[t]]_vars
  <2> SUFFICES ASSUME ConsentInv, [Next]_vars, ~ storeFails, NEW t \in denied
               PROVE  taken'[t] = taken[t]
    OBVIOUS
  <2>1. TypeOK /\ t \in Posts /\ Dead(t)
    BY DEF ConsentInv, DenyInv, TypeOK
  <2>2. ASSUME NEW r \in Posts, Consume(r) PROVE taken'[t] = taken[t]
    BY <2>1, <2>2 DEF Consume, ConsentInv, DecisionInv, Dead, TypeOK
  <2> QED
    BY <2>2 DEF Next, vars, Tick, Crash, PostLogin, PostDecision, Login, Policy, Challenge,
       Stamp, Issue, IssueFails, Decide, Check, Pulled, ConsumeFails, Deny, Finish,
       Complete, CompleteFails
<1> QED
  BY <1>1, ConsentInvariant, PTL DEF Spec, DenyIsFinal

\* The approval stores implement the promise of ApprovalTokenStore.
THEOREM StoresKeepPromise == Spec => ImplementsPromise
<1>1. Init => Promise!Init
  BY DEF Init, Promise!Init, Shown
<1>2. ConsentInv /\ [Next]_vars => [Promise!Next]_<<stored, Shown, taken>>
  <2> SUFFICES ASSUME ConsentInv, [Next]_vars
               PROVE  Promise!Next \/ UNCHANGED <<stored, Shown, taken>>
    OBVIOUS
  <2>0. TypeOK /\ TokenInv /\ DecisionInv
    BY DEF ConsentInv
  <2> USE <2>0 DEF TypeOK, TokenInv, Shown, Promise!Next
  <2>1. CASE UNCHANGED vars \/ Tick
    BY <2>1 DEF vars, Tick
  <2>2. CASE Crash
    <3>1. stored' \in SUBSET stored /\ Shown' = Shown /\ taken' = taken
      BY <2>2 DEF Crash
    <3> QED
      BY <3>1 DEF Promise!Drop
  <2>3. ASSUME NEW r \in Posts, Issue(r) PROVE Promise!Next
    <3>1. r \notin Shown /\ Shown' = Shown \cup {r} /\ stored' = stored \cup {r} /\ taken' = taken
      BY <2>3 DEF Issue
    <3> QED
      BY <3>1 DEF Promise!Issue
  <2>4. ASSUME NEW r \in Posts, Consume(r) PROVE Promise!Next \/ UNCHANGED <<stored, Shown, taken>>
    <3>1. Shown' = Shown /\ tok[r] \in Posts
      BY <2>4 DEF Consume, Refuse, Accept, DecisionInv
    <3>2. CASE tok[r] \notin stored
      BY <2>4, <3>1, <3>2 DEF Consume
    <3>3. CASE tok[r] \in stored
      <4>1. Promise!Take(tok[r], r)
        BY <2>4, <3>1, <3>3 DEF Consume, Promise!Take
      <4> QED
        BY <3>1, <4>1
    <3> QED
      BY <3>2, <3>3
  <2>5. ASSUME NEW r \in Posts, Check(r) PROVE Promise!Next \/ UNCHANGED <<stored, Shown, taken>>
    <3>1. Shown' = Shown /\ taken' = taken /\ stored' \in SUBSET stored
      BY <2>5 DEF Check, Refuse
    <3> QED
      BY <3>1 DEF Promise!Drop
  <2>6. ASSUME NEW r \in Posts,
               \/ \E p \in Params, s \in Subjects : PostLogin(r, s, p)
               \/ \E p \in Params, a \in {"approve", "deny"}, t \in Shown \cup {None} :
                     PostDecision(r, a, t, p)
               \/ Policy(r) \/ Challenge(r) \/ Stamp(r) \/ IssueFails(r) \/ Pulled(r)
               \/ ConsumeFails(r) \/ Deny(r) \/ Finish(r)
        PROVE UNCHANGED <<stored, Shown, taken>>
    BY <2>6 DEF PostLogin, PostDecision, Policy, Challenge, Stamp, IssueFails, Pulled,
       Refuse, Accept, ConsumeFails, Deny, Finish, Complete, CompleteFails
  <2> QED
    BY <2>1, <2>2, <2>3, <2>4, <2>5, <2>6 DEF Next, Login, Decide
<1> QED
  BY <1>1, <1>2, ConsentInvariant, PTL DEF Spec, ImplementsPromise, Promise!Spec
=============================================================================
