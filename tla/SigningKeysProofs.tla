------------------------- MODULE SigningKeysProofs -------------------------
(***************************************************************************)
(* Proofs about SigningKeys for any number of servers and keys, with       *)
(* crashes and store failures.                                             *)
(***************************************************************************)
EXTENDS SigningKeys, TLAPS

-----------------------------------------------------------------------------
(* The inductive invariants *)

\* A key that was not created yet is in no state, and signed nothing.
FutureInv == \A k \in Kids : k > count => state[k] = "none"

\* A clock value held for a store call is old, but not older than the call may last.
HeldInv ==
    \A s \in Servers :
        /\ pc[s] \in {"ensure", "rotate", "cleanup"} => at[s] <= now
        /\ pc[s] \in {"ensure", "rotate"} => now <= at[s] + MaxDelay

\* What a key has signed outlives neither its grace period nor its deletion.
CoverInv ==
    \A k \in Kids :
        /\ signed[k] <= now + Lifespan
        /\ state[k] = "none" => signed[k] = 0
        /\ state[k] = "retired" => signed[k] <= retiredAt[k]
        /\ state[k] = "deleted" => signed[k] <= now

KeysInv == TypeOK /\ OneActiveKey /\ SigningNeverStops /\ FutureInv /\ HeldInv

\* With the grace period the theorem asks for.
WindowInv == Grace >= Lifespan + MaxDelay => CoverInv

\* How late a server at each place of its loop can be for the active key.
LateInv ==
    /\ Active # {} => Servers # {}
    /\ \A s \in Servers :
          /\ pc[s] = "sleep" => now <= at[s] /\ at[s] <= now + Interval
          /\ \A k \in Active :
                LET c == createdAt[k]
                IN  /\ c <= now
                    /\ pc[s] \in {"off", "ready"} => now <= c + Interval + MaxDelay
                    /\ pc[s] \in {"sleep", "rotate"} => at[s] <= c + Interval + MaxDelay
                    /\ pc[s] \in {"ensure"} => at[s] <= c + MaxDelay
                    /\ pc[s] \in {"cutoff", "cleanup"} => now <= c + MaxDelay

CadenceInv ==
    Prompt /\ MaxDelay <= Interval => LateInv /\ KeyNeverOverstays
-----------------------------------------------------------------------------
USE KeyConstants DEF Goto, Active, Append, RetireAt, keys

\* The name of the next key.
LEMMA NextKid == TypeOK /\ count < MaxKeys => count + 1 \in Kids /\ Kids \subseteq Nat
BY DEF TypeOK, Kids

\* Every step keeps the shape of the state.
LEMMA TypeStep == TypeOK /\ [Next]_vars => TypeOK'
<1> SUFFICES ASSUME TypeOK, [Next]_vars PROVE TypeOK'
  OBVIOUS
<1> USE DEF TypeOK
<1>0. UNCHANGED deployment
  BY DEF Next, vars
<1>1. CASE UNCHANGED vars
  BY <1>1 DEF vars
<1>2. CASE Tick
  BY <1>0, <1>2 DEF Tick
<1>3. ASSUME NEW s \in Servers, Ensure(s) PROVE TypeOK'
  BY <1>0, <1>3, NextKid DEF Ensure, EnsureFind, EnsureStore
<1>4. ASSUME NEW s \in Servers, Run(s) PROVE TypeOK'
  <2>1. CASE Start(s)
    <3>1. FirstWake \subseteq Nat
      BY DEF FirstWake
    <3> QED
      BY <1>0, <2>1, <3>1 DEF Start
  <2>2. CASE StartBlind(s) \/ Fire(s) \/ RotateFails(s) \/ Cutoff(s) \/ CleanupFails(s)
    BY <1>0, <2>2 DEF StartBlind, Fire, RotateFails, Cutoff, CleanupFails
  <2>3. CASE RotateStore(s)
    BY <1>0, <2>3, NextKid DEF RotateStore
  <2>4. CASE Cleanup(s)
    BY <1>0, <2>4 DEF Cleanup
  <2> QED
    BY <1>4, <2>1, <2>2, <2>3, <2>4 DEF Run
<1>5. ASSUME NEW s \in Servers, Stop(s) PROVE TypeOK'
  BY <1>0, <1>5 DEF Stop
<1>6. ASSUME NEW k \in Kids, Sign(k) PROVE TypeOK'
  BY <1>0, <1>6 DEF Sign
<1> QED
  BY <1>1, <1>2, <1>3, <1>4, <1>5, <1>6 DEF Next

\* The steps that write the store; every other step leaves it alone.
LEMMA StoreMoves ==
    ASSUME [Next]_vars
    PROVE  \/ UNCHANGED <<keys, count>>
           \/ \E s \in Servers : EnsureStore(s) \/ RotateStore(s) \/ Cleanup(s)
BY DEF Next, vars, Tick, Ensure, EnsureFind, Run, Start, StartBlind, Fire,
   RotateFails, Cutoff, CleanupFails, Stop, Sign

LEMMA KeysStep == KeysInv /\ [Next]_vars => KeysInv'
<1> SUFFICES ASSUME KeysInv, [Next]_vars PROVE KeysInv'
  OBVIOUS
<1>0. TypeOK /\ OneActiveKey /\ SigningNeverStops /\ FutureInv /\ HeldInv /\ TypeOK'
  BY TypeStep DEF KeysInv
<1>1. (OneActiveKey /\ SigningNeverStops /\ FutureInv)'
  <2> USE DEF OneActiveKey, SigningNeverStops, FutureInv
  <2>1. CASE UNCHANGED <<keys, count>>
    BY <1>0, <2>1
  <2>2. ASSUME NEW s \in Servers, EnsureStore(s)
        PROVE (OneActiveKey /\ SigningNeverStops /\ FutureInv)'
    BY <1>0, <2>2, NextKid DEF EnsureStore, TypeOK
  <2>3. ASSUME NEW s \in Servers, RotateStore(s)
        PROVE (OneActiveKey /\ SigningNeverStops /\ FutureInv)'
    BY <1>0, <2>3, NextKid DEF RotateStore, TypeOK
  <2>4. ASSUME NEW s \in Servers, Cleanup(s)
        PROVE (OneActiveKey /\ SigningNeverStops /\ FutureInv)'
    BY <1>0, <2>4 DEF Cleanup, Doomed, TypeOK
  <2> QED
    BY <2>1, <2>2, <2>3, <2>4, StoreMoves
<1>2. HeldInv'
  <2> USE DEF HeldInv, TypeOK
  <2>1. CASE UNCHANGED vars
    BY <1>0, <2>1 DEF vars
  <2>2. CASE Tick
    BY <1>0, <2>2 DEF Tick
  <2>3. ASSUME NEW s \in Servers, Ensure(s) PROVE HeldInv'
    BY <1>0, <2>3 DEF Ensure, EnsureFind, EnsureStore
  <2>4. ASSUME NEW s \in Servers, Run(s) PROVE HeldInv'
    BY <1>0, <2>4 DEF Run, Start, StartBlind, Fire, RotateStore, RotateFails, Cutoff,
       Cleanup, CleanupFails
  <2>5. ASSUME NEW s \in Servers, Stop(s) PROVE HeldInv'
    BY <1>0, <2>5 DEF Stop
  <2>6. ASSUME NEW k \in Kids, Sign(k) PROVE HeldInv'
    BY <1>0, <2>6 DEF Sign
  <2> QED
    BY <2>1, <2>2, <2>3, <2>4, <2>5, <2>6 DEF Next
<1> QED
  BY <1>0, <1>1, <1>2 DEF KeysInv

LEMMA KeysInvariant == Spec => []KeysInv
<1>1. Init => KeysInv
  BY DEF Init, KeysInv, TypeOK, OneActiveKey, SigningNeverStops,
     FutureInv, HeldInv
<1> QED
  BY <1>1, KeysStep, PTL DEF Spec

\* The state of the key store and of every rotator keeps its shape.
THEOREM KeyTypeCorrect == Spec => []TypeOK
<1>1. KeysInv => TypeOK
  BY DEF KeysInv
<1> QED
  BY <1>1, KeysInvariant, PTL

\* No interleaving of starts and rotations leaves two active keys.
THEOREM ActiveKeyIsUnique == Spec => []OneActiveKey
<1>1. KeysInv => OneActiveKey
  BY DEF KeysInv
<1> QED
  BY <1>1, KeysInvariant, PTL

\* Once there is a key there is always an active one.
THEOREM SigningContinues == Spec => []SigningNeverStops
<1>1. KeysInv => SigningNeverStops
  BY DEF KeysInv
<1> QED
  BY <1>1, KeysInvariant, PTL

-----------------------------------------------------------------------------
(* The verification window *)

LEMMA CoverStep ==
    ASSUME Grace >= Lifespan + MaxDelay, KeysInv, CoverInv, [Next]_vars
    PROVE  CoverInv'
<1>0. TypeOK /\ FutureInv /\ HeldInv
  BY DEF KeysInv
<1> USE DEF CoverInv, TypeOK
<1>1. CASE UNCHANGED vars
  BY <1>1 DEF vars
<1>2. CASE Tick
  BY <1>0, <1>2 DEF Tick
<1>3. ASSUME NEW s \in Servers, EnsureStore(s) PROVE CoverInv'
  BY <1>0, <1>3, NextKid DEF EnsureStore, FutureInv
<1>4. ASSUME NEW s \in Servers, RotateStore(s) PROVE CoverInv'
  <2>1. now <= at[s] + MaxDelay
    BY <1>0, <1>4, NextKid DEF RotateStore, HeldInv
  <2>2. \A k \in Kids : signed[k] <= at[s] + Grace
    BY <1>0, <2>1
  <2> QED
    BY <1>0, <1>4, <2>2, NextKid DEF RotateStore
<1>5. ASSUME NEW s \in Servers, Cleanup(s) PROVE CoverInv'
  <2>1. at[s] <= now
    BY <1>0, <1>5 DEF Cleanup, HeldInv
  <2> QED
    BY <1>0, <1>5, <2>1 DEF Cleanup, Doomed
<1>6. ASSUME NEW k \in Kids, Sign(k) PROVE CoverInv'
  BY <1>0, <1>6 DEF Sign
<1>7. ASSUME UNCHANGED <<now, keys, signed>> PROVE CoverInv'
  BY <1>7
<1> QED
  BY <1>1, <1>2, <1>3, <1>4, <1>5, <1>6, <1>7 DEF Next, Ensure, EnsureFind, Run, Start,
     StartBlind, Fire, RotateFails, Cutoff, CleanupFails, Stop

\* A token verifies until it expires when the grace period covers a token's life
\* and the slowest store call.
THEOREM WindowIsKept == Spec => []TokensVerify
<1>1. Init => WindowInv
  BY DEF Init, WindowInv, CoverInv
<1>2. KeysInv /\ WindowInv /\ [Next]_vars => WindowInv'
  BY CoverStep DEF WindowInv
<1>3. KeysInv /\ WindowInv => TokensVerify
  BY DEF KeysInv, WindowInv, CoverInv, TokensVerify, Verifying, TypeOK
<1> QED
  BY <1>1, <1>2, <1>3, KeysInvariant, PTL DEF Spec

-----------------------------------------------------------------------------
(* The rotation cadence *)

LEMMA LateStep ==
    ASSUME Prompt, MaxDelay <= Interval, KeysInv, LateInv, KeyNeverOverstays, [Next]_vars
    PROVE  LateInv' /\ KeyNeverOverstays'
<1>0. TypeOK /\ OneActiveKey /\ SigningNeverStops /\ FutureInv /\ HeldInv /\ ~ StoreFails
  BY DEF KeysInv, Prompt, StoreFails
<1> USE DEF LateInv, KeyNeverOverstays, TypeOK
<1>1. CASE UNCHANGED vars
  BY <1>1 DEF vars
<1>2. CASE Tick
  <2>1. LateInv'
    BY <1>0, <1>2 DEF Tick, HeldInv
  <2>2. ASSUME NEW k \in Active PROVE now + 1 <= createdAt[k] + Interval + 2 * MaxDelay
    <3>1. PICK s \in Servers : TRUE
      BY <2>2
    <3>2. CASE pc[s] = "sleep"
      BY <1>0, <1>2, <2>2, <3>2 DEF Tick
    <3>3. CASE pc[s] \in {"ensure", "rotate"}
      BY <1>0, <1>2, <2>2, <3>3 DEF Tick
    <3> QED
      BY <1>2, <3>2, <3>3 DEF Tick
  <2> QED
    BY <1>2, <2>1, <2>2 DEF Tick
<1>3. ASSUME NEW s \in Servers, EnsureFind(s) PROVE LateInv' /\ KeyNeverOverstays'
  BY <1>0, <1>3 DEF EnsureFind
<1>4. ASSUME NEW s \in Servers, EnsureStore(s) PROVE LateInv' /\ KeyNeverOverstays'
  BY <1>0, <1>4, NextKid DEF EnsureStore, HeldInv
<1>5. ASSUME NEW s \in Servers, Start(s) PROVE LateInv' /\ KeyNeverOverstays'
  <2>1. PICK w \in FirstWake : Goto(s, "sleep", w)
    BY <1>5 DEF Start
  <2>2. UNCHANGED <<now, keys, count, signed>> /\ pc[s] = "ready"
    BY <1>5 DEF Start
  <2>3. w \in Nat /\ now <= w /\ w <= now + Interval
    BY <1>0 DEF FirstWake
  <2>4. ASSUME NEW k \in Active PROVE w <= createdAt[k] + Interval + MaxDelay
    <3>1. w = IF now - createdAt[k] >= Interval THEN now ELSE createdAt[k] + Interval
      BY <1>0, <2>4 DEF FirstWake, OneActiveKey
    <3>2. now <= createdAt[k] + Interval + MaxDelay
      BY <2>2, <2>4
    <3> QED
      BY <1>0, <2>4, <3>1, <3>2
  <2> QED
    BY <1>0, <2>1, <2>2, <2>3, <2>4
<1>6. ASSUME NEW s \in Servers, Fire(s) PROVE LateInv' /\ KeyNeverOverstays'
  BY <1>0, <1>6 DEF Fire
<1>7. ASSUME NEW s \in Servers, RotateStore(s) PROVE LateInv' /\ KeyNeverOverstays'
  BY <1>0, <1>7, NextKid DEF RotateStore, HeldInv
<1>8. ASSUME NEW s \in Servers, Cutoff(s) PROVE LateInv' /\ KeyNeverOverstays'
  BY <1>0, <1>8 DEF Cutoff
<1>9. ASSUME NEW s \in Servers, Cleanup(s) PROVE LateInv' /\ KeyNeverOverstays'
  BY <1>0, <1>9 DEF Cleanup, HeldInv
<1>10. ASSUME NEW s \in Servers, Stop(s) PROVE LateInv' /\ KeyNeverOverstays'
  BY <1>0, <1>10 DEF Stop
<1>11. ASSUME NEW k \in Kids, Sign(k) PROVE LateInv' /\ KeyNeverOverstays'
  BY <1>0, <1>11 DEF Sign
<1> QED
  BY <1>0, <1>1, <1>2, <1>3, <1>4, <1>5, <1>6, <1>7, <1>8, <1>9, <1>10, <1>11 DEF Next, Ensure,
     Run, StartBlind, RotateFails, CleanupFails

\* Restarts do not postpone rotation.
THEOREM CadenceIsKept == Spec => []KeyNeverOverstays
<1>1. Init => CadenceInv
  BY DEF Init, CadenceInv, LateInv, KeyNeverOverstays
<1>2. KeysInv /\ CadenceInv /\ [Next]_vars => CadenceInv'
  <2>1. [Next]_vars /\ Prompt' => Prompt
    BY DEF Next, vars, Prompt
  <2> QED
    BY <2>1, LateStep DEF CadenceInv
<1>3. CadenceInv => KeyNeverOverstays
  BY DEF CadenceInv, KeyNeverOverstays
<1> QED
  BY <1>1, <1>2, <1>3, KeysInvariant, PTL DEF Spec
=============================================================================
