---------------------------- MODULE SigningKeys ----------------------------
(***************************************************************************)
(* Signing keys: oauth/keys (Manager, MemoryStore, Rotator) and the ID     *)
(* tokens the provider signs with them (the keyGetter of oauth.New).       *)
(*                                                                         *)
(* Servers share one key store. Each calls EnsureSigningKey at start-up    *)
(* and then runs a Rotator. Store operations are atomic, as the Store      *)
(* interface demands, but the clock values and generated keys handed to    *)
(* them are older than the operation: a rotation computes retiredAt before *)
(* the store call, and a clean-up reads its cut-off before it deletes.     *)
(*                                                                         *)
(* A key is named by its place in the history of created keys.             *)
(***************************************************************************)
EXTENDS Integers, FiniteSets

CONSTANTS
    Servers,     \* processes that run a Manager and a Rotator on one store
    Interval,    \* RotationConfig.Interval
    Grace,       \* RotationConfig.Grace
    Lifespan,    \* Config.IDTokenLifespan
    MaxDelay,    \* the longest a store call that writes takes
    MaxTime,     \* bound on the clock
    MaxKeys      \* bound on created keys

Kids == 1..MaxKeys

ASSUME KeyConstants ==
    /\ Interval \in Nat /\ Grace \in Nat /\ Lifespan \in Nat
    /\ MaxDelay \in Nat /\ MaxTime \in Nat /\ MaxKeys \in Nat

VARIABLES
    deployment, \* fixed: "orderly", or "faulty"
    now,
    state,      \* the store: IsActive and presence of every key ever created
    createdAt,  \* SigningKey.CreatedAt
    retiredAt,  \* SigningKey.RetiredAt
    count,      \* how many keys were created
    pc,         \* where a server is in EnsureSigningKey and Rotator.Run
    at,         \* the clock value it holds: its timer, or one read for a store call
    signed      \* history: the latest expiry among the tokens a key signed

keys == <<state, createdAt, retiredAt>>
vars == <<deployment, now, keys, count, pc, at, signed>>

\* In an orderly deployment servers take local steps and restarts at once and
\* stop between store calls, and the store works; in a faulty one store calls
\* may return an error and servers may be late or die anywhere.
Prompt     == deployment = "orderly"
StoreFails == deployment = "faulty"

Active == {k \in Kids : state[k] = "active"}

\* ListVerifyingSigningKeys, as JWKS calls it: what a relying party can verify with.
Verifying(t) ==
    Active \cup {k \in Kids : state[k] = "retired" /\ retiredAt[k] > t}

\* The key a server generated at time t is appended to the store.
Append(t) ==
    /\ count < MaxKeys
    /\ count' = count + 1
    /\ createdAt' = [createdAt EXCEPT ![count + 1] = t]

Init ==
    /\ deployment \in {"orderly", "faulty"}
    /\ now = 0
    /\ state = [k \in Kids |-> "none"]
    /\ createdAt = [k \in Kids |-> 0]
    /\ retiredAt = [k \in Kids |-> 0]
    /\ count = 0
    /\ pc = [s \in Servers |-> "off"]
    /\ at = [s \in Servers |-> 0]
    /\ signed = [k \in Kids |-> 0]

\* A server goes on to p holding the clock value t.
Goto(s, p, t) ==
    /\ pc' = [pc EXCEPT ![s] = p]
    /\ at' = [at EXCEPT ![s] = t]

\* Time passes. No store call that writes a key outlives MaxDelay; a Prompt server
\* is never late for its timer and spends no time down or between store calls.
Tick ==
    /\ now < MaxTime
    /\ \A s \in Servers :
          /\ pc[s] \in {"ensure", "rotate"} => now + 1 <= at[s] + MaxDelay
          /\ Prompt => /\ pc[s] \in {"ensure", "sleep", "rotate"}
                       /\ pc[s] = "sleep" => now < at[s]
    /\ now' = now + 1
    /\ UNCHANGED <<keys, count, pc, at, signed>>

-----------------------------------------------------------------------------
(* Manager.EnsureSigningKey *)

\* FindActiveSigningKey: an active key ends the call, otherwise one is generated.
EnsureFind(s) ==
    /\ pc[s] = "off"
    /\ IF Active # {} THEN Goto(s, "ready", 0) ELSE Goto(s, "ensure", now)
    /\ UNCHANGED <<now, keys, count, signed>>

\* Mutant: the store keeps the supplied key without looking for an active one.
EnsureStoreBlind(s) ==
    /\ pc[s] = "ensure"
    /\ Append(at[s])
    /\ state' = [state EXCEPT ![count + 1] = "active"]
    /\ UNCHANGED retiredAt
    /\ Goto(s, "ready", 0)
    /\ UNCHANGED <<now, signed>>

\* store.EnsureSigningKey keeps an active key that appeared meanwhile.
EnsureStore(s) ==
    /\ pc[s] = "ensure"
    /\ \/ /\ Active # {}
          /\ UNCHANGED <<keys, count>>
       \/ /\ Active = {}
          /\ Append(at[s])
          /\ state' = [state EXCEPT ![count + 1] = "active"]
          /\ UNCHANGED retiredAt
    /\ Goto(s, "ready", 0)
    /\ UNCHANGED <<now, signed>>

-----------------------------------------------------------------------------
(* Rotator.Run *)

\* Mutant: every start waits a whole interval, whatever the age of the key.
FirstWakeWhole == {now + Interval}

\* delayUntilFirstRotation: the rest of the active key's interval; a whole one
\* when there is no key.
FirstWake ==
    IF Active = {} THEN {now + Interval}
    ELSE {IF now - createdAt[k] >= Interval THEN now
          ELSE createdAt[k] + Interval : k \in Active}

\* Run arms its first timer.
Start(s) ==
    /\ pc[s] = "ready"
    /\ \E w \in FirstWake : Goto(s, "sleep", w)
    /\ UNCHANGED <<now, keys, count, signed>>

\* The store cannot be queried: Run falls back to a whole interval.
StartBlind(s) ==
    /\ StoreFails
    /\ pc[s] = "ready"
    /\ Goto(s, "sleep", now + Interval)
    /\ UNCHANGED <<now, keys, count, signed>>

\* The timer fires: rotateSigningKeyAt generates a key and reads the clock for
\* retiredAt, before the store is called.
Fire(s) ==
    /\ pc[s] = "sleep"
    /\ now >= at[s]
    /\ Goto(s, "rotate", now)
    /\ UNCHANGED <<now, keys, count, signed>>

\* Mutant: the retired key leaves the JWKS when its successor is created.
RetireAtOnce(t) == t

\* The retiredAt that rotateSigningKeyAt passes to the store.
RetireAt(t) == t + Grace

\* Mutant: the replacement is not stored.
RotateStoreLoses(s) ==
    /\ pc[s] = "rotate"
    /\ state' = [k \in Kids |-> IF k \in Active THEN "retired" ELSE state[k]]
    /\ retiredAt' = [k \in Kids |-> IF k \in Active THEN RetireAt(at[s]) ELSE retiredAt[k]]
    /\ Goto(s, "cutoff", 0)
    /\ UNCHANGED <<now, createdAt, count, signed>>

\* store.RotateSigningKey: one atomic step retires whatever is active now, even a
\* key another server has just created, and adds the replacement.
RotateStore(s) ==
    /\ pc[s] = "rotate"
    /\ Append(at[s])
    /\ state' = [k \in Kids |-> IF k = count + 1 THEN "active"
                                ELSE IF k \in Active THEN "retired" ELSE state[k]]
    /\ retiredAt' = [k \in Kids |-> IF k \in Active THEN RetireAt(at[s]) ELSE retiredAt[k]]
    /\ Goto(s, "cutoff", 0)
    /\ UNCHANGED <<now, signed>>

\* The rotation fails without effect; the clean-up still runs.
RotateFails(s) ==
    /\ StoreFails
    /\ pc[s] = "rotate"
    /\ Goto(s, "cutoff", 0)
    /\ UNCHANGED <<now, keys, count, signed>>

\* retireExpiredKeysAt reads its cut-off ...
Cutoff(s) ==
    /\ pc[s] = "cutoff"
    /\ Goto(s, "cleanup", now)
    /\ UNCHANGED <<now, keys, count, signed>>

\* The keys DeleteExpiredSigningKeys removes.
Doomed(t) == {k \in Kids : state[k] = "retired" /\ retiredAt[k] < t}

\* ... and the store deletes by it; the loop then resets its timer.
Cleanup(s) ==
    /\ pc[s] = "cleanup"
    /\ state' = [k \in Kids |-> IF k \in Doomed(at[s]) THEN "deleted" ELSE state[k]]
    /\ createdAt' = [k \in Kids |-> IF k \in Doomed(at[s]) THEN 0 ELSE createdAt[k]]
    /\ retiredAt' = [k \in Kids |-> IF k \in Doomed(at[s]) THEN 0 ELSE retiredAt[k]]
    /\ Goto(s, "sleep", now + Interval)
    /\ UNCHANGED <<now, count, signed>>

CleanupFails(s) ==
    /\ StoreFails
    /\ pc[s] = "cleanup"
    /\ Goto(s, "sleep", now + Interval)
    /\ UNCHANGED <<now, keys, count, signed>>

\* The context is cancelled or the process dies, at any point; rotateAndCleanup
\* and EnsureSigningKey return early and what they held is gone. Also what a
\* failed EnsureSigningKey amounts to. A Prompt server waits for a store call that
\* writes before it stops.
Stop(s) ==
    /\ pc[s] # "off"
    /\ Prompt => pc[s] \notin {"ensure", "rotate"}
    /\ Goto(s, "off", 0)
    /\ UNCHANGED <<now, keys, count, signed>>

-----------------------------------------------------------------------------
\* fosite stamps a token's expiry and then calls keyGetter, which returns the
\* active key. A token whose claims were stamped earlier than now expires earlier
\* than one stamped now, so the latest expiry is the one to remember.
Sign(k) ==
    /\ k \in Active
    /\ signed' = [signed EXCEPT ![k] = now + Lifespan]
    /\ UNCHANGED <<now, keys, count, pc, at>>

-----------------------------------------------------------------------------
Ensure(s) == EnsureFind(s) \/ EnsureStore(s)

Run(s) ==
    \/ Start(s) \/ StartBlind(s) \/ Fire(s) \/ RotateStore(s) \/ RotateFails(s)
    \/ Cutoff(s) \/ Cleanup(s) \/ CleanupFails(s)

Next ==
    /\ \/ Tick
       \/ \E s \in Servers : Ensure(s) \/ Run(s) \/ Stop(s)
       \/ \E k \in Kids : Sign(k)
    /\ UNCHANGED deployment

Spec == Init /\ [][Next]_vars

-----------------------------------------------------------------------------
(* Properties *)

\* The shape of the key store and of the loops around it.
TypeOK ==
    /\ deployment \in {"orderly", "faulty"}
    /\ now \in Nat /\ count \in 0..MaxKeys
    /\ state \in [Kids -> {"none", "active", "retired", "deleted"}]
    /\ createdAt \in [Kids -> Nat] /\ retiredAt \in [Kids -> Nat]
    /\ pc \in [Servers -> {"off", "ensure", "ready", "sleep", "rotate", "cutoff", "cleanup"}]
    /\ at \in [Servers -> Nat]
    /\ signed \in [Kids -> Nat]

\* The Store interface promises "the only active key" (manager.go): servers that
\* start together and rotators that fire together never leave two keys that sign.
OneActiveKey == \A j, k \in Active : j = k

\* From the first key on there is always one to sign with: no interleaving of
\* starts, rotations, clean-ups and crashes leaves keyGetter without a key.
SigningNeverStops == count > 0 => Active # {}

\* "retired keys remain in JWKS so existing tokens continue to verify"
\* (DefaultRotationGrace): until a token expires its key is in the JWKS, however
\* the rotations and clean-ups of several servers interleave, when the grace period
\* covers a token's life and the slowest store call.
TokensVerify ==
    Grace >= Lifespan + MaxDelay =>
        \A k \in Kids : now < signed[k] => k \in Verifying(now)

\* delayUntilFirstRotation exists so that restarts do not postpone rotation: while
\* servers are prompt, the store works and answers within an interval, no key signs for longer than an interval
\* and two store calls (the one that created it, after which the timer was armed,
\* and the one that replaces it), however often servers stop and restart between
\* store calls.
KeyNeverOverstays ==
    Prompt /\ MaxDelay <= Interval =>
        \A k \in Active : now <= createdAt[k] + Interval + 2 * MaxDelay
=============================================================================
