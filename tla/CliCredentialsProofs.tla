------------------------ MODULE CliCredentialsProofs ------------------------
(***************************************************************************)
(* Proofs about CliCredentials for any number of processes, any clock and  *)
(* any lifetimes.                                                          *)
(***************************************************************************)
EXTENDS CliCredentials, TLAPS

\* Where a process may still mint a pair.
Minting == {"idle", "post", "redeem"} \cup LoggingIn
\* Pairs that may be known to somebody.
Known == {First} \cup {p \in Processes : pc[p] \notin Minting}

\* Timed stretches keep their bound.
TimeInv ==
    \A p \in Processes : pc[p] \in Timed => since[p] <= now /\ now <= since[p] + MaxDelay

\* What credentials c may contain, with pairs K known and minted at m: known pairs,
\* and an expiry that overstates the life of the access token by less than the
\* window and a delay.
Sound(c, K, m) ==
    /\ c.access \in K \cup {None} /\ c.refresh \in K \cup {None}
    /\ IF c.access = None THEN c.expires = 0
       ELSE c.expires < m[c.access] + Lifespan + Window + MaxDelay

\* An answer whose wait began at s is young: it was given within the window.
Young(c, K, m, s) ==
    /\ c.access \in K /\ c.refresh \in K
    /\ s < m[c.access] + Window

CredsInv ==
    /\ live \subseteq Known
    /\ \A t \in Tokens : succ[t] \in Known \cup {None}
    /\ file # None => Sound(file, Known, minted)
    /\ \A p \in Processes : hold[p] # None /\ pc[p] # "answered" => Sound(hold[p], Known, minted)
    /\ \A p \in Processes :
          pc[p] \in {"answered", "saveRefreshed"} => Young(hold[p], Known, minted, since[p])
    /\ \A p \in Processes : pc[p] = "reload" => since[p] <= minted[p]

Buffered == Buffer + 1 >= Window + MaxDelay /\ Lifespan > Buffer

ValidInv == TimeInv /\ CredsInv /\ (Buffered => ~overdue)

\* After such a logout nobody is on the way to a write.
LogoutInv == loggedOut => file = None /\ Writers = {}

\* Undisturbed refreshing. Pair t is the only usable one. Who still works with its
\* predecessor began at most MaxDelay after the rotation, who presents t itself began
\* when t was due, and who holds t unsaved is not long in doing so.
Unsaved == {"answered", "saveRefreshed"}
TipOfFile(t) ==
    \/ file.refresh = t /\ file.expires >= minted[t] + Lifespan
    \/ /\ file.refresh \in Tokens /\ succ[file.refresh] = t
       /\ t \in Processes /\ pc[t] \in Unsaved /\ since[t] <= minted[t]
TipOfPost(p, t) ==
    \/ hold[p].refresh = t /\ since[p] + Buffer >= minted[t] + Lifespan
    \/ /\ hold[p].refresh \in Tokens /\ succ[hold[p].refresh] = t
       /\ since[p] <= minted[t] + MaxDelay
TipOfUnsaved(p, t) ==
    /\ hold[p].refresh = t /\ since[p] <= minted[t] + MaxDelay
    /\ pc[p] = "saveRefreshed" => hold[p].expires >= minted[t] + Lifespan
Tip(t) ==
    /\ live = {t} /\ succ[t] = None /\ minted[t] <= now
    /\ t \in Processes => pc[t] \notin {"idle", "post"}
    /\ file # None => TipOfFile(t)
    /\ \A p \in Processes : pc[p] = "post" => TipOfPost(p, t)
    /\ \A p \in Processes : pc[p] \in Unsaved => TipOfUnsaved(p, t)

\* Everybody is refreshing, as the one client there is.
OnlyRefreshing ==
    /\ \A t \in Tokens : owner[t] = First
    /\ file # None => file.client = First
    /\ \A p \in Processes :
          /\ pc[p] \in {"idle", "post", "done", "failed"} \cup Unsaved
          /\ pc[p] \in {"post"} \cup Unsaved => hold[p].client = First
          /\ pc[p] \in {"idle", "post"} => succ[p] = None

RefreshInv == Paced /\ ~disturbed => OnlyRefreshing /\ \E t \in Tokens : Tip(t)

\* Every program counter there is.
Labels == {"idle"} \cup Timed \cup LoggingIn \cup LoggingOut \cup Finished

-----------------------------------------------------------------------------
\* The constants, for leaves that only need their types.
LEMMA Parameters ==
    /\ First \notin Processes /\ None \notin Tokens
    /\ Lifespan \in Nat /\ Buffer \in Nat /\ Window \in Nat /\ Window >= 1
    /\ MaxDelay \in Nat /\ MaxTime \in Nat
BY NamesAssumption, TimeAssumption DEF Tokens

\* Stored (a missing record becomes the zero value) yields credentials.
LEMMA StoredType ==
    ASSUME TypeOK, NEW c \in Tokens PROVE Stored(c) \in Creds /\ Stored(c) # None
BY NoneAssumption DEF TypeOK, Stored, Creds

\* A step that only moves process p keeps the shape.
LEMMA MoveType ==
    ASSUME TypeOK, NEW p \in Processes, NEW l \in Labels, NEW c \in Creds \cup {None},
           Goto(p, l, c), since' \in [Processes -> Nat], now' = now,
           c = None => l \notin (Timed \cup LoggingIn \cup {"revoke"}) \ {"register"},
           l \in {"post", "revoke"} => c.refresh # None,
           file' \in Creds \cup {None}, live' \subseteq Tokens,
           succ' \in [Tokens -> Tokens \cup {None}], minted' \in [Tokens -> Nat],
           owner' \in [Tokens -> Tokens],
           overdue' \in BOOLEAN, loggedOut' \in BOOLEAN, disturbed' \in BOOLEAN
    PROVE  TypeOK'
BY DEF TypeOK, Goto, Labels

\* Every step keeps the shape of file, issuer and processes.
LEMMA TypeStep == TypeOK /\ [Next]_vars => TypeOK'
<1> SUFFICES ASSUME TypeOK, [Next]_vars PROVE TypeOK'
    OBVIOUS
<1> USE Parameters DEF issuer, local, history
<1>1. CASE UNCHANGED vars
    BY <1>1 DEF TypeOK, vars
<1>2. CASE Tick
    BY <1>2 DEF TypeOK, Tick
<1>3. ASSUME NEW p \in Processes, Step(p) PROVE TypeOK'
    <2> p \in Tokens
        BY DEF Tokens
    <2>1. CASE GetAccessToken(p)
        <3>1. CASE file # None /\ file.refresh # None /\ Goto(p, "post", file) /\ since' = [since EXCEPT ![p] = now] /\ UNCHANGED overdue
            BY <2>1, <3>1, MoveType DEF TypeOK, GetAccessToken, Labels, Timed
        <3>2. CASE Returns(p, file.access)
            BY <2>1, <3>2, MoveType DEF TypeOK, GetAccessToken, Returns, Ends, Labels, Timed, LoggingIn, Finished
        <3>3. CASE Ends(p, "failed") /\ UNCHANGED overdue
            BY <2>1, <3>3, MoveType DEF TypeOK, GetAccessToken, Ends, Labels, Timed, LoggingIn, Finished
        <3> QED BY <2>1, <3>1, <3>2, <3>3 DEF GetAccessToken
    <2>2. CASE Refresh(p)
        <3>1. hold[p] \in Creds
            BY <2>2 DEF TypeOK, Refresh, Timed
        <3>2. CASE Ends(p, "refused") /\ UNCHANGED issuer
            BY <2>2, <3>2, MoveType DEF TypeOK, Refresh, Ends, Labels, Timed, LoggingIn, Finished
        <3>3. \A t \in Tokens : Taken(hold[p], t) \in Creds /\ Taken(hold[p], t) # None
            BY <3>1, NoneAssumption DEF Taken, Creds
        <3>4. CASE /\ Rotates(hold[p])
                   /\ Goto(p, "answered", Taken(hold[p], p)) /\ UNCHANGED since
                   /\ live' = (live \ {hold[p].refresh}) \cup {p}
                   /\ succ' = [succ EXCEPT ![hold[p].refresh] = p]
                   /\ minted' = [minted EXCEPT ![p] = now]
                   /\ owner' = [owner EXCEPT ![p] = hold[p].client]
            <4>1. hold[p].client \in Tokens
                BY <3>1 DEF Creds
            <4> QED BY <2>2, <3>3, <3>4, <4>1, MoveType DEF TypeOK, Refresh, Labels, Timed
        <3>5. CASE /\ Replays(hold[p])
                   /\ Goto(p, "answered", Taken(hold[p], succ[hold[p].refresh]))
                   /\ UNCHANGED <<issuer, since>>
            <4>1. hold[p].refresh \in Tokens \cup {None}
                BY <3>1 DEF Creds
            <4>2. hold[p].refresh \in Tokens /\ succ[hold[p].refresh] \in Tokens
                BY <3>5, <4>1, <2>2 DEF TypeOK, Replays, Refresh
            <4> QED BY <2>2, <3>3, <3>5, <4>2, MoveType DEF TypeOK, Refresh, Labels, Timed
        <3> QED BY <2>2, <3>2, <3>4, <3>5 DEF Refresh
    <2>3. CASE Receive(p)
        <3>1. [hold[p] EXCEPT !.expires = now + Lifespan] \in Creds
            BY <2>3 DEF TypeOK, Receive, Timed, Creds
        <3> QED BY <2>3, <3>1, NoneAssumption, MoveType DEF TypeOK, Receive, Labels, Timed
    <2>4. CASE SaveRefreshed(p)
        BY <2>4, MoveType DEF TypeOK, SaveRefreshed, Returns, Ends, Labels, Timed, LoggingIn, Finished
    <2>5. CASE StartLogin(p)
        BY <2>5, MoveType DEF TypeOK, StartLogin, Labels, Timed, LoggingIn
    <2>6. CASE Register(p)
        BY <2>6, StoredType, MoveType DEF TypeOK, Register, Labels, LoggingIn
    <2>7. CASE SaveClient(p)
        BY <2>7, MoveType DEF TypeOK, SaveClient, Labels, LoggingIn
    <2>8. CASE Callback(p)
        BY <2>8, MoveType DEF TypeOK, Callback, Labels, LoggingIn, Timed
    <2>9. CASE Redeem(p)
        <3>1. hold[p] \in Creds /\ hold[p].client \in Tokens
            BY <2>9 DEF TypeOK, Redeem, Timed, Creds
        <3> QED BY <2>9, <3>1, NoneAssumption, MoveType DEF TypeOK, Redeem, Labels, Timed
    <2>10. CASE Reload(p)
        <3>1. hold[p] \in Creds /\ hold[p].client \in Tokens
            BY <2>10 DEF TypeOK, Reload, Timed, Creds
        <3> DEFINE c == [Stored(hold[p].client) EXCEPT !.access = p, !.expires = now + Lifespan]
                   d == IF p \in live THEN [c EXCEPT !.refresh = p] ELSE c
        <3> DEFINE s == Stored(hold[p].client)
        <3>5. s \in Creds /\ now + Lifespan \in Nat
            BY <3>1, StoredType DEF TypeOK
        <3> HIDE DEF s
        <3>2. [s EXCEPT !.access = p, !.expires = now + Lifespan] \in Creds
            BY <3>5 DEF Creds
        <3> USE DEF s
        <3>3. d \in Creds
            BY <3>2 DEF Creds
        <3>4. Goto(p, "saveLogin", d)
            BY <2>10 DEF Reload
        <3> HIDE DEF d
        <3> QED BY <2>10, <3>3, <3>4, NoneAssumption, MoveType DEF TypeOK, Reload, Labels, Timed
    <2>11. CASE SaveLogin(p)
        BY <2>11, MoveType DEF TypeOK, SaveLogin, Ends, Labels, Timed, LoggingIn, Finished
    <2>12. CASE StartLogout(p)
        <3>1. CASE file = None /\ LogoutReturns(p) /\ UNCHANGED disturbed
            BY <2>12, <3>1, MoveType DEF TypeOK, StartLogout, LogoutReturns, Ends, Labels, Timed, LoggingIn, Finished
        <3>2. CASE file # None
            BY <2>12, <3>2, MoveType DEF TypeOK, StartLogout, Labels, LoggingOut
        <3> QED BY <2>12, <3>1, <3>2 DEF StartLogout
    <2>13. CASE Revoke(p)
        BY <2>13, MoveType DEF TypeOK, Revoke, Revoked, Labels, Timed, LoggingIn, LoggingOut
    <2>14. CASE Delete(p)
        BY <2>14, MoveType DEF TypeOK, Delete, LogoutReturns, Ends, Labels, Timed, LoggingIn, Finished
    <2>15. CASE Abort(p)
        BY <2>15, MoveType DEF TypeOK, Abort, Ends, Labels, Timed, LoggingIn, Finished
    <2> QED BY <1>3, <2>1, <2>2, <2>3, <2>4, <2>5, <2>6, <2>7, <2>8, <2>9, <2>10,
               <2>11, <2>12, <2>13, <2>14, <2>15 DEF Step
<1> QED BY <1>1, <1>2, <1>3 DEF Next

LEMMA TypeInit == Init => TypeOK
<1> SUFFICES ASSUME Init PROVE TypeOK
    OBVIOUS
<1>1. [client |-> First, access |-> First, refresh |-> First, expires |-> Lifespan] \in Creds
    BY Parameters DEF Creds, Tokens
<1>2. file \in Creds \cup {None}
    BY <1>1 DEF Init
<1> QED BY <1>2, Parameters DEF Init, TypeOK, Tokens, Timed, LoggingIn

\* Every reachable state of file, issuer and processes has the shape TypeOK states,
\* and a process that is to use or save credentials has some.
THEOREM CliTypeCorrect == Spec => []TypeOK
<1> QED BY TypeInit, TypeStep, PTL DEF Spec

-----------------------------------------------------------------------------
(* Logout *)

LEMMA LogoutStep == TypeOK /\ LogoutInv /\ [Next]_vars => LogoutInv'
<1> SUFFICES ASSUME TypeOK, LogoutInv, [Next]_vars PROVE LogoutInv'
    OBVIOUS
<1> USE DEF LogoutInv, Writers, Timed, LoggingIn, issuer, local, history
<1>1. CASE UNCHANGED vars
    BY <1>1 DEF vars
<1>2. CASE Tick
    BY <1>2 DEF Tick
<1>3. ASSUME NEW p \in Processes, Step(p) PROVE LogoutInv'
    <2>1. CASE GetAccessToken(p)
        BY <2>1 DEF TypeOK, GetAccessToken, Returns, Ends, Goto
    <2>2. CASE Refresh(p) \/ Receive(p)
        BY <2>2 DEF Refresh, Receive
    <2>3. CASE SaveRefreshed(p) \/ SaveClient(p) \/ SaveLogin(p)
        BY <2>3 DEF SaveRefreshed, SaveClient, SaveLogin
    <2>4. CASE StartLogin(p)
        BY <2>4 DEF StartLogin
    <2>5. CASE Register(p) \/ Callback(p) \/ Redeem(p) \/ Reload(p)
        BY <2>5 DEF Register, Callback, Redeem, Reload
    <2>6. CASE StartLogout(p) \/ Delete(p)
        BY <2>6 DEF TypeOK, StartLogout, Delete, LogoutReturns, Ends, Goto
    <2>7. CASE Revoke(p)
        BY <2>7 DEF TypeOK, Revoke, Goto
    <2>8. CASE Abort(p)
        BY <2>8 DEF TypeOK, Abort, Ends, Goto
    <2> QED BY <1>3, <2>1, <2>2, <2>3, <2>4, <2>5, <2>6, <2>7, <2>8 DEF Step
<1> QED BY <1>1, <1>2, <1>3 DEF Next

\* LogoutSticks for any number of processes: after a logout that returned with no
\* writer under way there are no credentials until somebody logs in.
THEOREM LogoutIsFinal == Spec => []LogoutSticks
<1>1. Init => LogoutInv
    BY DEF Init, LogoutInv
<1>2. LogoutInv => LogoutSticks
    BY DEF LogoutInv, LogoutSticks
<1> QED BY <1>1, <1>2, CliTypeCorrect, LogoutStep, PTL DEF Spec

-----------------------------------------------------------------------------
(* Access tokens *)

LEMMA TimeStep == TypeOK /\ TimeInv /\ [Next]_vars => TimeInv'
<1> SUFFICES ASSUME TypeOK, TimeInv, [Next]_vars PROVE TimeInv'
    OBVIOUS
<1> USE Parameters DEF TimeInv, issuer, local, history
<1>1. CASE UNCHANGED vars
    BY <1>1 DEF vars
<1>2. CASE Tick
    BY <1>2 DEF TypeOK, Tick
<1>3. ASSUME NEW p \in Processes, Step(p) PROVE TimeInv'
    <2> USE DEF TypeOK, Goto, Ends
    <2>1. CASE GetAccessToken(p)
        BY <2>1 DEF GetAccessToken, Returns, Timed
    <2>2. CASE Refresh(p)
        BY <2>2 DEF Refresh, Timed
    <2>3. CASE Receive(p) \/ SaveRefreshed(p)
        BY <2>3 DEF Receive, SaveRefreshed, Returns, Timed
    <2>4. CASE StartLogin(p) \/ Register(p) \/ SaveClient(p)
        BY <2>4 DEF StartLogin, Register, SaveClient, Timed
    <2>5. CASE Callback(p)
        BY <2>5 DEF Callback, Timed
    <2>6. CASE Redeem(p) \/ Reload(p) \/ SaveLogin(p)
        BY <2>6 DEF Redeem, Reload, SaveLogin, Timed
    <2>7. CASE StartLogout(p) \/ Revoke(p) \/ Delete(p)
        BY <2>7 DEF StartLogout, Revoke, Delete, LogoutReturns, Timed
    <2>8. CASE Abort(p)
        BY <2>8 DEF Abort, Timed
    <2> QED BY <1>3, <2>1, <2>2, <2>3, <2>4, <2>5, <2>6, <2>7, <2>8 DEF Step
<1> QED BY <1>1, <1>2, <1>3 DEF Next

\* More known pairs, and the same times for the old ones, leave credentials sound.
LEMMA StaySound ==
    ASSUME NEW K, NEW K2, NEW m, NEW m2, NEW c, K \subseteq K2, None \notin K,
           \A t \in K : m2[t] = m[t], Sound(c, K, m)
    PROVE  Sound(c, K2, m2)
BY DEF Sound

LEMMA StayYoung ==
    ASSUME NEW K, NEW K2, NEW m, NEW m2, NEW c, NEW s, K \subseteq K2,
           \A t \in K : m2[t] = m[t], Young(c, K, m, s)
    PROVE  Young(c, K2, m2, s)
BY DEF Young

\* A process never becomes able to mint again, and a known pair keeps its time.
LEMMA KnownGrows ==
    ASSUME TypeOK, NEW p \in Processes, Step(p)
    PROVE  Known \subseteq Known' /\ \A t \in Known : minted'[t] = minted[t]
<1> USE DEF TypeOK, Known, Minting, LoggingIn, Goto, Ends, issuer, history, Tokens
<1> USE Parameters
<1>1. CASE GetAccessToken(p)
    BY <1>1 DEF GetAccessToken, Returns
<1>2. CASE Refresh(p)
    BY <1>2 DEF Refresh
<1>3. CASE Receive(p) \/ SaveRefreshed(p)
    BY <1>3 DEF Receive, SaveRefreshed, Returns
<1>4. CASE StartLogin(p) \/ Register(p) \/ SaveClient(p) \/ Callback(p)
    BY <1>4 DEF StartLogin, Register, SaveClient, Callback
<1>5. CASE Redeem(p) \/ Reload(p) \/ SaveLogin(p)
    BY <1>5 DEF Redeem, Reload, SaveLogin
<1>6. CASE StartLogout(p) \/ Revoke(p) \/ Delete(p) \/ Abort(p)
    BY <1>6 DEF StartLogout, Revoke, Delete, LogoutReturns, Abort
<1> QED BY <1>1, <1>2, <1>3, <1>4, <1>5, <1>6 DEF Step

\* A step of p keeps what CredsInv says of the others.
LEMMA OthersStaySound ==
    ASSUME TypeOK, CredsInv, NEW p \in Processes, Step(p),
           \A q \in Processes \ {p} :
              pc'[q] = pc[q] /\ hold'[q] = hold[q] /\ since'[q] = since[q],
           live' \subseteq Known', \A t \in Tokens : succ'[t] \in Known' \cup {None},
           file' # None => Sound(file', Known', minted'),
           hold'[p] # None /\ pc'[p] # "answered" => Sound(hold'[p], Known', minted'),
           pc'[p] \in {"answered", "saveRefreshed"} =>
              Young(hold'[p], Known', minted', since'[p]),
           pc'[p] = "reload" => since'[p] <= minted'[p]
    PROVE  CredsInv'
<1>1. Known \subseteq Known' /\ \A t \in Known : minted'[t] = minted[t]
    BY KnownGrows
<1>2. None \notin Known
    BY Parameters DEF Known, Tokens
<1>3. ASSUME NEW q \in Processes \ {p}, hold[q] # None, pc[q] # "answered"
      PROVE  Sound(hold[q], Known', minted')
    BY <1>1, <1>2, <1>3, StaySound DEF CredsInv
<1>4. ASSUME NEW q \in Processes \ {p}, pc[q] \in {"answered", "saveRefreshed"}
      PROVE  Young(hold[q], Known', minted', since[q])
    BY <1>1, <1>4, StayYoung DEF CredsInv
<1>5. ASSUME NEW q \in Processes \ {p}, pc[q] = "reload"
      PROVE  since[q] <= minted'[q]
    BY <1>1, <1>5 DEF CredsInv, Known, Minting, LoggingIn
<1> QED BY <1>3, <1>4, <1>5 DEF CredsInv

\* The facts every case of CredsStep starts from.
LEMMA StepFacts ==
    ASSUME TypeOK, CredsInv, NEW p \in Processes, Step(p)
    PROVE  /\ Known \subseteq Known' /\ \A t \in Known : minted'[t] = minted[t]
           /\ None \notin Known
           /\ file # None => Sound(file, Known', minted')
           /\ hold[p] # None /\ pc[p] # "answered" => Sound(hold[p], Known', minted')
           /\ live \subseteq Known'
           /\ \A t \in Tokens : succ[t] \in Known' \cup {None}
<1>1. Known \subseteq Known' /\ \A t \in Known : minted'[t] = minted[t]
    BY KnownGrows
<1>2. None \notin Known
    BY Parameters DEF Known, Tokens
<1>3. file # None => Sound(file, Known', minted')
    BY <1>1, <1>2, StaySound DEF CredsInv
<1>4. hold[p] # None /\ pc[p] # "answered" => Sound(hold[p], Known', minted')
    BY <1>1, <1>2, StaySound DEF CredsInv
<1> QED BY <1>1, <1>2, <1>3, <1>4 DEF CredsInv

\* What Stored returns is as sound as the file.
LEMMA StoredSound ==
    ASSUME TypeOK, NEW c \in Tokens, NEW K, NEW m, file # None => Sound(file, K, m)
    PROVE  Sound(Stored(c), K, m)
<1>1. CASE file # None
    <2>1. file \in Creds
        BY <1>1 DEF TypeOK
    <2>2. /\ Stored(c).access = file.access /\ Stored(c).refresh = file.refresh
          /\ Stored(c).expires = file.expires
        BY <1>1, <2>1 DEF Stored, Creds
    <2> QED BY <1>1, <2>2 DEF Sound
<1>2. CASE file = None
    BY <1>2 DEF Stored, Sound
<1> QED BY <1>1, <1>2

LEMMA CredsStep == TypeOK /\ TypeOK' /\ TimeInv /\ CredsInv /\ [Next]_vars => CredsInv'
<1> SUFFICES ASSUME TypeOK, TypeOK', TimeInv, CredsInv, [Next]_vars PROVE CredsInv'
    OBVIOUS
<1> USE Parameters DEF issuer, local, history
<1>1. CASE UNCHANGED vars
    BY <1>1 DEF vars, CredsInv, Known
<1>2. CASE Tick
    BY <1>2 DEF Tick, CredsInv, Known
<1>3. ASSUME NEW p \in Processes, Step(p) PROVE CredsInv'
    <2> p \in Tokens
        BY DEF Tokens
    <2>0. /\ Known \subseteq Known' /\ \A t \in Known : minted'[t] = minted[t]
          /\ None \notin Known
          /\ file # None => Sound(file, Known', minted')
          /\ hold[p] # None /\ pc[p] # "answered" => Sound(hold[p], Known', minted')
          /\ live \subseteq Known'
          /\ \A t \in Tokens : succ[t] \in Known' \cup {None}
        BY <1>3, StepFacts
    <2>1. CASE GetAccessToken(p)
        BY <1>3, <2>0, <2>1, OthersStaySound DEF TypeOK, GetAccessToken, Returns, Ends, Goto
    <2>2. CASE Refresh(p)
        <3>1. /\ hold[p] \in Creds /\ hold[p] # None
              /\ hold[p].refresh \in Tokens
              /\ since[p] \in Nat /\ now \in Nat /\ since[p] <= now
            BY <2>2 DEF TypeOK, TimeInv, Refresh, Timed, Creds
        <3>2. CASE Ends(p, "refused") /\ UNCHANGED issuer
            BY <1>3, <2>0, <2>2, <3>2, OthersStaySound DEF TypeOK, Refresh, Ends, Goto
        <3>3. ASSUME NEW t \in Known', minted'[t] \in Nat, now < minted'[t] + Window
              PROVE  Young(Taken(hold[p], t), Known', minted', since[p])
            <4>1. Taken(hold[p], t).access = t /\ Taken(hold[p], t).refresh = t
                BY <3>1 DEF Taken, Creds
            <4> QED BY <3>1, <3>3, <4>1 DEF Young
        <3>4. CASE /\ Rotates(hold[p])
                   /\ Goto(p, "answered", Taken(hold[p], p)) /\ UNCHANGED since
                   /\ live' = (live \ {hold[p].refresh}) \cup {p}
                   /\ succ' = [succ EXCEPT ![hold[p].refresh] = p]
                   /\ minted' = [minted EXCEPT ![p] = now]
            <4>1. p \in Known' /\ minted'[p] = now
                BY <3>4 DEF TypeOK, Known, Minting, LoggingIn, Goto
            <4>2. Young(Taken(hold[p], p), Known', minted', since[p])
                BY <3>1, <3>3, <4>1
            <4>3. /\ \A q \in Processes \ {p} :
                        pc'[q] = pc[q] /\ hold'[q] = hold[q] /\ since'[q] = since[q]
                  /\ pc'[p] = "answered" /\ hold'[p] = Taken(hold[p], p) /\ since'[p] = since[p]
                  /\ file' = file
                BY <2>2, <3>4 DEF TypeOK, Refresh, Goto
            <4>4. live' \subseteq Known' /\ \A t \in Tokens : succ'[t] \in Known' \cup {None}
                BY <2>0, <3>1, <3>4, <4>1 DEF TypeOK
            <4> QED BY <1>3, <2>0, <4>2, <4>3, <4>4, OthersStaySound
        <3>5. CASE /\ Replays(hold[p])
                   /\ Goto(p, "answered", Taken(hold[p], succ[hold[p].refresh]))
                   /\ UNCHANGED <<issuer, since>>
            <4>1. succ[hold[p].refresh] \in Known'
                BY <2>0, <3>1, <3>5 DEF Replays
            <4>2. Young(Taken(hold[p], succ[hold[p].refresh]), Known', minted', since[p])
                BY <2>2, <3>1, <3>3, <3>5, <4>1 DEF TypeOK, Replays, Refresh
            <4> QED BY <1>3, <2>0, <2>2, <3>5, <4>2, OthersStaySound DEF TypeOK, Refresh, Goto
        <3> QED BY <2>2, <3>2, <3>4, <3>5 DEF Refresh
    <2>3. CASE Receive(p)
        <3> DEFINE c == [hold[p] EXCEPT !.expires = now + Lifespan]
        <3>1. /\ hold[p] \in Creds /\ hold[p] # None
              /\ now \in Nat /\ since[p] \in Nat /\ now <= since[p] + MaxDelay
            BY <2>3 DEF TypeOK, TimeInv, Receive, Timed
        <3>2. /\ c.access = hold[p].access /\ c.refresh = hold[p].refresh
              /\ c.expires = now + Lifespan
            BY <3>1 DEF Creds
        <3>3. Young(hold[p], Known, minted, since[p]) /\ minted' = minted /\ since' = since
            BY <2>3 DEF CredsInv, Receive
        <3>4. hold[p].access \in Known' /\ hold[p].access # None /\ minted[hold[p].access] \in Nat
            BY <2>0, <3>1, <3>3 DEF Young, TypeOK, Creds
        <3>5. Young(c, Known', minted', since'[p]) /\ Sound(c, Known', minted')
            BY <2>0, <3>1, <3>2, <3>3, <3>4 DEF Young, Sound
        <3>6. Goto(p, "saveRefreshed", c)
            BY <2>3 DEF Receive
        <3> HIDE DEF c
        <3> QED BY <1>3, <2>0, <2>3, <3>5, <3>6, OthersStaySound DEF TypeOK, Receive, Goto
    <2>4. CASE SaveRefreshed(p)
        BY <1>3, <2>0, <2>4, OthersStaySound DEF TypeOK, SaveRefreshed, Returns, Ends, Goto
    <2>5. CASE StartLogin(p)
        BY <1>3, <2>0, <2>5, OthersStaySound DEF TypeOK, StartLogin, Goto
    <2>6. CASE Register(p)
        <3>1. Sound(Stored(p), Known', minted')
            BY <2>0, StoredSound
        <3> QED BY <1>3, <2>0, <2>6, <3>1, OthersStaySound DEF TypeOK, Register, Goto
    <2>7. CASE SaveClient(p)
        BY <1>3, <2>0, <2>7, OthersStaySound DEF TypeOK, SaveClient, Goto
    <2>8. CASE Callback(p)
        BY <1>3, <2>0, <2>8, OthersStaySound DEF TypeOK, Callback, Goto
    <2>9. CASE Redeem(p)
        <3>1. p \in Known' /\ minted'[p] = now
            BY <2>9 DEF TypeOK, Redeem, Known, Minting, LoggingIn, Goto
        <3>2. since[p] <= now
            BY <2>9 DEF TimeInv, Redeem, Timed
        <3>3. /\ \A q \in Processes \ {p} :
                    pc'[q] = pc[q] /\ hold'[q] = hold[q] /\ since'[q] = since[q]
              /\ pc'[p] = "reload" /\ hold'[p] = hold[p] /\ since'[p] = since[p]
              /\ file' = file /\ succ' = succ /\ pc[p] = "redeem"
            BY <2>9 DEF TypeOK, Redeem, Goto
        <3>4. live' \subseteq Known'
            BY <2>0, <2>9, <3>1 DEF Redeem
        <3> QED BY <1>3, <2>0, <3>1, <3>2, <3>3, <3>4, OthersStaySound
    <2>10. CASE Reload(p)
        <3> DEFINE s == Stored(hold[p].client)
                   c == [s EXCEPT !.access = p, !.expires = now + Lifespan]
                   d == IF p \in live THEN [c EXCEPT !.refresh = p] ELSE c
        <3>1. /\ hold[p] \in Creds /\ hold[p].client \in Tokens
              /\ now \in Nat /\ since[p] \in Nat /\ now <= since[p] + MaxDelay
              /\ since[p] <= minted[p] /\ minted[p] \in Nat
            BY <2>10 DEF TypeOK, TimeInv, CredsInv, Reload, Timed, Creds
        <3>2. s \in Creds /\ Sound(s, Known', minted')
            BY <2>0, <3>1, StoredType, StoredSound
        <3>3. p \in Known /\ p \in Known' /\ minted'[p] = minted[p]
            BY <2>0, <2>10 DEF Reload, Known, Minting, LoggingIn
        <3>4. Goto(p, "saveLogin", d)
            BY <2>10 DEF Reload
        <3> HIDE DEF s
        <3>5. /\ d.access = p /\ d.expires = now + Lifespan
              /\ d.refresh \in {p, s.refresh}
            BY <3>2 DEF Creds
        <3>6. Sound(d, Known', minted')
            BY <2>0, <3>1, <3>2, <3>3, <3>5 DEF Sound
        <3> HIDE DEF d
        <3> QED BY <1>3, <2>0, <2>10, <3>4, <3>6, OthersStaySound DEF TypeOK, Reload, Goto
    <2>11. CASE SaveLogin(p)
        BY <1>3, <2>0, <2>11, OthersStaySound DEF TypeOK, SaveLogin, Ends, Goto
    <2>12. CASE StartLogout(p)
        BY <1>3, <2>0, <2>12, OthersStaySound DEF TypeOK, StartLogout, LogoutReturns, Ends, Goto
    <2>13. CASE Revoke(p)
        BY <1>3, <2>0, <2>13, OthersStaySound DEF TypeOK, Revoke, Revoked, Goto
    <2>14. CASE Delete(p)
        BY <1>3, <2>0, <2>14, OthersStaySound DEF TypeOK, Delete, LogoutReturns, Ends, Goto
    <2>15. CASE Abort(p)
        BY <1>3, <2>0, <2>15, OthersStaySound DEF TypeOK, Abort, Ends, Goto
    <2> QED BY <1>3, <2>1, <2>2, <2>3, <2>4, <2>5, <2>6, <2>7, <2>8, <2>9, <2>10,
               <2>11, <2>12, <2>13, <2>14, <2>15 DEF Step
<1> QED BY <1>1, <1>2, <1>3 DEF Next

LEMMA OverdueStep ==
    TypeOK /\ TimeInv /\ CredsInv /\ (Buffered => ~overdue) /\ [Next]_vars
        => (Buffered => ~overdue)'
<1> SUFFICES ASSUME TypeOK, TimeInv, CredsInv, ~overdue, Buffered, [Next]_vars
             PROVE  ~overdue'
    BY DEF Buffered
<1> USE Parameters DEF issuer, local, history
<1>1. CASE UNCHANGED vars
    BY <1>1 DEF vars
<1>2. CASE Tick
    BY <1>2 DEF Tick
<1>3. ASSUME NEW p \in Processes, Step(p) PROVE ~overdue'
    <2>1. CASE GetAccessToken(p)
        <3>1. CASE file # None /\ ~NeedsRefresh(file) /\ Returns(p, file.access)
            <4>1. /\ Sound(file, Known, minted) /\ file \in Creds
                  /\ Known \subseteq Tokens /\ None \notin Known
                BY <3>1 DEF CredsInv, TypeOK, Known, Tokens
            <4>2. file.expires \in Nat /\ now \in Nat /\ now + Buffer < file.expires
                BY <3>1, <4>1 DEF NeedsRefresh, TypeOK, Creds
            <4>3. /\ file.access \in Tokens
                  /\ file.expires < minted[file.access] + Lifespan + Window + MaxDelay
                BY <4>1, <4>2 DEF Sound
            <4>4. minted[file.access] \in Nat
                BY <4>3 DEF TypeOK
            <4>5. now < minted[file.access] + Lifespan
                BY <4>2, <4>3, <4>4 DEF Buffered
            <4>6. ~(now >= minted[file.access] + Lifespan)
                BY <4>2, <4>4, <4>5
            <4> QED BY <3>1, <4>6, Zenon DEF Returns
        <3> QED BY <2>1, <3>1 DEF GetAccessToken
    <2>2. CASE SaveRefreshed(p)
        <3>1. /\ Young(hold[p], Known, minted, since[p]) /\ hold[p] \in Creds
              /\ now <= since[p] + MaxDelay /\ Known \subseteq Tokens
            BY <2>2 DEF CredsInv, TypeOK, TimeInv, SaveRefreshed, Timed, Known, Tokens
        <3>2. hold[p].access \in Tokens /\ since[p] < minted[hold[p].access] + Window
            BY <3>1 DEF Young
        <3>3. minted[hold[p].access] \in Nat /\ since[p] \in Nat /\ now \in Nat
            BY <3>2 DEF TypeOK
        <3>4. now < minted[hold[p].access] + Lifespan
            BY <3>1, <3>2, <3>3 DEF Buffered
        <3>5. ~(now >= minted[hold[p].access] + Lifespan)
            BY <3>3, <3>4
        <3> QED BY <2>2, <3>5, Zenon DEF SaveRefreshed, Returns
    <2>3. CASE Refresh(p) \/ Receive(p)
        BY <2>3 DEF Refresh, Receive
    <2>4. CASE StartLogin(p) \/ Register(p) \/ SaveClient(p) \/ Callback(p)
        BY <2>4 DEF StartLogin, Register, SaveClient, Callback
    <2>5. CASE Redeem(p) \/ Reload(p) \/ SaveLogin(p)
        BY <2>5 DEF Redeem, Reload, SaveLogin
    <2>6. CASE StartLogout(p) \/ Revoke(p) \/ Delete(p) \/ Abort(p)
        BY <2>6 DEF StartLogout, Revoke, Delete, Abort
    <2> QED BY <1>3, <2>1, <2>2, <2>3, <2>4, <2>5, <2>6 DEF Step
<1> QED BY <1>1, <1>2, <1>3 DEF Next

LEMMA ValidInit == Init => ValidInv
<1> SUFFICES ASSUME Init PROVE ValidInv
    OBVIOUS
<1> USE Parameters
<1>1. TimeInv
    BY DEF Init, TimeInv, Timed
<1>2. file # None => Sound(file, Known, minted)
    BY DEF Init, Sound, Known, Tokens
<1>3. CredsInv
    BY <1>2 DEF Init, CredsInv, Known
<1> QED BY <1>1, <1>3 DEF Init, ValidInv

\* AccessStillValid for all lifetimes: with a refresh buffer of at least the replay
\* window and the longest delay, less one tick, GetAccessToken returns no expired
\* token, whatever logins, logouts, replays and failures overlap.
THEOREM ReturnedTokensAreValid == Spec => []AccessStillValid
<1>1. ValidInv => AccessStillValid
    BY DEF ValidInv, AccessStillValid, Buffered
<1>2. TypeOK /\ TypeOK' /\ ValidInv /\ [Next]_vars => ValidInv'
    BY TimeStep, CredsStep, OverdueStep DEF ValidInv
<1> QED BY <1>1, <1>2, ValidInit, CliTypeCorrect, PTL DEF Spec

-----------------------------------------------------------------------------
(* Parallel refreshing *)

\* Nobody rotates t while its predecessor is still in use: the rotating process
\* began when t was due, the others ended before.
LEMMA NoHaste ==
    ASSUME TypeOK, TimeInv, Paced, NEW t \in Tokens, Tip(t),
           NEW p \in Processes, pc[p] = "post", hold[p].refresh = t
    PROVE  /\ since[p] <= now /\ now > minted[t] + 2 * MaxDelay
           /\ \A q \in Processes : pc[q] \notin Unsaved
           /\ \A q \in Processes : pc[q] = "post" => hold[q].refresh = t
           /\ file # None => file.refresh = t
<1> USE Parameters
<1>1. /\ now \in Nat /\ minted[t] \in Nat /\ \A q \in Processes : since[q] \in Nat
    BY DEF TypeOK
<1>2. \A q \in Processes : pc[q] \in {"post"} \cup Unsaved =>
          since[q] <= now /\ now <= since[q] + MaxDelay
    BY DEF TimeInv, Timed, Unsaved
<1>3. succ[t] = None /\ t # None
    BY DEF Tip, Tokens
<1>4. since[p] + Buffer >= minted[t] + Lifespan
    BY <1>3 DEF Tip, TipOfPost
<1>5. since[p] <= now /\ now > minted[t] + 2 * MaxDelay
    BY <1>1, <1>2, <1>4 DEF Paced
<1>6. ASSUME NEW q \in Processes, pc[q] \in {"post"} \cup Unsaved, since[q] <= minted[t] + MaxDelay
      PROVE  FALSE
    BY <1>1, <1>2, <1>5, <1>6
<1>7. \A q \in Processes : pc[q] \notin Unsaved
    BY <1>6 DEF Tip, TipOfUnsaved
<1>8. \A q \in Processes : pc[q] = "post" => hold[q].refresh = t
    BY <1>6 DEF Tip, TipOfPost
<1>9. file # None => file.refresh = t
    BY <1>7 DEF Tip, TipOfFile
<1> QED BY <1>5, <1>7, <1>8, <1>9

LEMMA RefreshStep == TypeOK /\ TimeInv /\ RefreshInv /\ [Next]_vars => RefreshInv'
<1> SUFFICES ASSUME TypeOK, TimeInv, RefreshInv, [Next]_vars, Paced, ~disturbed'
             PROVE  OnlyRefreshing' /\ (\E t \in Tokens : Tip(t))'
    BY DEF RefreshInv, Paced
<1> USE Parameters DEF issuer, local, history
<1>1. ~disturbed
    <2>1. CASE UNCHANGED vars
        BY <2>1 DEF vars
    <2>2. CASE Tick
        BY <2>2 DEF Tick
    <2>3. ASSUME NEW p \in Processes, Step(p) PROVE ~disturbed
        BY <2>3, Zenon DEF Step, GetAccessToken, Refresh, Receive, SaveRefreshed, StartLogin,
           Register, SaveClient, Callback, Redeem, Reload, SaveLogin, StartLogout, Revoke, Delete, Abort
    <2> QED BY <2>1, <2>2, <2>3 DEF Next
<1>2. OnlyRefreshing /\ \E t \in Tokens : Tip(t)
    BY <1>1 DEF RefreshInv
<1>3. PICK t \in Tokens : Tip(t)
    BY <1>2
<1>4. SUFFICES OnlyRefreshing' /\ \E u \in Tokens : Tip(u)'
    OBVIOUS
<1>5. CASE UNCHANGED vars
    <2>1. Tip(t)'
        BY <1>3, <1>5 DEF vars, Tip, TipOfFile, TipOfPost, TipOfUnsaved
    <2> QED BY <1>2, <1>5, <2>1 DEF vars, OnlyRefreshing
<1>6. CASE Tick
    <2>1. minted[t] <= now'
        BY <1>3, <1>6 DEF Tick, Tip, TypeOK
    <2>2. Tip(t)'
        BY <1>3, <1>6, <2>1 DEF Tick, Tip, TipOfFile, TipOfPost, TipOfUnsaved
    <2> QED BY <1>2, <1>6, <2>2 DEF Tick, OnlyRefreshing
<1>7. ASSUME NEW p \in Processes, Step(p) PROVE OnlyRefreshing' /\ \E u \in Tokens : Tip(u)'
    <2>0. /\ p \in Tokens /\ t # None
          /\ pc[p] \in {"idle", "post", "done", "failed", "answered", "saveRefreshed"}
          /\ pc[p] \in {"idle", "post"} => p # t
        BY <1>2, <1>3 DEF OnlyRefreshing, Unsaved, Tip, Tokens
    <2>1. CASE GetAccessToken(p)
        <3>1. p # t /\ pc[p] = "idle" /\ UNCHANGED <<now, file, issuer>>
            BY <2>0, <2>1 DEF GetAccessToken
        <3>2. CASE Ends(p, "done") \/ Ends(p, "failed")
            <4>1. Tip(t)'
                BY <1>3, <3>1, <3>2 DEF TypeOK, Ends, Goto, Tip, TipOfFile, TipOfPost, TipOfUnsaved, Unsaved
            <4> QED BY <1>2, <3>1, <3>2, <4>1 DEF TypeOK, Ends, Goto, OnlyRefreshing, Unsaved
        <3>3. CASE /\ file # None /\ NeedsRefresh(file)
                   /\ Goto(p, "post", file) /\ since' = [since EXCEPT ![p] = now]
            <4>1. pc'[p] = "post" /\ hold'[p] = file /\ since'[p] = now
                BY <3>3 DEF TypeOK, Goto
            <4>2. TipOfPost(p, t)'
                <5>1. /\ now \in Nat /\ minted[t] \in Nat /\ file \in Creds
                      /\ \A q \in Processes : since[q] \in Nat
                    BY <3>3 DEF TypeOK
                <5>2. CASE file.refresh = t /\ file.expires >= minted[t] + Lifespan
                    BY <3>1, <3>3, <4>1, <5>1, <5>2 DEF NeedsRefresh, TipOfPost, Creds
                <5>3. CASE /\ file.refresh \in Tokens /\ succ[file.refresh] = t
                           /\ t \in Processes /\ pc[t] \in Unsaved /\ since[t] <= minted[t]
                    <6>1. now <= since[t] + MaxDelay
                        BY <5>3 DEF TimeInv, Timed, Unsaved
                    <6> QED BY <3>1, <4>1, <5>1, <5>3, <6>1 DEF TipOfPost
                <5> QED BY <1>3, <3>3, <5>2, <5>3 DEF Tip, TipOfFile
            <4>3. \A q \in Processes \ {p} :
                      pc'[q] = pc[q] /\ hold'[q] = hold[q] /\ since'[q] = since[q]
                BY <3>3 DEF TypeOK, Goto
            <4>4. Tip(t)'
                BY <1>3, <3>1, <4>1, <4>2, <4>3 DEF Tip, TipOfFile, TipOfPost, TipOfUnsaved, Unsaved
            <4> QED BY <1>2, <3>1, <3>3, <4>1, <4>3, <4>4 DEF OnlyRefreshing, Unsaved
        <3> QED BY <2>1, <3>2, <3>3 DEF GetAccessToken, Returns
    <2>2. CASE Refresh(p)
        <3>1. /\ hold[p] \in Creds /\ hold[p].client = First /\ pc[p] = "post" /\ p # t
              /\ owner[hold[p].refresh] = First /\ hold[p].refresh \in Tokens
              /\ UNCHANGED <<now, file>>
            BY <1>2, <2>0, <2>2 DEF OnlyRefreshing, TypeOK, Refresh, Timed, Creds
        <3>2. live = {t} /\ succ[t] = None /\ TipOfPost(p, t)
            BY <1>3, <3>1 DEF Tip
        <3>3. /\ now \in Nat /\ minted[t] \in Nat /\ \A q \in Processes : since[q] \in Nat
            BY DEF TypeOK
        <3>4. CASE hold[p].refresh = t
            <4>1. /\ since[p] <= now
                  /\ \A q \in Processes : pc[q] \notin Unsaved
                  /\ \A q \in Processes : pc[q] = "post" => hold[q].refresh = t
                  /\ file # None => file.refresh = t
                BY <1>3, <3>1, <3>4, NoHaste
            <4>2. Rotates(hold[p]) /\ ~Replays(hold[p])
                BY <3>1, <3>2, <3>4 DEF Rotates, Replays
            <4>3. /\ live' = {p}
                  /\ succ' = [succ EXCEPT ![t] = p]
                  /\ minted' = [minted EXCEPT ![p] = now]
                  /\ owner' = [owner EXCEPT ![p] = First]
                  /\ Goto(p, "answered", Taken(hold[p], p)) /\ since' = since
                BY <2>2, <3>1, <3>2, <3>4, <4>2 DEF Refresh
            <4>4. /\ pc'[p] = "answered" /\ hold'[p].refresh = p /\ hold'[p].client = First
                  /\ \A q \in Processes \ {p} : pc'[q] = pc[q] /\ hold'[q] = hold[q]
                BY <3>1, <4>3 DEF TypeOK, Goto, Taken, Creds
            <4>5. succ'[t] = p /\ succ'[p] = None /\ minted'[p] = now
                BY <1>2, <2>0, <3>1, <4>3 DEF TypeOK, OnlyRefreshing
            <4>6. /\ \A q \in Processes : since[q] <= now \/ pc[q] \notin Timed
                BY DEF TimeInv
            <4>7. Tip(p)'
                BY <2>0, <3>1, <3>3, <4>1, <4>3, <4>4, <4>5, <4>6
                   DEF Tip, TipOfFile, TipOfPost, TipOfUnsaved, Unsaved, Timed
            <4>8. OnlyRefreshing'
                BY <1>2, <1>3, <3>1, <4>3, <4>4 DEF OnlyRefreshing, TypeOK, Unsaved, Tip
            <4> QED BY <2>0, <4>7, <4>8
        <3>5. CASE /\ hold[p].refresh \in Tokens /\ succ[hold[p].refresh] = t
                   /\ since[p] <= minted[t] + MaxDelay
            <4>1. now <= since[p] + MaxDelay
                BY <3>1 DEF TimeInv, Timed
            <4>2. now < minted[t] + Window
                BY <3>3, <3>5, <4>1 DEF Paced
            <4>3. ~Rotates(hold[p]) /\ Replays(hold[p])
                BY <2>0, <3>1, <3>2, <3>5, <4>2 DEF Rotates, Replays
            <4>4. Goto(p, "answered", Taken(hold[p], t)) /\ UNCHANGED <<issuer, since>>
                BY <2>2, <3>5, <4>3 DEF Refresh
            <4>5. /\ pc'[p] = "answered" /\ hold'[p].refresh = t /\ hold'[p].client = First
                  /\ \A q \in Processes \ {p} : pc'[q] = pc[q] /\ hold'[q] = hold[q]
                BY <3>1, <4>4 DEF TypeOK, Goto, Taken, Creds
            <4>6. Tip(t)'
                BY <1>3, <3>1, <3>5, <4>4, <4>5 DEF Tip, TipOfFile, TipOfPost, TipOfUnsaved, Unsaved
            <4> QED BY <1>2, <3>1, <4>4, <4>5, <4>6 DEF OnlyRefreshing, Unsaved
        <3> QED BY <3>2, <3>4, <3>5 DEF TipOfPost
    <2>3. CASE Receive(p)
        <3>1. hold[p] \in Creds /\ hold[p].client = First /\ pc[p] = "answered"
            BY <1>2, <2>3 DEF OnlyRefreshing, TypeOK, Receive, Timed, Unsaved
        <3>2. /\ pc'[p] = "saveRefreshed" /\ hold'[p].refresh = hold[p].refresh
              /\ hold'[p].client = First /\ hold'[p].expires = now + Lifespan
              /\ \A q \in Processes \ {p} : pc'[q] = pc[q] /\ hold'[q] = hold[q]
              /\ UNCHANGED <<now, file, issuer, since>>
            BY <2>3, <3>1 DEF Receive, TypeOK, Goto, Creds
        <3>3. hold'[p].expires >= minted[t] + Lifespan
            BY <1>3, <3>2 DEF Tip, TypeOK
        <3>4. Tip(t)'
            BY <1>3, <3>1, <3>2, <3>3 DEF Tip, TipOfFile, TipOfPost, TipOfUnsaved, Unsaved
        <3> QED BY <1>2, <3>1, <3>2, <3>4 DEF OnlyRefreshing, Unsaved
    <2>4. CASE SaveRefreshed(p)
        <3>1. /\ pc[p] = "saveRefreshed" /\ file' = hold[p] /\ hold[p].client = First
              /\ pc'[p] = "done"
              /\ \A q \in Processes \ {p} :
                    pc'[q] = pc[q] /\ hold'[q] = hold[q] /\ since'[q] = since[q]
              /\ UNCHANGED <<now, issuer>>
            BY <1>2, <2>4 DEF SaveRefreshed, Returns, Ends, Goto, TypeOK, OnlyRefreshing, Unsaved
        <3>2. TipOfFile(t)'
            BY <1>3, <3>1 DEF Tip, TipOfFile, TipOfUnsaved, Unsaved
        <3>3. Tip(t)'
            BY <1>3, <3>1, <3>2 DEF Tip, TipOfPost, TipOfUnsaved, Unsaved
        <3> QED BY <1>2, <3>1, <3>3 DEF OnlyRefreshing, Unsaved
    <2>5. CASE StartLogin(p)
        BY <2>5 DEF StartLogin
    <2>6. CASE StartLogout(p)
        <3>1. /\ pc[p] = "idle" /\ p # t /\ file = None /\ pc'[p] = "done"
              /\ \A q \in Processes \ {p} :
                    pc'[q] = pc[q] /\ hold'[q] = hold[q] /\ since'[q] = since[q]
              /\ UNCHANGED <<now, file, issuer>>
            BY <2>0, <2>6 DEF StartLogout, LogoutReturns, Ends, Goto, TypeOK
        <3>2. Tip(t)'
            BY <1>3, <3>1 DEF Tip, TipOfPost, TipOfUnsaved, Unsaved
        <3> QED BY <1>2, <3>1, <3>2 DEF OnlyRefreshing, Unsaved
    <2>7. CASE Abort(p)
        <3>1. /\ pc[p] = "post" /\ p # t /\ pc'[p] = "failed"
              /\ \A q \in Processes \ {p} :
                    pc'[q] = pc[q] /\ hold'[q] = hold[q] /\ since'[q] = since[q]
              /\ UNCHANGED <<now, file, issuer>>
            <4>1. pc[p] \notin {"answered", "saveRefreshed"}
                BY <2>7, Zenon DEF Abort
            <4>2. pc[p] = "post"
                BY <2>0, <2>7, <4>1 DEF Abort, Active, Timed, LoggingIn, LoggingOut
            <4> QED BY <2>0, <2>7, <4>2 DEF Abort, Ends, Goto, TypeOK
        <3>2. Tip(t)'
            BY <1>3, <3>1 DEF Tip, TipOfFile, TipOfPost, TipOfUnsaved, Unsaved
        <3> QED BY <1>2, <3>1, <3>2 DEF OnlyRefreshing, Unsaved
    <2>8. CASE Register(p) \/ SaveClient(p) \/ Callback(p) \/ Redeem(p) \/ Reload(p) \/ SaveLogin(p) \/ Revoke(p) \/ Delete(p)
        BY <2>0, <2>8 DEF Register, SaveClient, Callback, Redeem, Reload, SaveLogin, Revoke, Delete
    <2> QED BY <1>7, <2>1, <2>2, <2>3, <2>4, <2>5, <2>6, <2>7, <2>8 DEF Step
<1> QED BY <1>5, <1>6, <1>7 DEF Next

LEMMA RefreshInit == Init => RefreshInv
<1> SUFFICES ASSUME Init PROVE OnlyRefreshing /\ \E t \in Tokens : Tip(t)
    BY DEF RefreshInv
<1>1. Tip(First)
    BY Parameters DEF Init, Tip, TipOfFile, TipOfPost, TipOfUnsaved, Unsaved, Tokens
<1> QED BY <1>1, Parameters DEF Init, OnlyRefreshing, Unsaved, Tokens

\* RefreshersAccepted for any number of processes: if the replay window exceeds two
\* delays, and a token's life the refresh buffer and two delays, parallel processes
\* that only refresh are never refused and never lose the session.
THEOREM RefreshersAreAccepted == Spec => []RefreshersAccepted
<1>1. RefreshInv => RefreshersAccepted
    BY DEF RefreshInv, RefreshersAccepted, OnlyRefreshing, Unsaved
<1>2. Init => TimeInv
    BY DEF Init, TimeInv, Timed
<1> QED BY <1>1, <1>2, RefreshInit, RefreshStep, TimeStep, CliTypeCorrect, PTL DEF Spec
=============================================================================
