--------------------------- MODULE CliCredentials ---------------------------
(***************************************************************************)
(* Command-line processes that share one credentials file (cliauth).       *)
(*                                                                         *)
(* DefaultCredPath gives every issuer a file of its own, so the file holds *)
(* one Credentials record or does not exist. Nothing locks it: a process   *)
(* reads it, talks to the issuer, and replaces it by a rename. A process   *)
(* is one call of GetAccessToken, of a login (RunLoopback or               *)
(* RunPasteRedirect) or of Logout.                                         *)
(*                                                                         *)
(* The issuer is a server of this repository with a replay window, reduced *)
(* to what module RefreshRotation shows of it: answers to one refresh      *)
(* token within the window carry one pair. A pair is named after the       *)
(* process whose request minted it, First is the pair of an earlier login. *)
(***************************************************************************)
EXTENDS Integers, FiniteSets

CONSTANTS Processes,    \* command-line invocations
          First,        \* the client and the token pair of an earlier login
          None,
          Lifespan,     \* expires_in: life of an access token
          Buffer,       \* refreshBuffer: a token this near its end is refreshed
          Window,       \* RefreshReplayWindow of the issuer
          MaxDelay,     \* longest time from a read of the file to its write
          MaxTime       \* bound on the clock

ASSUME NamesAssumption == First \notin Processes /\ None \notin Processes \cup {First}
ASSUME TimeAssumption ==
    /\ Lifespan \in Nat /\ Buffer \in Nat /\ Window \in Nat \ {0}
    /\ MaxDelay \in Nat /\ MaxTime \in Nat

VARIABLES
    now,
    file,       \* the credentials file, None when there is none
    live,       \* issuer: usable refresh tokens
    succ,       \* issuer: the pair that replaced a refresh token, or None
    minted,     \* issuer: when a pair was minted
    owner,      \* issuer: the client a pair was issued to
    pc,
    hold,       \* the Credentials value a process works on
    since,      \* when a process began what MaxDelay bounds
    overdue,    \* history: GetAccessToken returned a token past its life
    loggedOut,  \* history: a logout returned with no writer under way, no login since
    disturbed   \* history: something other than undisturbed refreshing happened

issuer  == <<live, succ, minted, owner>>
local   == <<pc, hold, since>>
history == <<overdue, loggedOut, disturbed>>
vars == <<now, file, issuer, local, history>>

Tokens == Processes \cup {First}
Creds == [client : Tokens, access : Tokens \cup {None}, refresh : Tokens \cup {None},
          expires : Nat]
ASSUME NoneAssumption == None \notin Creds

\* The stretches that MaxDelay bounds: from reading the file, or from redeeming a
\* code, to writing the file.
Timed == {"post", "answered", "saveRefreshed", "redeem", "reload", "saveLogin"}
LoggingIn == {"register", "saveClient", "authorize"}
LoggingOut == {"revoke", "delete"}
Finished == {"done", "failed", "refused"}
Active(p) == pc[p] \in Timed \cup LoggingIn \cup LoggingOut

TypeOK ==
    /\ now \in Nat
    /\ file \in Creds \cup {None}
    /\ live \subseteq Tokens
    /\ succ \in [Tokens -> Tokens \cup {None}]
    /\ minted \in [Tokens -> Nat]
    /\ owner \in [Tokens -> Tokens]
    /\ pc \in [Processes -> {"idle"} \cup Timed \cup LoggingIn \cup LoggingOut \cup Finished]
    /\ hold \in [Processes -> Creds \cup {None}]
    /\ since \in [Processes -> Nat]
    /\ overdue \in BOOLEAN /\ loggedOut \in BOOLEAN /\ disturbed \in BOOLEAN
    \* A process that will use or save credentials has some.
    /\ \A p \in Processes :
          pc[p] \in (Timed \cup LoggingIn \cup {"revoke"}) \ {"register"} => hold[p] # None
    /\ \A p \in Processes : pc[p] \in {"post", "revoke"} => hold[p].refresh # None

\* Process p goes on with credentials c.
Goto(p, l, c) ==
    /\ pc' = [pc EXCEPT ![p] = l]
    /\ hold' = [hold EXCEPT ![p] = c]

Ends(p, l) ==
    /\ Goto(p, l, None)
    /\ since' = [since EXCEPT ![p] = 0]

-----------------------------------------------------------------------------
\* NewLogin on the file of an earlier login, by now due for a refresh, or on none.
Init ==
    /\ now = Lifespan
    /\ file \in {None, [client |-> First, access |-> First, refresh |-> First,
                        expires |-> Lifespan]}
    /\ live = {First}
    /\ succ = [t \in Tokens |-> None]
    /\ minted = [t \in Tokens |-> 0]
    /\ owner = [t \in Tokens |-> First]
    /\ pc = [p \in Processes |-> "idle"]
    /\ hold = [p \in Processes |-> None]
    /\ since = [p \in Processes |-> 0]
    /\ overdue = FALSE
    /\ loggedOut = FALSE
    /\ disturbed = FALSE

Tick ==
    /\ now < MaxTime
    /\ \A p \in Processes : pc[p] \in Timed => now < since[p] + MaxDelay
    /\ now' = now + 1
    /\ UNCHANGED <<file, issuer, local, history>>

\* A network error, an unwritable directory, a cancelled context or a kill ends the
\* process; the temporary file of a write never reaches the credentials path. A
\* rotation that was not saved is lost.
Abort(p) ==
    /\ Active(p)
    /\ Ends(p, "failed")
    /\ disturbed' = (disturbed \/ pc[p] \in {"answered", "saveRefreshed"})
    /\ UNCHANGED <<now, file, issuer, overdue, loggedOut>>

-----------------------------------------------------------------------------
(* GetAccessToken *)

\* Mutant: the buffer is added where it has to be taken away.
NeedsRefreshLate(c) == now >= c.expires + Buffer

\* time.Until(ExpiresAt) <= refreshBuffer; the zero time always needs a refresh.
NeedsRefresh(c) == now + Buffer >= c.expires

\* The caller gets access token t.
Returns(p, t) ==
    /\ overdue' = (overdue \/ now >= minted[t] + Lifespan)
    /\ Ends(p, "done")

\* LoadHost and the early returns: not logged in, still good, and too old without
\* a refresh token.
GetAccessToken(p) ==
    /\ pc[p] = "idle"
    /\ \/ /\ file # None /\ ~NeedsRefresh(file)
          /\ Returns(p, file.access)
       \/ /\ file # None => NeedsRefresh(file) /\ file.refresh = None
          /\ Ends(p, "failed")
          /\ UNCHANGED overdue
       \/ /\ file # None /\ NeedsRefresh(file) /\ file.refresh # None
          /\ Goto(p, "post", file)
          /\ since' = [since EXCEPT ![p] = now]
          /\ UNCHANGED overdue
    /\ UNCHANGED <<now, file, issuer, loggedOut, disturbed>>

\* What the issuer does with credentials c: rotate a usable token of the client, or
\* within the window answer as it did before.
Rotates(c) == c.refresh \in live /\ owner[c.refresh] = c.client
Replays(c) ==
    /\ c.refresh \notin live /\ succ[c.refresh] # None
    /\ owner[c.refresh] = c.client
    /\ now < minted[succ[c.refresh]] + Window

\* Mutant: the rotated refresh token is not taken over.
TakenKeeps(c, t) == [c EXCEPT !.access = t]

\* The pair of the response replaces the stored one.
Taken(c, t) == [c EXCEPT !.access = t, !.refresh = t]

\* postToken with grant_type=refresh_token, as the issuer handles it.
Refresh(p) ==
    LET c == hold[p]
    IN  /\ pc[p] = "post"
        /\ \/ /\ Rotates(c)
              /\ live' = (live \ {c.refresh}) \cup {p}
              /\ succ' = [succ EXCEPT ![c.refresh] = p]
              /\ minted' = [minted EXCEPT ![p] = now]
              /\ owner' = [owner EXCEPT ![p] = c.client]
              /\ Goto(p, "answered", Taken(c, p)) /\ UNCHANGED since
           \/ /\ Replays(c)
              /\ Goto(p, "answered", Taken(c, succ[c.refresh]))
              /\ UNCHANGED <<issuer, since>>
           \/ /\ ~Rotates(c) /\ ~Replays(c)
              /\ Ends(p, "refused")
              /\ UNCHANGED issuer
        /\ UNCHANGED <<now, file, history>>

\* The response arrives: its expires_in counts from now.
Receive(p) ==
    /\ pc[p] = "answered"
    /\ Goto(p, "saveRefreshed", [hold[p] EXCEPT !.expires = now + Lifespan])
    /\ UNCHANGED <<now, file, issuer, since, history>>

\* SaveHost: write a temporary file, rename it over the old one.
SaveRefreshed(p) ==
    /\ pc[p] = "saveRefreshed"
    /\ file' = hold[p]
    /\ Returns(p, hold[p].access)
    /\ UNCHANGED <<now, issuer, loggedOut, disturbed>>

-----------------------------------------------------------------------------
(* RunLoopback and RunPasteRedirect *)

\* The stored record, or the zero value (LoadHost's error is dropped), as client c.
Stored(c) ==
    IF file # None THEN [file EXCEPT !.client = c]
    ELSE [client |-> c, access |-> None, refresh |-> None, expires |-> 0]

\* ensureRegistered: a stored client is used again if it knows this run's redirect
\* URI, which has the port in it; otherwise a client is registered.
StartLogin(p) ==
    /\ pc[p] = "idle"
    /\ \/ file # None /\ Goto(p, "authorize", file)
       \/ Goto(p, "register", None)
    /\ loggedOut' = FALSE
    /\ disturbed' = TRUE
    /\ UNCHANGED <<now, file, issuer, since, overdue>>

\* The response with the new client ID, which is then put into what the file holds
\* by now, tokens included.
Register(p) ==
    /\ pc[p] = "register"
    /\ Goto(p, "saveClient", Stored(p))
    /\ UNCHANGED <<now, file, issuer, since, history>>

SaveClient(p) ==
    /\ pc[p] = "saveClient"
    /\ file' = hold[p]
    /\ Goto(p, "authorize", hold[p])
    /\ UNCHANGED <<now, issuer, since, history>>

\* The first callback, or the pasted URL, decides. An error, a state of another
\* login or another issuer's iss ends the login (Abort); its own code is redeemed.
Callback(p) ==
    /\ pc[p] = "authorize"
    /\ Goto(p, "redeem", hold[p])
    /\ since' = [since EXCEPT ![p] = now]
    /\ UNCHANGED <<now, file, issuer, history>>

\* The issuer redeems the code, with a refresh token or without.
Redeem(p) ==
    /\ pc[p] = "redeem"
    /\ live' \in {live, live \cup {p}}
    /\ minted' = [minted EXCEPT ![p] = now]
    /\ owner' = [owner EXCEPT ![p] = hold[p].client]
    /\ Goto(p, "reload", hold[p])
    /\ UNCHANGED <<now, file, succ, since, history>>

\* exchangeAndSave reads the file once more; without a new refresh token the stored
\* one stays.
Reload(p) ==
    /\ pc[p] = "reload"
    /\ LET c == [Stored(hold[p].client) EXCEPT !.access = p, !.expires = now + Lifespan]
       IN  Goto(p, "saveLogin", IF p \in live THEN [c EXCEPT !.refresh = p] ELSE c)
    /\ UNCHANGED <<now, file, issuer, since, history>>

SaveLogin(p) ==
    /\ pc[p] = "saveLogin"
    /\ file' = hold[p]
    /\ Ends(p, "done")
    /\ UNCHANGED <<now, issuer, history>>

-----------------------------------------------------------------------------
(* Logout *)

\* Processes that will write credentials if nothing stops them.
Writers == {p \in Processes : pc[p] \in Timed \cup LoggingIn}

LogoutReturns(p) ==
    /\ loggedOut' = (loggedOut \/ Writers = {})
    /\ Ends(p, "done")

\* No credentials: nothing to do. Without a refresh token there is nothing to revoke.
StartLogout(p) ==
    /\ pc[p] = "idle"
    /\ \/ file = None /\ LogoutReturns(p) /\ UNCHANGED disturbed
       \/ /\ file # None
          /\ Goto(p, IF file.refresh # None THEN "revoke" ELSE "delete", file)
          /\ disturbed' = TRUE
          /\ UNCHANGED <<since, loggedOut>>
    /\ UNCHANGED <<now, file, issuer, overdue>>

\* The issuer revokes a usable token of the client and ignores any other.
Revoked(c) == IF Rotates(c) THEN live \ {c.refresh} ELSE live

\* Mutant: a failed revocation ends the logout.
RevokeGivesUp(p) ==
    /\ pc[p] = "revoke"
    /\ \/ live' = Revoked(hold[p]) /\ Goto(p, "delete", None) /\ UNCHANGED <<since, loggedOut>>
       \/ LogoutReturns(p) /\ UNCHANGED live
    /\ UNCHANGED <<now, file, succ, minted, owner, overdue, disturbed>>

\* revokeToken; logout goes on whether it succeeds or not.
Revoke(p) ==
    /\ pc[p] = "revoke"
    /\ live' \in {live, Revoked(hold[p])}
    /\ Goto(p, "delete", None)
    /\ UNCHANGED <<now, file, succ, minted, owner, since, history>>

\* DeleteHost of the only host removes the file.
Delete(p) ==
    /\ pc[p] = "delete"
    /\ file' = None
    /\ LogoutReturns(p)
    /\ UNCHANGED <<now, issuer, overdue, disturbed>>

-----------------------------------------------------------------------------
Step(p) ==
    \/ GetAccessToken(p) \/ Refresh(p) \/ Receive(p) \/ SaveRefreshed(p)
    \/ StartLogin(p) \/ Register(p) \/ SaveClient(p) \/ Callback(p)
    \/ Redeem(p) \/ Reload(p) \/ SaveLogin(p)
    \/ StartLogout(p) \/ Revoke(p) \/ Delete(p)
    \/ Abort(p)

Next == Tick \/ \E p \in Processes : Step(p)

Spec == Init /\ [][Next]_vars

-----------------------------------------------------------------------------
(* Properties *)

\* What the issuer and the network must give for parallel refreshing to work: the
\* replay window covers two processes' delays, and a new token is not due for
\* refresh before the processes that may still replay its predecessor are done.
Paced == Window > 2 * MaxDelay /\ Lifespan > Buffer + 2 * MaxDelay

\* GetAccessToken, refresh: as long as processes only refresh, and none is cut off
\* between rotation and save, the issuer refuses none of them, however many read
\* the same expired credentials and whoever saves last.
RefreshersAccepted == Paced /\ ~disturbed => \A p \in Processes : pc[p] # "refused"

\* GetAccessToken "returns a valid access token": a replayed answer carries the
\* expires_in of its first use, so the file may promise more time than is left; the
\* refresh buffer has to cover the window and the delay. Then no token returned is
\* past its life, whatever logins, logouts and failures overlap.
AccessStillValid == Buffer + 1 >= Window + MaxDelay /\ Lifespan > Buffer => ~overdue

\* Logout, DeleteHost: once a logout has returned and no process was on its way to
\* write credentials, there are none until somebody logs in, even if the issuer
\* could not be reached.
LogoutSticks == loggedOut => file = None
=============================================================================
