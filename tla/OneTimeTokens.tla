--------------------------- MODULE OneTimeTokens ---------------------------
(***************************************************************************)
(* What consent.ApprovalTokenStore promises its caller: "mints and         *)
(* consumes single-use approval tokens". A token is issued once, taken by  *)
(* at most one caller, and never usable after it was taken or dropped.     *)
(***************************************************************************)
CONSTANTS Tokens, Callers, Nobody

VARIABLES
    live,      \* tokens that can still be consumed
    issued,    \* tokens that were ever handed out
    takenBy    \* who consumed a token

Init ==
    /\ live = {}
    /\ issued = {}
    /\ takenBy = [t \in Tokens |-> Nobody]

Issue(t) ==
    /\ t \notin issued
    /\ issued' = issued \cup {t}
    /\ live' = live \cup {t}
    /\ UNCHANGED takenBy

Take(t, c) ==
    /\ t \in live
    /\ live' = live \ {t}
    /\ takenBy' = [takenBy EXCEPT ![t] = c]
    /\ UNCHANGED issued

\* Tokens may be lost: they expire, or a restart forgets them.
Drop ==
    /\ live' \in SUBSET live
    /\ UNCHANGED <<issued, takenBy>>

Next ==
    \/ \E t \in Tokens : Issue(t) \/ \E c \in Callers : Take(t, c)
    \/ Drop

Spec == Init /\ [][Next]_<<live, issued, takenBy>>
=============================================================================
