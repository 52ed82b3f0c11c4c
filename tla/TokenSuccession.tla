--------------------------- MODULE TokenSuccession ---------------------------
(***************************************************************************)
(* What rotating refresh tokens with a replay window promise a client,     *)
(* without requests, caches, flights or a store: the tokens of a grant are *)
(* one line of succession. A token has at most one heir and keeps it; only *)
(* the last of the line can work; and a client that presents a token is    *)
(* answered with its heir, however often and however late it asks.         *)
(***************************************************************************)
CONSTANTS Roots,    \* the tokens grants start with
          Heirs,    \* the tokens rotations may mint
          None

VARIABLES
    live,     \* tokens the endpoint would exchange
    heir,     \* the token that took the place of each
    given     \* <<presented, answered>> of every successful answer

svars == <<live, heir, given>>

Issued == Roots \cup {heir[p] : p \in {q \in Roots \cup Heirs : heir[q] # None}}

Init ==
    /\ live = Roots
    /\ heir = [p \in Roots \cup Heirs |-> None]
    /\ given = {}

\* Tokens stop working: spent by a rotation, revoked, or lost by a failure.
Lapse ==
    /\ live' \subseteq live
    /\ UNCHANGED <<heir, given>>

\* A rotation ends: p, the last of its line, hands over to a token never issued
\* before.
Succeed(p, r) ==
    /\ p \in Issued /\ heir[p] = None
    /\ r \notin Issued
    /\ live' = (live \ {p}) \cup {r}
    /\ heir' = [heir EXCEPT ![p] = r]
    /\ UNCHANGED given

Answer(p) ==
    /\ heir[p] # None
    /\ given' = given \cup {<<p, heir[p]>>}
    /\ UNCHANGED <<live, heir>>

Next ==
    \/ Lapse
    \/ \E p \in Roots \cup Heirs :
          Answer(p) \/ \E r \in Heirs : Succeed(p, r)

Spec == Init /\ [][Next]_svars
=============================================================================
