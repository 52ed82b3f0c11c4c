------------------------------- MODULE MCKeys -------------------------------
(* The instances of SigningKeys that TLC checks. *)
EXTENDS SigningKeys, TLC

\* Servers are interchangeable.
KeySymmetry == Permutations(Servers)
=============================================================================
