------------------------------ MODULE MCRefresh ------------------------------
(* The instances of RefreshRotation that TLC checks. *)
EXTENDS RefreshRotation, TLC

\* Requests are interchangeable in every safety property.
RequestSymmetry == Permutations(Requests)
=============================================================================
