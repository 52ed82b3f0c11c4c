------------------------------ MODULE MCConsent ------------------------------
(* The instances of Consent that TLC checks. *)
EXTENDS Consent, TLC

\* POSTs are interchangeable, and so are parameters.
ConsentSymmetry == Permutations(Posts) \cup Permutations(Params)
=============================================================================
