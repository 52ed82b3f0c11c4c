------------------------------- MODULE MCCode -------------------------------
(* The instances of AuthorizationCode that TLC checks. *)
EXTENDS AuthorizationCode, TLC

\* Requests are interchangeable, and so are codes.
CodeSymmetry == Permutations(Requests) \cup Permutations(Codes)
=============================================================================
