------------------------------- MODULE MCCli -------------------------------
(* CliCredentials for TLC: processes differ in nothing but their names. *)
EXTENDS CliCredentials, TLC

ProcessSymmetry == Permutations(Processes)
=============================================================================
