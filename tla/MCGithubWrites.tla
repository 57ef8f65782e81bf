--------------------------- MODULE MCGithubWrites ---------------------------
(***************************************************************************)
(* Instances of GithubWrites for TLC.  Plans are told apart by what they   *)
(* are made from only, callers not at all.                                 *)
(***************************************************************************)
EXTENDS GithubWrites, TLC

Symmetric == Permutations(Callers) \cup Permutations(Plans)
=============================================================================
