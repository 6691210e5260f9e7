------------------------------ MODULE MCRunner ------------------------------
(***************************************************************************)
(* Runner for TLC: requests and projects are model values, symmetric among *)
(* themselves.                                                             *)
(***************************************************************************)
EXTENDS Runner, TLC

Symmetry == Permutations(Requests) \cup Permutations(Projects)
=============================================================================
