------------------------------- MODULE MCAuth -------------------------------
(***************************************************************************)
(* Auth for TLC: two logins of one scope from one address, a limit of two  *)
(* failures, and a lock that outlasts the window as fifteen minutes        *)
(* outlast ten.                                                            *)
(***************************************************************************)
EXTENDS Auth
=============================================================================
