------------------------------ MODULE MCShares ------------------------------
(***************************************************************************)
(* Small instances of Shares for TLC.                                      *)
(***************************************************************************)
EXTENDS Shares, TLC

MCTtls == {1}

\* Nothing tells one request, command, id or container from another.
MCSymmetry == Permutations(Requests) \cup Permutations(Commands)
                \cup Permutations(Ids) \cup Permutations(Containers)

\* What happens after a document was overwritten from an old read is not
\* followed: stale never falls, and every property of the run but the shape of
\* the list says nothing of a state, or of a step into one, where it holds.
UntilStale == ~stale
=============================================================================
