-------------------------- MODULE MCSourceLimiter --------------------------
(***************************************************************************)
(* Instances of SourceLimiter for TLC.                                     *)
(***************************************************************************)
EXTENDS SourceLimiter, TLC

\* Every module declares one request at a time, as a site that bans for more would have it.
MCDeclaration == [s \in Source |-> 1]

Symmetry == Permutations(Handler) \cup Permutations(Source)
=============================================================================
