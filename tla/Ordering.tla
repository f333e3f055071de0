------------------------------ MODULE Ordering ------------------------------
(***************************************************************************)
(* ORDER BY and the sorts of the standard library: the elements of a       *)
(* finite set as a sequence, each at the place that the number of those    *)
(* before it gives it.                                                     *)
(***************************************************************************)
EXTENDS Integers, FiniteSets

Ordered(S, Less(_, _)) ==
    LET before == [x \in S |-> Cardinality({y \in S : Less(y, x)})]
    IN  [i \in 1..Cardinality(S) |-> CHOOSE x \in S : before[x] = i - 1]
=============================================================================
