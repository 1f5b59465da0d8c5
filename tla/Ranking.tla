-------------------------------- MODULE Ranking --------------------------------
(***************************************************************************)
(* What the code leaves to libraries: a sort, and the choice of entries    *)
(* from a list.  Each element is found by its rank, how many come before   *)
(* it, which is something that can be proved about; SortSeq and SelectSeq  *)
(* would compute the same.                                                 *)
(***************************************************************************)
EXTENDS Integers, FiniteSets

\* The elements of a finite set in an order: in Less are the pairs of which
\* the first comes before the second.
Ranked(S, Less) ==
  [n \in 1 .. Cardinality(S) |->
     CHOOSE x \in S : Cardinality({y \in S : <<y, x>> \in Less}) = n - 1]

\* The entries of a list at some of its places, in the order of the list.
EntriesAt(list, places) ==
  LET order == Ranked(places, {p \in places \X places : p[1] < p[2]})
  IN [n \in DOMAIN order |-> list[order[n]]]
==============================================================================
