------------------------------- MODULE Pages -------------------------------
(***************************************************************************)
(* What a query returns that has an ORDER BY and a LIMIT, the form of all  *)
(* reads that go through a table page by page.                             *)
(***************************************************************************)
EXTENDS Integers, FiniteSets, FiniteSetsExt

(* The first n of S in the strict order Before: ORDER BY ... LIMIT n *)
FirstOf(n, S, Before(_, _)) ==
  [i \in 1..Min({n, Cardinality(S)}) |->
    CHOOSE r \in S : Cardinality({s \in S : Before(s, r)}) = i - 1]

=============================================================================
