------------------------------- MODULE Listing -------------------------------
(***************************************************************************)
(* Rows in the order of a query, and the elements a loop keeps.            *)
(***************************************************************************)
EXTENDS Naturals, Sequences, FiniteSets

(***************************************************************************)
(* ORDER BY: the elements of S, of which "before" is a strict total order. *)
(***************************************************************************)
OrderBy(S, before(_, _)) ==
    [n \in 1 .. Cardinality(S) |->
        CHOOSE x \in S : Cardinality({y \in S : before(y, x)}) = n - 1]

(***************************************************************************)
(* for ... { if ... { kept = append(kept, s[i]) } }: the elements of s at  *)
(* the indices in I, one after the other.                                  *)
(***************************************************************************)
KeepAt(s, I) ==
    [n \in 1 .. Cardinality(I) |-> s[OrderBy(I, LAMBDA i, j : i < j)[n]]]
=============================================================================
