----------------------------- MODULE Selection -----------------------------
(***************************************************************************)
(* The loops of the code that keep some of the events, blocks or calls of   *)
(* a list, or gather those of a map by their sorted indexes.               *)
(***************************************************************************)
EXTENDS Naturals, Sequences, FiniteSets

(* A set of naturals, least first: the n-th has n - 1 of the set below it. *)
InOrder(S) ==
  [n \in 1 .. Cardinality(S) |-> CHOOSE i \in S : Cardinality({j \in S : j < i}) = n - 1]

(* What f, a sequence or a function of indexes, has at those. *)
ItemsAt(f, S) == LET at == InOrder(S) IN [n \in DOMAIN at |-> f[at[n]]]
=============================================================================
