-------------------------------- MODULE Ranks --------------------------------
(***************************************************************************)
(* Finite sets of integers in ascending order, which is what the lists of  *)
(* the web client are made of: normalizeIds sorts a set, Array.filter      *)
(* keeps some of the positions of a list in their order, and Array.sort,   *)
(* which is stable, ranks its positions.                                   *)
(***************************************************************************)
EXTENDS Integers, FiniteSets

Below(S, x) == {y \in S : y < x}

Ascending(S) ==
  [n \in 1 .. Cardinality(S) |-> CHOOSE x \in S : Cardinality(Below(S, x)) = n - 1]

\* The entries of a list at some of its positions, in their order.
Kept(s, positions) ==
  LET places == Ascending(positions) IN [n \in DOMAIN places |-> s[places[n]]]

\* s.filter(x => x !== e)
Filtered(s, e) == Kept(s, {i \in DOMAIN s : s[i] # e})

\* s.sort((a, b) => b - a) by the key of each position: equal ones keep their order.
LargestFirst(s, key) ==
  LET ahead(i) == {j \in DOMAIN s : key[j] > key[i] \/ (key[j] = key[i] /\ j < i)}
  IN  [n \in DOMAIN s |-> s[CHOOSE i \in DOMAIN s : Cardinality(ahead(i)) = n - 1]]

=============================================================================
