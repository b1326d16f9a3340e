-------------------------------- MODULE Sums --------------------------------
(***************************************************************************)
(* The accumulation loops of the contract, as one recursive function: the  *)
(* pool total over the outcomes, and the totals over the bettors that the  *)
(* properties compare with it.                                             *)
(***************************************************************************)
EXTENDS Integers

(* f[0] + ... + f[n - 1]: the loop of sum_totals.                          *)
SumBelow(f, n) ==
  LET s[i \in 0 .. n] == IF i = 0 THEN 0 ELSE s[i - 1] + f[i - 1] IN s[n]

=============================================================================
