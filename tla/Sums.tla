-------------------------------- MODULE Sums --------------------------------
(***************************************************************************)
(* Totals over 1..n: of the samples of a clock, and over the accounts.     *)
(* Accounts are numbered in the order of their NodeIDs, the order          *)
(* ActiveValidators sorts them in, so a prefix sum of the stakes is the    *)
(* accumulator `acc` of the weighted election.                             *)
(***************************************************************************)
EXTENDS Integers

\* PrefixSums(f, n)[i] is f[1] + ... + f[i].
PrefixSums(f, n) ==
  LET acc[i \in 0..n] == IF i = 0 THEN 0 ELSE acc[i-1] + f[i]
  IN  acc

Total(f, n) == PrefixSums(f, n)[n]
=============================================================================
