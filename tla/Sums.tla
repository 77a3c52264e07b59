-------------------------------- MODULE Sums --------------------------------
(***************************************************************************)
(* Sizes, counts and durations added up over the entries of a list.        *)
(***************************************************************************)
EXTENDS Integers

(* v[i] + ... + v[j]                                                        *)
SumOver(v, i, j) ==
    LET f[k \in (i - 1)..j] == IF k < i THEN 0 ELSE f[k - 1] + v[k]
    IN  IF j < i THEN 0 ELSE f[j]
=============================================================================
