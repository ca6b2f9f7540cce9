-------------------------------- MODULE Sums --------------------------------
(***************************************************************************)
(* The sum of an array of counters, added up from its first element on as  *)
(* the loops of src/stats.c do.                                            *)
(***************************************************************************)
EXTENDS Integers

(* g[0] + ... + g[n - 1] *)
Sum(g, n) == LET sum[k \in 0 .. n] == IF k = 0 THEN 0 ELSE sum[k - 1] + g[k - 1]
             IN  sum[n]
=============================================================================
