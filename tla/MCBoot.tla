-------------------------------- MODULE MCBoot ------------------------------
(***************************************************************************)
(* Instances of Boot for TLC.                                              *)
(***************************************************************************)
EXTENDS Boot, TLC

CONSTANTS a1, a2, t1, c1, m1, m2, w1, w2, k1, k2, builtin, other, r1, r2, url

Interchangeable ==
  Permutations({a1, a2}) \cup Permutations({m1, m2}) \cup Permutations({w1, w2})
    \cup Permutations({k1, k2})

=============================================================================
