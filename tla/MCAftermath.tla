------------------------------ MODULE MCAftermath ------------------------------
\* Aftermath on two requests of one client.
EXTENDS Aftermath, TLC

CONSTANTS r1, r2, c1, c2, k1, t1, t2, whatsapp, call, nothing

MCClientOf == (r1 :> c1) @@ (r2 :> c1)

MCSymmetry ==
  Permutations({r1, r2}) \cup Permutations({t1, t2})
  \cup Permutations({whatsapp, call})
=============================================================================
