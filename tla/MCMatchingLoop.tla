---------------------------- MODULE MCMatchingLoop ----------------------------
\* MatchingLoop with named requests, clients and craftsmen; the owner of each
\* request is its only structured constant.
EXTENDS MatchingLoop, TLC

CONSTANTS r1, r2, c1, c2, k1, k2

\* Two clients with a request each: two searches side by side.
TwoClients == (r1 :> c1) @@ (r2 :> c2)

\* A single request.
SingleRequest == r1 :> c1

CraftsmenSymmetry == Permutations(Craftsmen)
=============================================================================
