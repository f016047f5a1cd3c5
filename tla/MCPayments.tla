------------------------------ MODULE MCPayments ------------------------------
\* Payments with named rows and users: k1 in Ivory Coast buys twice, k2 in
\* Lebanon once, a client and a craftsman of a country without a payment
\* channel may not.
EXTENDS Payments, TLC

CONSTANTS p1, p2, p3, p4, p5, k1, k2, k3, c1

MCPayerOf   == (p1 :> k1) @@ (p2 :> k1) @@ (p3 :> k2) @@ (p4 :> k3) @@ (p5 :> c1)
MCCountryOf == (k1 :> "CI") @@ (k2 :> "LB") @@ (k3 :> "SN") @@ (c1 :> "CI")
=============================================================================
