------------------------------ MODULE MCAccounts ------------------------------
\* Accounts with named photos: u drives a taxi, w registers with a test number
\* and no document.
EXTENDS Accounts, TLC

CONSTANTS u, w, d1, d2, l1, t1, t2, q1, a1, a2, nothing, silence

MCOwnerOf    == (d1 :> u) @@ (d2 :> u) @@ (l1 :> u)
MCReportedOf == (q1 :> u)

\* A blank page, a face next to text, a clear card, no answer.
MCAnswers ==
  {[mrz |-> FALSE, hits |-> 0, label |-> "none", faceAndText |-> FALSE],
   [mrz |-> FALSE, hits |-> 1, label |-> "weak", faceAndText |-> TRUE],
   [mrz |-> TRUE, hits |-> 3, label |-> "strong", faceAndText |-> TRUE],
   silence}

MCSymmetry == Permutations({d1, d2}) \cup Permutations({t1, t2}) \cup Permutations({a1, a2})
=============================================================================
