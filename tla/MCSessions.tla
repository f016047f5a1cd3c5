------------------------------ MODULE MCSessions ------------------------------
\* Sessions of a number that belongs to one device and is typed on another.
EXTENDS Sessions, TLC

CONSTANTS mine, other, u1, u2, nothing

MCSymmetry == Permutations(Accounts)
=============================================================================
