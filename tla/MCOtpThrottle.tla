----------------------------- MODULE MCOtpThrottle -----------------------------
\* OtpThrottle with requests that are alike.
EXTENDS OtpThrottle, TLC

CONSTANTS h1, h2

MCSymmetry == Permutations(Handlers)
=============================================================================
