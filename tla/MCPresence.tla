------------------------------ MODULE MCPresence ------------------------------
\* Presence with a named taxi driver and the category of plumbers besides.
EXTENDS Presence, TLC

CONSTANTS k1, taxi, plumber

Driver == k1 :> taxi
=============================================================================
