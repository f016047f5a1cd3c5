----------------------------- MODULE MCMissions -----------------------------
\* Missions with named missions and users; p posts every mission, u and v apply.
EXTENDS Missions, TLC

CONSTANTS p, u, v, m1, t1, t2

OnePoster == [m \in Missions |-> p]
Pairs == {<<u, p>>}
NoPairs == {}

=============================================================================
