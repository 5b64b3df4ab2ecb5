--------------------------- MODULE MCCommunities ---------------------------
EXTENDS Communities

CONSTANTS cli, service, q1, m1, m2, m3, m4

\* one community stays, one shrinks but may be reused, and one is replaced
MCGraphs ==
    {{{m1, m2, m3}, {m4}}, {{m1, m2}, {m4}}, {{m1}, {m3, m4}}}

RefreshKinds == {[locked |-> TRUE, keep |-> TRUE, limit |-> None]}
=============================================================================
