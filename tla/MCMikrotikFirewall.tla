------------------------- MODULE MCMikrotikFirewall -------------------------
EXTENDS MikrotikFirewall, TLC

CONSTANTS ip1, ip2, c3

\* c3 is of a second subscriber.
MCIpOf == [r \in Orders |-> IF r = c3 THEN ip2 ELSE ip1]

Interchangeable == Permutations(Cuts \ {c3}) \cup Permutations(Reactivations)
=============================================================================
