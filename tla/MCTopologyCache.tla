--------------------------- MODULE MCTopologyCache ---------------------------
EXTENDS TopologyCache, TLC

CONSTANTS rA, hA, hB, sOld, sNew, sOther

\* rA is in FALLBACK_SECTORS.
MCStatic == [n \in Names |-> hA]

\* A router may change its secret, or move to the other host.
MCConfigs == { [host |-> hA, secret |-> sOld], [host |-> hA, secret |-> sNew],
               [host |-> hB, secret |-> sOther] }

MCSectorOf == [j \in Jobs |-> rA]
=============================================================================
