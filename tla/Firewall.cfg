SPECIFICATION Spec
CONSTANTS
    ip1 = ip1  ip2 = ip2  c3 = c3
    Ips = {ip1, ip2}
    Cuts = {c1, c2, c3}
    Reactivations = {r1, r2}
    IpOf <- MCIpOf
    OtherLists = {Deshabilitado, Morosos}
    EnabledToo = {Deshabilitado}
    CutToo = {Morosos}
SYMMETRY Interchangeable
INVARIANT TypeOK
INVARIANT UnopposedStaysSingle
INVARIANT OverlapsLeaveTwoAtMost
PROPERTY UnopposedSucceeds
\* Every order ends.
CHECK_DEADLOCK FALSE
