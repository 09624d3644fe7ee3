SPECIFICATION FairSpec
CONSTANTS
    rA = rA  hA = hA  hB = hB  sOld = sOld  sNew = sNew  sOther = sOther
    Names = {rA}
    Hosts = {hA, hB}
    Secrets = {sOld, sNew, sOther, sStatic}
    Configs <- MCConfigs
    Static <- MCStatic
    StaticSecret = sStatic
    OltJobs = {j1}
    RouterJobs = {m1}
    Edits = {e1}
    SectorOf <- MCSectorOf
    Boot = Boot
    TTL = 1
    MaxTime = 2
    Null = Null
INVARIANT TypeOK
INVARIANT HitsAreRecent
INVARIANT EditsShowUnlessOutrun
INVARIANT SecretsBelongToTheirHost
PROPERTY EveryoneEnds
\* A service nobody asks anything of rests.
CHECK_DEADLOCK FALSE
