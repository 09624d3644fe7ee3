SPECIFICATION FairSpec
CONSTANTS
    N = 3
    Interactive <- ReactivateInteractive
    Greedy = {2}
    Required = {}
    MaxAsks = 1
PROPERTY FlowEnds
\* The flow ends.
CHECK_DEADLOCK FALSE
