SPECIFICATION Spec
CONSTANTS
    PowerReadings <- MCPowerReadings
    NoReading = NoReading
INVARIANT TypeOK
INVARIANT VerdictIsFirstProblem
INVARIANT OneProblemStopsTheChain
INVARIANT StatusIsTheWorst
\* A diagnosis ends.
CHECK_DEADLOCK FALSE
