SPECIFICATION Spec
CONSTANTS
    Brands = {"huawei", "cdata", "cdata_other", "epon", "vsol", "kingtype"}
    Slots = {1}
    Ids = {0, 1}
    Phases = {"online", "offline", "powerdown", "los"}
    MaxChanges = 1
    PowerReadings <- MCPowerReadings
    NoReading = NoReading
    Nothing = Nothing
INVARIANT TypeOK
INVARIANT SuccessMeansEnabled
PROPERTY ActivationHitsUnlessBlind
INVARIANT FoundUnlessHidden
INVARIANT VerdictWasTrue
\* The job ends.
CHECK_DEADLOCK FALSE
