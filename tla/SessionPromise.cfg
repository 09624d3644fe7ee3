SPECIFICATION FairSpec
CONSTANTS
    cA = cA  cB = cB  s3 = s3
    Starts = {s1, s2, s3}
    Continues = {q1}
    Conversations = {cA, cB}
    ConvOf <- TwoConversations
    Equipment = {onu1}
    Messages <- MCMessages
    PowerReadings <- MCPowerReadings
    NoReading = NoReading
    Lifetime = 1
    MaxTime = 0
    TakingTurns = TRUE
    NoRow = NoRow
INVARIANT DiagnosesStayInTheirConversation
PROPERTY KeepsThePromise
PROPERTY EveryRequestEnds
\* A service whose clients have gone quiet rests.
CHECK_DEADLOCK FALSE
