SPECIFICATION Spec
CONSTANTS
    cA = cA  cB = cB  s3 = s3
    Starts = {s1, s2}
    Continues = {q1, q2}
    Conversations = {cA}
    ConvOf <- OneConversation
    Equipment = {onu1, onu2}
    Messages <- MCMessages
    PowerReadings <- MCPowerReadings
    NoReading = NoReading
    Lifetime = 1
    MaxTime = 1
    TakingTurns = FALSE
    NoRow = NoRow
SYMMETRY Interchangeable
INVARIANT TypeOK
INVARIANT StoredSessionsAreCoherent
INVARIANT UpdateFindsItsRow
PROPERTY RowIdentity
PROPERTY FreshAnswerMovesForward
\* A service whose clients have gone quiet rests.
CHECK_DEADLOCK FALSE
