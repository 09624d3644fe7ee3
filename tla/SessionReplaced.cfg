SPECIFICATION Spec
CONSTANTS
    cA = cA  cB = cB  s3 = s3
    Starts = {s1, s2}
    Continues = {q1}
    Conversations = {cA}
    ConvOf <- OneConversation
    Equipment = {onu1}
    Messages <- MCMessages
    PowerReadings <- MCPowerReadings
    NoReading = NoReading
    Lifetime = 1
    MaxTime = 0
    TakingTurns = FALSE
    NoRow = NoRow
PROPERTY NewDiagnosticPrevails
\* A service whose clients have gone quiet rests.
CHECK_DEADLOCK FALSE
