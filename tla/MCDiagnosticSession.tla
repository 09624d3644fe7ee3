------------------------- MODULE MCDiagnosticSession ------------------------
EXTENDS DiagnosticSession, TLC

CONSTANTS cA, cB, s3

\* One reading per power level: the sessions only see the verdict.
MCPowerReadings == {-2600, -3000}

\* Each phrase on its own (with what it contains), two mixtures, and none.
MCMessages == { {}, {"sin luces", "luces"}, {"apagado"}, {"rojo"}, {"verde"}, {"luces"},
                {"no prende"}, {"verde", "rojo"}, {"no prende", "sin luces", "luces"} }

\* Every request is of the same conversation,
OneConversation == [r \in Starts \cup Continues |-> cA]

\* or a start is of another one.
TwoConversations == [r \in Starts \cup Continues |-> IF r = s3 THEN cB ELSE cA]

Interchangeable == Permutations(Starts) \cup Permutations(Continues)
=============================================================================
