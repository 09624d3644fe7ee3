------------------------- MODULE MCDiagnosticEngine -------------------------
(* Both ends of every power band, and a reading in each gap around them.    *)
EXTENDS DiagnosticEngine

MCPowerReadings == {-4001, -4000, -2800, -2799, -2750, -2701, -2700, -2500, -2499, -2450,
                    -2401, -2400, -800, -799}
=============================================================================
