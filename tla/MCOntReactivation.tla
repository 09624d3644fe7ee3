-------------------------- MODULE MCOntReactivation --------------------------
EXTENDS OntReactivation

\* A good power and a critical one.
MCPowerReadings == {-2000, -3000}
=============================================================================
