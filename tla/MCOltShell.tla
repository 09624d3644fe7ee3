------------------------------ MODULE MCOltShell ------------------------------
EXTENDS OltShell

\* The first steps of HuaweiAdapter.showOnu as the stream sees them: interactive and
\* required (ont), plain (login), interactive (power), plain (exit interface).
ShowOnuInteractive == {1, 3}
ShowOnuRequired == {1}

\* VSolAdapter.reactivateOnt: login, activate_ont, exit_interface.
ReactivateInteractive == {2}
=============================================================================
