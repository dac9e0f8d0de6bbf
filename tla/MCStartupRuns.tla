--------------------------- MODULE MCStartupRuns ---------------------------
EXTENDS StartupRuns
Board == {1}
=============================================================================
