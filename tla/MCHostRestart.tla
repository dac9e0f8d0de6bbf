---------------------------- MODULE MCHostRestart ----------------------------
EXTENDS HostRestart
==============================================================================
