---------------------------- MODULE MCPilotSocket ----------------------------
EXTENDS PilotSocket, TLC
Perms == Permutations(Requests \ Logouts)
=============================================================================
