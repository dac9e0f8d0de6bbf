-------------------------- MODULE MCPilotOwnership --------------------------
EXTENDS PilotOwnership
=============================================================================
