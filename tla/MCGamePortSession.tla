------------------------- MODULE MCGamePortSession -------------------------
EXTENDS GamePortSession
=============================================================================
