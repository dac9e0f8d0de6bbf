------------------------- MODULE MCTransitionBarrier -------------------------
EXTENDS TransitionBarrier
\* A boarding and a docking, or two commands of one kind.
BoardDockOrDocks == {<<"board", "dock">>, <<"dock", "dock">>}
=============================================================================
