---------------------------- MODULE MCRtsService ----------------------------
EXTENDS RtsServiceProps

CONSTANTS o1, p1

OneObserver == {o1}
OnePlayer   == {p1}
NoPlayer    == {}

\* The player plays A.
SideOf == [p \in Players |-> 0]
==============================================================================
