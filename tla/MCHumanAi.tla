------------------------------ MODULE MCHumanAi ------------------------------
EXTENDS HumanAiProps, MCGameEngine

\* Rotated about its centre: the worker of each player has one mineral near, and one
\* that it has to walk to.
Open == BoardOf(<< <<"A", ".", "M">>,
                   <<".", ".", ".">>,
                   <<"M", ".", "B">> >>)

OpenBoards == {Open}

PlayerA == -1

\* The bank is enough for two workers.
CheapWorkers == [t \in OwnedTypes |-> IF t = "WORKER" THEN 1 ELSE 9]

==============================================================================
