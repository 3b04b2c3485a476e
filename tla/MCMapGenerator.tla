---------------------------- MODULE MCMapGenerator ----------------------------
EXTENDS MapGeneratorProps

Request(e, c, p, r) ==
  [expansions |-> e, clusters |-> c, percent |-> p, rotational |-> r]

\* A full cluster; terrain; two expansions, for which the first one may leave no room;
\* and more than the board has tiles for.
SmallRequests ==
  {Request(1, 5, 0, TRUE), Request(1, 1, 8, FALSE), Request(2, 2, 0, TRUE),
   Request(3, 1, 0, FALSE)}
==============================================================================
