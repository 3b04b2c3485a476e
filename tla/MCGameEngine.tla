---------------------------- MODULE MCGameEngine ----------------------------
EXTENDS GameEngineProps, Sequences

(* Boards.  Each is written as rows of one-letter tiles, in the way the       *)
(* observer shows them: A and B the bases, M a mineral, T terrain.            *)
KindOf(c) == CASE c \in {"A", "B"} -> "BASE"
               [] c = "M"          -> "MINERAL"
               [] c = "T"          -> "TERRAIN"

OwnerOf(c) == CASE c = "A" -> -1 [] c = "B" -> 1 [] OTHER -> 0

\* The objects of a square picture, numbered row by row from 0.
BoardOf(rows) ==
  LET n == Len(rows)
      tile(k) == rows[(k \div n) + 1][(k % n) + 1]
      used == {k \in 0 .. n * n - 1 : tile(k) # "."}
      id(k) == Cardinality({j \in used : j < k})
  IN [i \in 0 .. Cardinality(used) - 1 |->
        LET k == CHOOSE k \in used : id(k) = i IN
        [type |-> KindOf(tile(k)), coord |-> <<k \div n, k % n>>,
         owner |-> OwnerOf(tile(k))]]

\* Rotated about its centre, as isRotSym lays a map out: one mineral, which both
\* players reach from two tiles each.
Shared == BoardOf(<< <<"A", ".", "T">>,
                     <<".", "M", ".">>,
                     <<"T", ".", "B">> >>)

\* A corridor without minerals: what each side has is what it starts with.
Barren == BoardOf(<< <<"A", ".", "T">>,
                     <<"T", ".", "T">>,
                     <<"T", ".", "B">> >>)

BarrenBoards == {Barren}
SharedBoards == {Shared}

\* Scaled tables: same order of magnitudes, small enough to reach every outcome.
FrailHp       == [t \in OwnedTypes |-> 1]
WorkersCost   == [t \in OwnedTypes |-> IF t = "WORKER" THEN 2 ELSE 9]
BuilderCost   == [t \in OwnedTypes |-> IF t = "BASE" THEN 9 ELSE 1]
LongRange     == [OBJ_ATTACK_RANGE_MAP EXCEPT !["WORKER"] = 2]
SmallTime     == [t \in OwnedTypes |-> 1]

\* Every action under way ends: shown for the base of player A, and for the object
\* born first in a game on Barren, whose ids 0 to 5 are laid out.
Completion == \A i \in {0, 6} : Completes(i)
==============================================================================
