-------------------------- MODULE MapGeneratorProps --------------------------
(***************************************************************************)
(* What is claimed of MapGenerator.                                        *)
(***************************************************************************)
EXTENDS MapGenerator

\* The board that GameReset leaves, its objects numbered from 0.
Board == [i \in 0 .. objCnt - FirstId - 1 |-> objs[FirstId + i]]

\* If an expansion could be placed, the board is one that the engine is made for: one
\* base for each player, nobody else's anything, and no two objects on one tile, of the
\* same expansion, of different ones, or mirrored onto each other.  If none could, nobody
\* owns anything (while buildingCnt says 1 each).
LaidOut ==
  stage = "done" =>
    IF expansions # << >> THEN IsLayout(Board, Tiles)
                          ELSE \A i \in DOMAIN objs : objs[i].owner = 0

\* No base is walled in: the tiles next to it are free, whatever the terrain and the
\* other expansions, so that it can produce its first worker.
BasesHaveRoom ==
  stage = "done" =>
    \A i, j \in DOMAIN objs :
      objs[i].type = "BASE" /\ i # j => ~Adjacent(objs[i].coord, objs[j].coord)

\* If all expansions could be placed, the terrain loop reads no flag that is not in
\* terrainFlagVec, and it reads them all: each half gets the terrain it was asked to.
TerrainAsAsked ==
  Len(expansions) = ask.expansions =>
    /\ stage = "terrain" => validIdx <= Remaining
    /\ stage # "failed" \/ Remaining < 0
    /\ stage = "done" =>
         Cardinality({i \in DOMAIN objs : objs[i].type = "TERRAIN"}) = 2 * TerrainCnt

-----------------------------------------------------------------------------
(* Why the board is laid out so: an inductive invariant.                     *)

Object == [type : {"BASE", "MINERAL", "TERRAIN"}, coord : Tiles, owner : Owners]

GeneratorTypeOK ==
  /\ ask \in Requests
  /\ stage \in {"expand", "terrain", "failed", "mirror", "done"}
  /\ expansions \in Seq(Half)
  /\ objCnt \in Nat /\ FirstId <= objCnt
  /\ objs \in [FirstId .. objCnt - 1 -> Object]
  /\ unvisited \subseteq Half
  /\ IsFiniteSet(copied)

\* The one base of the upper half is the object that was laid out first.
BaseFirst(ids) ==
  /\ \A i \in ids : objs[i].type = "BASE" <=> i = FirstId /\ expansions # << >>
  /\ expansions # << >> => FirstId \in ids

OneTileEach == \A i, j \in DOMAIN objs : objs[i].coord = objs[j].coord => i = j

\* Before the mirror: all objects are in the upper half and nobody's.  Bases and
\* minerals are in the windows; terrain is outside, where the loop has been.
UpperHalf ==
  stage \in {"expand", "terrain", "failed"} =>
    /\ copied = {}
    /\ BaseFirst(DOMAIN objs)
    /\ \A i \in DOMAIN objs :
         /\ objs[i].owner = 0 /\ objs[i].coord \in Half
         /\ IF objs[i].type = "TERRAIN"
            THEN stage # "expand" /\ objs[i].coord \notin unvisited
                 /\ ~InWindow(objs[i].coord)
            ELSE InWindow(objs[i].coord)

\* Afterwards: what is not an original is the image of one that was copied.
BothHalves ==
  stage \in {"mirror", "done"} =>
    LET images == DOMAIN objs \ Originals IN
    /\ copied \subseteq Originals
    /\ stage = "done" => copied = Originals
    /\ BaseFirst(Originals)
    /\ \A i \in Originals :
         /\ objs[i].coord \in Half
         /\ objs[i].owner = IF objs[i].type = "BASE" THEN -1 ELSE 0
    /\ \A i \in copied : \E j \in images : objs[j] = Image(objs[i])
    /\ \A j \in images : \E i \in copied : objs[j] = Image(objs[i])

GeneratorInv == GeneratorTypeOK /\ OneTileEach /\ UpperHalf /\ BothHalves

\* The first expansion is the base, at least MINERAL_DISTANCE off the rims and the middle
\* of the board, and nothing else in the upper half is next to it.
RoomOK ==
  expansions # << >> =>
    /\ Inside(expansions[1]) /\ objs[FirstId].coord = expansions[1]
    /\ \A i \in Originals \ {FirstId} : ~Adjacent(objs[i].coord, expansions[1])

\* The tiles for which the terrain loop has still to read a flag.
Ahead == {c \in unvisited : ~InWindow(c)}

TerrainAt(ids) == {i \in ids : objs[i].type = "TERRAIN"}

\* Every tile of the half is in one window, has had its flag, or is ahead.
FlagsOK ==
  /\ validIdx \in Nat /\ laid \in Nat
  /\ Len(expansions) <= ask.expansions
  /\ stage = "expand" => unvisited = Half /\ validIdx = 0 /\ laid = 0
  /\ stage \in {"mirror", "done"} => unvisited = {}
  /\ validIdx + Cardinality(Ahead) + Span * Span * Len(expansions) = (W * W) \div 2

\* If no expansion is missing, the flags still to come are enough for the terrain that
\* is still to be laid, and no more than that is set.
TerrainDue ==
  Len(expansions) = ask.expansions =>
    /\ stage \in {"terrain", "mirror", "done"} =>
         laid <= TerrainCnt /\ TerrainCnt - laid <= Remaining - validIdx
    /\ stage = "failed" => Remaining < 0

\* laid counts the terrain of the upper half; the images of what is copied come on top.
TerrainCounted ==
  /\ Cardinality(TerrainAt(Originals)) = laid
  /\ Cardinality(TerrainAt(DOMAIN objs)) = laid + Cardinality(TerrainAt(copied))

==============================================================================
