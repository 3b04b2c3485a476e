----------------------------- MODULE MapGenerator -----------------------------
(***************************************************************************)
(* GameReset of game_engine.cpp: how a board is laid out.  Places for the  *)
(* expansions are rolled in the upper half of the board, the rest of the   *)
(* half is strewn with terrain, and the half is mirrored.  The random      *)
(* engine may roll anything.                                               *)
(***************************************************************************)
EXTENDS GameTypes, Sequences, Functions

CONSTANTS
  W,          \* game.w = game.h; even, as GAME_W and GAME_H are
  Requests,   \* what a RESET may ask for
  FirstId,    \* game.objCnt as the last game has left it
  MaxStray    \* flags read behind the vector that are set (a bound of the model)

\* What the server starter accepts: cluster counts and expansion counts from 1 to 5,
\* and terrain in percent.
StarterRequest == [expansions : 1 .. 5, clusters : 1 .. 5, percent : 0 .. 100,
                   rotational : BOOLEAN]

ASSUME GeneratorAssumption ==
  /\ W \in Nat /\ W % 2 = 0
  /\ Requests \subseteq StarterRequest
  /\ FirstId \in Nat /\ MaxStray \in Nat

Tiles == (0 .. W - 1) \X (0 .. W - 1)

\* The tiles that locations 0 .. w * h / 2 - 1 stand for.
Half == (0 .. (W \div 2) - 1) \X (0 .. W - 1)

VARIABLES
  ask,          \* the arguments of GameReset
  stage,        \* how far GameReset has come
  expansions,   \* expansionVec
  objs,         \* game.objMap: id -> [type, coord, owner]
  objCnt,       \* game.objCnt
  unvisited,    \* tiles the terrain loop has still to come to
  validIdx,     \* how many flags it has read
  laid,         \* how many of these were set
  copied        \* objects of cpy that are mirrored already

vars == <<ask, stage, expansions, objs, objCnt, unvisited, validIdx, laid, copied>>

MINERAL_DISTANCE == 2

Span == 2 * MINERAL_DISTANCE + 1

-----------------------------------------------------------------------------
(* Expansions *)

\* c lies within d columns and d rows of e.
Within(d, c, e) == Distance(c[1], e[1]) <= d /\ Distance(c[2], e[2]) <= d

\* Mutant: expansions may come one tile nearer to each other than they should.
NearerByOne(c, e) == Within(2 * MINERAL_DISTANCE - 1, c, e)

TooNear(c, e) == Within(2 * MINERAL_DISTANCE, c, e)

\* A roll that is not repeated: the minerals about c stay in the half of the board,
\* and apart from those of the expansions that are placed.
Inside(c) ==
  /\ MINERAL_DISTANCE <= c[2] /\ c[2] < W - MINERAL_DISTANCE
  /\ MINERAL_DISTANCE <= c[1] /\ c[1] < (W \div 2) - MINERAL_DISTANCE

IsValidExpansion(c) ==
  Inside(c) /\ \A k \in DOMAIN expansions : ~TooNear(c, expansions[k])

\* DIRECTION_OFFSET_MAP: five tiles in a row on one side of the expansion.
Offset(dir, n) ==
  CASE dir = 0 -> <<-2, n - 3>>
    [] dir = 1 -> <<2, n - 3>>
    [] dir = 2 -> <<n - 3, -2>>
    [] dir = 3 -> <<n - 3, 2>>

\* The tile of the n-th cluster of an expansion at c.
Spot(c, dir, n) == <<c[1] + Offset(dir, n)[1], c[2] + Offset(dir, n)[2]>>

\* A new object has no owner yet; the last loop before the mirror gives it one.
Laid(type, c) == [type |-> type, coord |-> c, owner |-> 0]

\* objMap with the objects of a sequence emplaced one after the other.
Emplaced(new) ==
  [i \in DOMAIN objs \cup (objCnt .. objCnt + Len(new) - 1) |->
     IF i \in DOMAIN objs THEN objs[i] ELSE new[i - objCnt + 1]]

Emplace(new) == objs' = Emplaced(new) /\ objCnt' = objCnt + Len(new)

BaseOf(c) == IF expansions = << >> THEN <<Laid("BASE", c)>> ELSE << >>

ClusterOf(c, dir) == [n \in 1 .. ask.clusters |-> Laid("MINERAL", Spot(c, dir, n))]

Init ==
  /\ ask \in Requests
  /\ stage = "expand"
  /\ expansions = << >>
  /\ objs = [i \in {} |-> 0] /\ objCnt = FirstId
  /\ unvisited = Half /\ validIdx = 0 /\ laid = 0
  /\ copied = {}

\* One of a hundred rolls is valid.
PlaceExpansion ==
  /\ stage = "expand" /\ Len(expansions) < ask.expansions
  /\ \E c \in Half, dir \in 0 .. 3 :
       /\ IsValidExpansion(c)
       /\ expansions' = Append(expansions, c)
       /\ Emplace(BaseOf(c) \o ClusterOf(c, dir))
  /\ UNCHANGED <<ask, stage, unvisited, validIdx, laid, copied>>

-----------------------------------------------------------------------------
(* Terrain *)

\* Tiles for terrain if every expansion asked for was placed.
Remaining == (W * W) \div 2 - Span * Span * ask.expansions

TerrainCnt == (Remaining * ask.percent) \div 100

\* The expansions are placed, or none of a hundred rolls was valid.  A negative size
\* makes the vector of flags throw.
EndExpansions ==
  /\ stage = "expand"
  /\ stage' = IF Remaining < 0 THEN "failed" ELSE "terrain"
  /\ UNCHANGED <<ask, expansions, objs, objCnt, unvisited, validIdx, laid, copied>>

\* The loop goes row by row: c is the tile it comes to next.
IsNext(c) ==
  \A d \in unvisited : c[1] < d[1] \/ (c[1] = d[1] /\ c[2] <= d[2])

\* Mutant: the rim of an expansion's window gets terrain.
NearCentre(c) == \E k \in DOMAIN expansions : Within(MINERAL_DISTANCE - 1, c, expansions[k])

\* Mutant: terrain is kept off the expansion itself only.
AtCentre(c) == c \in Range(expansions)

InWindow(c) == \E k \in DOMAIN expansions : Within(MINERAL_DISTANCE, c, expansions[k])

\* One iteration of the loop, at c.
Visit(c) ==
  /\ stage = "terrain" /\ IsNext(c)
  /\ unvisited' = unvisited \ {c}

SkipTile ==
  /\ \E c \in unvisited : InWindow(c) /\ Visit(c)
  /\ UNCHANGED <<ask, stage, expansions, objs, objCnt, validIdx, laid, copied>>

\* What terrainFlagVec[validIdx] may hold.  The vector is shuffled, so that any of the
\* flags still to come may be set, TerrainCnt of them in all.  Behind its end lies
\* anything.
MayBe(flag) ==
  IF validIdx < Remaining
  THEN IF flag THEN laid < TerrainCnt
               ELSE TerrainCnt - laid < Remaining - validIdx
  ELSE flag => laid < MaxStray

LayTile ==
  /\ \E c \in unvisited, flag \in BOOLEAN :
       /\ ~InWindow(c) /\ Visit(c)
       /\ MayBe(flag)
       /\ IF flag THEN Emplace(<<Laid("TERRAIN", c)>>) /\ laid' = laid + 1
                  ELSE UNCHANGED <<objs, objCnt, laid>>
  /\ validIdx' = validIdx + 1
  /\ UNCHANGED <<ask, stage, expansions, copied>>

\* A read behind the end of the vector need not return.
ReadFails ==
  /\ validIdx >= Remaining
  /\ stage = "terrain" /\ \E c \in unvisited : ~InWindow(c) /\ IsNext(c)
  /\ stage' = "failed"
  /\ UNCHANGED <<ask, expansions, objs, objCnt, unvisited, validIdx, laid, copied>>

-----------------------------------------------------------------------------
(* The other half *)

\* Bases go to player A; everything else stays neutral.
SetOwners ==
  /\ stage = "terrain" /\ unvisited = {}
  /\ objs' = [i \in DOMAIN objs |->
                [objs[i] EXCEPT !.owner = IF objs[i].type = "BASE" THEN -1 ELSE 0]]
  /\ stage' = "mirror"
  /\ UNCHANGED <<ask, expansions, objCnt, unvisited, validIdx, laid, copied>>

\* cpy, taken before the first object is mirrored: the objects of the upper half.
Originals == FirstId .. objCnt - 1 - Cardinality(copied)

Opposite(c) == <<W - 1 - c[1], IF ask.rotational THEN W - 1 - c[2] ELSE c[2]>>

Image(o) == [o EXCEPT !.coord = Opposite(@), !.owner = IF @ = -1 THEN 1 ELSE @]

\* The copy is an unordered map: its objects come in any order.
Mirror ==
  /\ stage = "mirror"
  /\ \E i \in Originals \ copied :
       /\ Emplace(<<Image(objs[i])>>)
       /\ copied' = copied \cup {i}
  /\ UNCHANGED <<ask, stage, expansions, unvisited, validIdx, laid>>

\* taskCounter++
Finish ==
  /\ stage = "mirror" /\ Originals \subseteq copied
  /\ stage' = "done"
  /\ UNCHANGED <<ask, expansions, objs, objCnt, unvisited, validIdx, laid, copied>>

Next ==
  \/ PlaceExpansion \/ EndExpansions
  \/ SkipTile \/ LayTile \/ ReadFails
  \/ SetOwners \/ Mirror \/ Finish

Spec == Init /\ [][Next]_vars

==============================================================================
