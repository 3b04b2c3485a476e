-------------------------- MODULE MapGeneratorProofs --------------------------
(***************************************************************************)
(* GameReset lays out boards that the engine is made for, on every even    *)
(* board size and for every request: GeneratorInv is inductive and implies *)
(* LaidOut, which is the assumption BoardLayout of GameEngine.             *)
(***************************************************************************)
EXTENDS MapGeneratorProps, FiniteSetTheorems, SequenceTheorems, TLAPS

\* The rows of the upper half are those above the middle.
LEMMA HalfRows ==
  /\ W \in Nat /\ W \div 2 \in Nat /\ W = 2 * (W \div 2)
  /\ Half \subseteq Tiles
  /\ \A c \in Half : c[1] \in 0 .. (W \div 2) - 1 /\ c[2] \in 0 .. W - 1
  /\ \A c \in Half : c = <<c[1], c[2]>>
<1>1. W \in Nat /\ W \div 2 \in Nat /\ W = 2 * (W \div 2)
  BY GeneratorAssumption DEF GeneratorAssumption
<1>2. (W \div 2) - 1 <= W - 1
  BY <1>1
<1>3. Half \subseteq Tiles
  BY <1>1, <1>2 DEF Half, Tiles
<1> QED
  BY <1>1, <1>3 DEF Half

\* A request has one to five clusters for each expansion.
LEMMA RequestOK ==
  ASSUME GeneratorTypeOK
  PROVE  ask.clusters \in 1 .. 5 /\ ask.rotational \in BOOLEAN
<1>1. ask \in StarterRequest
  BY GeneratorAssumption DEF GeneratorAssumption, GeneratorTypeOK
<1> QED
  BY <1>1 DEF StarterRequest

\* The mirror maps the upper half into the lower one, and no two tiles onto one.
LEMMA OppositeHalf ==
  ASSUME GeneratorTypeOK, NEW c \in Half
  PROVE  /\ Opposite(c) \in Tiles /\ Opposite(c) \notin Half
         /\ \A d \in Half : Opposite(c) = Opposite(d) => c = d
<1>1. /\ W \in Nat /\ W \div 2 \in Nat /\ W = 2 * (W \div 2)
      /\ \A d \in Half : d[1] \in 0 .. (W \div 2) - 1 /\ d[2] \in 0 .. W - 1
      /\ \A d \in Half : d = <<d[1], d[2]>>
  BY HalfRows
<1> DEFINE H == W \div 2
<1>2. W - 1 - c[1] \in 0 .. W - 1 /\ ~(W - 1 - c[1] < H)
  BY <1>1
<1>3. W - 1 - c[2] \in 0 .. W - 1
  BY <1>1
<1>4. Opposite(c) \in Tiles
  BY <1>1, <1>2, <1>3 DEF Opposite, Tiles
<1>5. Opposite(c)[1] = W - 1 - c[1]
  BY DEF Opposite
<1>6. Opposite(c) \notin Half
  BY <1>1, <1>2, <1>5
<1>7. ASSUME NEW d \in Half, Opposite(c) = Opposite(d)
      PROVE  c = d
  <2>1. W - 1 - c[1] = W - 1 - d[1]
    BY <1>5, <1>7 DEF Opposite
  <2>2. CASE ask.rotational
    <3>1. W - 1 - c[2] = W - 1 - d[2]
      BY <1>7, <2>2 DEF Opposite
    <3> QED
      BY <1>1, <2>1, <3>1
  <2>3. CASE ~ask.rotational
    <3>1. c[2] = d[2]
      BY <1>7, <2>3 DEF Opposite
    <3> QED
      BY <1>1, <2>1, <3>1
  <2> QED
    BY <2>2, <2>3
<1> QED
  BY <1>4, <1>6, <1>7

-----------------------------------------------------------------------------
(* Emplacing *)

\* What emplacing a sequence of objects leaves of the old map and puts behind it.
LEMMA EmplaceOK ==
  ASSUME GeneratorTypeOK, NEW new \in Seq(Object), Emplace(new)
  PROVE  /\ objCnt' = objCnt + Len(new) /\ objCnt' \in Nat /\ FirstId <= objCnt'
         /\ objs' \in [FirstId .. objCnt' - 1 -> Object]
         /\ \A i \in FirstId .. objCnt - 1 : objs'[i] = objs[i]
         /\ \A i \in objCnt .. objCnt' - 1 :
              i - objCnt + 1 \in 1 .. Len(new) /\ objs'[i] = new[i - objCnt + 1]
<1>1. /\ FirstId \in Nat /\ objCnt \in Nat /\ FirstId <= objCnt
      /\ objs \in [FirstId .. objCnt - 1 -> Object]
  BY GeneratorAssumption DEF GeneratorAssumption, GeneratorTypeOK
<1>2. Len(new) \in Nat /\ \A n \in 1 .. Len(new) : new[n] \in Object
  OBVIOUS
<1>3. objs' = Emplaced(new) /\ objCnt' = objCnt + Len(new)
  BY DEF Emplace
<1> DEFINE ids == FirstId .. objCnt - 1
           fresh == objCnt .. objCnt + Len(new) - 1
<1>4. DOMAIN objs = ids
  BY <1>1
<1>5. ids \cup fresh = FirstId .. objCnt' - 1
  BY <1>1, <1>2, <1>3
<1>6. objs' = [i \in ids \cup fresh |-> IF i \in ids THEN objs[i] ELSE new[i - objCnt + 1]]
  BY <1>3, <1>4 DEF Emplaced
<1>7. \A i \in ids : objs'[i] = objs[i]
  BY <1>6
<1>8. \A i \in fresh : i \notin ids /\ i - objCnt + 1 \in 1 .. Len(new)
  BY <1>1, <1>2
<1>9. \A i \in fresh : objs'[i] = new[i - objCnt + 1]
  BY <1>6, <1>8
<1>10. \A i \in ids \cup fresh : objs'[i] \in Object
  BY <1>1, <1>2, <1>7, <1>8, <1>9
<1>11. objs' \in [FirstId .. objCnt' - 1 -> Object]
  BY <1>5, <1>6, <1>10
<1> QED
  BY <1>1, <1>2, <1>3, <1>7, <1>8, <1>9, <1>11

-----------------------------------------------------------------------------
(* Expansions *)

\* Where the clusters of a new expansion are: in its window, in the upper half, not next
\* to its centre, and each on a tile of its own.
LEMMA ClusterTiles ==
  ASSUME GeneratorTypeOK, NEW c \in Half, Inside(c), NEW dir \in 0 .. 3,
         NEW n \in 1 .. 5, NEW m \in 1 .. 5
  PROVE  /\ Spot(c, dir, n) \in Half /\ Within(MINERAL_DISTANCE, Spot(c, dir, n), c)
         /\ Spot(c, dir, n) # c /\ ~Adjacent(Spot(c, dir, n), c)
         /\ Spot(c, dir, n) = Spot(c, dir, m) => n = m
<1> DEFINE H == W \div 2
           oy(k) == Offset(dir, k)[1]
           ox(k) == Offset(dir, k)[2]
<1>1. /\ W \in Nat /\ H \in Nat /\ W = 2 * H
      /\ c[1] \in 0 .. H - 1 /\ c[2] \in 0 .. W - 1 /\ c = <<c[1], c[2]>>
  BY HalfRows
<1>2. /\ 2 <= c[2] /\ c[2] < W - 2 /\ 2 <= c[1] /\ c[1] < H - 2
  BY DEF Inside, MINERAL_DISTANCE
<1>3. /\ oy(n) \in -2 .. 2 /\ ox(n) \in -2 .. 2 /\ oy(m) \in -2 .. 2 /\ ox(m) \in -2 .. 2
      /\ oy(n) \in {-2, 2} \/ ox(n) \in {-2, 2}
      /\ oy(n) = oy(m) /\ ox(n) = ox(m) => n = m
  <2>0. dir = 0 \/ dir = 1 \/ dir = 2 \/ dir = 3
    OBVIOUS
  <2>1. CASE dir = 0
    BY <2>1 DEF Offset
  <2>2. CASE dir = 1
    BY <2>2 DEF Offset
  <2>3. CASE dir = 2
    BY <2>3 DEF Offset
  <2>4. CASE dir = 3
    BY <2>4 DEF Offset
  <2> QED
    BY <2>0, <2>1, <2>2, <2>3, <2>4
<1>4. /\ Spot(c, dir, n) = <<c[1] + oy(n), c[2] + ox(n)>>
      /\ Spot(c, dir, m) = <<c[1] + oy(m), c[2] + ox(m)>>
  BY DEF Spot
<1>5. Half = (0 .. H - 1) \X (0 .. W - 1)
  BY DEF Half
<1> HIDE DEF H, oy, ox
<1>6. c[1] + oy(n) \in 0 .. H - 1 /\ c[2] + ox(n) \in 0 .. W - 1
  BY <1>1, <1>2, <1>3
<1>7. Spot(c, dir, n) \in Half
  BY <1>4, <1>5, <1>6
<1>8. Within(MINERAL_DISTANCE, Spot(c, dir, n), c)
  BY <1>1, <1>3, <1>4 DEF Within, Distance, MINERAL_DISTANCE
<1>9. ~Adjacent(Spot(c, dir, n), c) /\ Spot(c, dir, n) # c
  BY <1>1, <1>3, <1>4 DEF Adjacent, Distance
<1>10. Spot(c, dir, n) = Spot(c, dir, m) => n = m
  BY <1>1, <1>3, <1>4
<1> QED
  BY <1>7, <1>8, <1>9, <1>10

\* The objects of an expansion at c, in the order in which they are emplaced.
IsExpansion(new, c) ==
  /\ new \in Seq(Object) /\ Len(new) >= 1
  /\ \A n \in 1 .. Len(new) :
       /\ new[n].owner = 0 /\ new[n].type \in {"BASE", "MINERAL"}
       /\ new[n].coord \in Half /\ Within(MINERAL_DISTANCE, new[n].coord, c)
       /\ new[n].type = "BASE" <=> n = 1 /\ expansions = << >>
       /\ IF new[n].type = "BASE" THEN new[n].coord = c ELSE ~Adjacent(new[n].coord, c)
  /\ \A n, m \in 1 .. Len(new) : new[n].coord = new[m].coord => n = m

\* What a valid roll puts on the board.
LEMMA NewExpansion ==
  ASSUME GeneratorTypeOK, NEW c \in Half, IsValidExpansion(c), NEW dir \in 0 .. 3,
         NEW new, new = BaseOf(c) \o ClusterOf(c, dir)
  PROVE  IsExpansion(new, c)
<1>1. ask.clusters \in 1 .. 5
  BY RequestOK
<1>2. Half \subseteq Tiles /\ c[1] \in Int /\ c[2] \in Int
  BY HalfRows
<1>3. Inside(c)
  BY DEF IsValidExpansion
<1> DEFINE cluster == ClusterOf(c, dir)
           base == BaseOf(c)
<1>4. ASSUME NEW n \in 1 .. 5, NEW m \in 1 .. 5
      PROVE  /\ Spot(c, dir, n) \in Half
             /\ Within(MINERAL_DISTANCE, Spot(c, dir, n), c)
             /\ Spot(c, dir, n) # c /\ ~Adjacent(Spot(c, dir, n), c)
             /\ Spot(c, dir, n) = Spot(c, dir, m) => n = m
  BY <1>3, ClusterTiles
<1>5. \A n \in 1 .. 5 :
        /\ Spot(c, dir, n) \in Half
        /\ Within(MINERAL_DISTANCE, Spot(c, dir, n), c)
        /\ Spot(c, dir, n) # c /\ ~Adjacent(Spot(c, dir, n), c)
  BY <1>4
<1>6. Within(MINERAL_DISTANCE, c, c)
  BY <1>2 DEF Within, Distance, MINERAL_DISTANCE
<1>7. ASSUME NEW type \in {"BASE", "MINERAL"}, NEW t \in Half
      PROVE  /\ Laid(type, t) \in Object
             /\ Laid(type, t).type = type /\ Laid(type, t).coord = t /\ Laid(type, t).owner = 0
  BY <1>2 DEF Laid, Object, Owners
<1>8. /\ cluster \in Seq(Object) /\ Len(cluster) = ask.clusters
      /\ \A n \in 1 .. Len(cluster) :
           n \in 1 .. 5 /\ cluster[n] = Laid("MINERAL", Spot(c, dir, n))
  <2>1. \A n \in 1 .. ask.clusters : n \in 1 .. 5 /\ Laid("MINERAL", Spot(c, dir, n)) \in Object
    BY <1>1, <1>4, <1>7
  <2>2. cluster = [n \in 1 .. ask.clusters |-> Laid("MINERAL", Spot(c, dir, n))]
    BY DEF ClusterOf
  <2> HIDE DEF cluster
  <2>3. cluster \in [1 .. ask.clusters -> Object]
    BY <2>1, <2>2
  <2>4. cluster \in Seq(Object) /\ Len(cluster) = ask.clusters
    BY <1>1, <2>3
  <2> QED
    BY <2>1, <2>2, <2>4
<1>9. CASE expansions = << >>
  <2>1. base = <<Laid("BASE", c)>>
    BY <1>9 DEF BaseOf
  <2>2. new = <<Laid("BASE", c)>> \o cluster
    BY <2>1
  <2> HIDE DEF cluster, base
  <2>3. Laid("BASE", c) \in Object
    BY <1>7
  <2>4. /\ new \in Seq(Object) /\ Len(new) = 1 + ask.clusters /\ new[1] = Laid("BASE", c)
        /\ \A n \in 2 .. Len(new) : new[n] = cluster[n - 1] /\ n - 1 \in 1 .. Len(cluster)
    <3>1. <<Laid("BASE", c)>> \in Seq(Object) /\ Len(<<Laid("BASE", c)>>) = 1
      BY <2>3
    <3>2. /\ new \in Seq(Object) /\ Len(new) = 1 + ask.clusters
          /\ \A i \in 1 .. 1 + ask.clusters :
               new[i] = IF i <= 1 THEN <<Laid("BASE", c)>>[i] ELSE cluster[i - 1]
      BY <3>1, <2>2, <1>8, ConcatProperties
    <3>3. new[1] = Laid("BASE", c)
      BY <1>1, <3>2
    <3>4. ASSUME NEW n \in 2 .. Len(new)
          PROVE  new[n] = cluster[n - 1] /\ n - 1 \in 1 .. Len(cluster)
      <4>1. n \in 1 .. 1 + ask.clusters /\ ~(n <= 1) /\ n - 1 \in 1 .. ask.clusters
        BY <1>1, <3>2
      <4> QED
        BY <4>1, <3>2, <1>8
    <3> QED
      BY <3>2, <3>3, <3>4
  <2>5. ASSUME NEW n \in 1 .. Len(new)
        PROVE  \/ n = 1 /\ new[n] = Laid("BASE", c)
               \/ /\ n # 1 /\ n - 1 \in 1 .. 5
                  /\ new[n] = Laid("MINERAL", Spot(c, dir, n - 1))
    <3>1. n = 1 \/ (n # 1 /\ n \in 2 .. Len(new))
      BY <1>1, <2>4
    <3> QED
      BY <3>1, <2>4, <1>8
  <2>6. ASSUME NEW n \in 1 .. Len(new)
        PROVE  /\ new[n].owner = 0 /\ new[n].type \in {"BASE", "MINERAL"}
               /\ new[n].coord \in Half /\ Within(MINERAL_DISTANCE, new[n].coord, c)
               /\ new[n].type = "BASE" <=> n = 1
               /\ IF new[n].type = "BASE" THEN new[n].coord = c
                                         ELSE ~Adjacent(new[n].coord, c)
    <3>1. CASE n = 1
      BY <3>1, <2>5, <1>6, <1>7
    <3>2. CASE n # 1
      <4>1. n - 1 \in 1 .. 5 /\ new[n] = Laid("MINERAL", Spot(c, dir, n - 1))
        BY <3>2, <2>5
      <4>2. /\ Spot(c, dir, n - 1) \in Half
            /\ Within(MINERAL_DISTANCE, Spot(c, dir, n - 1), c)
            /\ ~Adjacent(Spot(c, dir, n - 1), c)
        BY <4>1, <1>5
      <4> QED
        BY <3>2, <4>1, <4>2, <1>7
    <3> QED
      BY <3>1, <3>2
  <2>7. ASSUME NEW n \in 1 .. Len(new)
        PROVE  IF n = 1 THEN new[n].coord = c
                        ELSE n - 1 \in 1 .. 5 /\ new[n].coord = Spot(c, dir, n - 1)
    <3>1. CASE n = 1
      BY <3>1, <2>5, <1>7
    <3>2. CASE n # 1
      BY <3>2, <2>5, <1>4, <1>7
    <3> QED
      BY <3>1, <3>2
  <2>8. ASSUME NEW n \in 1 .. Len(new), NEW m \in 1 .. Len(new), new[n].coord = new[m].coord
        PROVE  n = m
    <3>1. ASSUME NEW k \in 1 .. Len(new), k # 1
          PROVE  new[k].coord # c
      <4>1. k - 1 \in 1 .. 5 /\ new[k].coord = Spot(c, dir, k - 1)
        BY <3>1, <2>7
      <4> QED
        BY <4>1, <1>5
    <3>2. CASE n # 1 /\ m # 1
      <4>1. /\ n - 1 \in 1 .. 5 /\ m - 1 \in 1 .. 5
            /\ Spot(c, dir, n - 1) = Spot(c, dir, m - 1)
        BY <3>2, <2>7, <2>8
      <4>2. n - 1 = m - 1
        BY <4>1, <1>4
      <4> QED
        BY <4>2, <2>4
    <3>3. CASE n = 1 \/ m = 1
      BY <3>1, <3>3, <2>7, <2>8
    <3> QED
      BY <3>2, <3>3
  <2> QED
    BY <1>1, <1>9, <2>4, <2>6, <2>8 DEF IsExpansion
<1>10. CASE expansions # << >>
  <2>1. new = << >> \o cluster
    BY <1>10 DEF BaseOf
  <2> HIDE DEF cluster, base
  <2>2. new = cluster
    BY <2>1, <1>8
  <2>3. ASSUME NEW n \in 1 .. Len(new)
        PROVE  /\ new[n].owner = 0 /\ new[n].type = "MINERAL"
               /\ new[n].coord = Spot(c, dir, n) /\ new[n].coord \in Half
               /\ Within(MINERAL_DISTANCE, new[n].coord, c)
               /\ ~Adjacent(new[n].coord, c)
    BY <2>2, <1>4, <1>7, <1>8
  <2>4. ASSUME NEW n \in 1 .. Len(new), NEW m \in 1 .. Len(new), new[n].coord = new[m].coord
        PROVE  n = m
    <3>1. n \in 1 .. 5 /\ m \in 1 .. 5 /\ Spot(c, dir, n) = Spot(c, dir, m)
      BY <2>2, <2>3, <2>4, <1>8
    <3> QED
      BY <3>1, <1>4
  <2> QED
    BY <1>1, <1>8, <1>10, <2>2, <2>3, <2>4 DEF IsExpansion
<1> QED
  BY <1>9, <1>10

\* The windows of a valid roll and of an expansion in place have no tile in common.
LEMMA WindowsApart ==
  ASSUME GeneratorTypeOK, NEW c \in Half, IsValidExpansion(c), NEW t \in Half,
         Within(MINERAL_DISTANCE, t, c)
  PROVE  ~InWindow(t)
<1> SUFFICES ASSUME NEW k \in DOMAIN expansions, Within(MINERAL_DISTANCE, t, expansions[k])
             PROVE  FALSE
  BY DEF InWindow
<1>1. expansions[k] \in Half
  BY DEF GeneratorTypeOK
<1>2. /\ c[1] \in Int /\ c[2] \in Int /\ t[1] \in Int /\ t[2] \in Int
      /\ expansions[k][1] \in Int /\ expansions[k][2] \in Int
  BY <1>1, HalfRows
<1>3. ~TooNear(c, expansions[k])
  BY DEF IsValidExpansion
<1> QED
  BY <1>2, <1>3 DEF TooNear, Within, Distance, MINERAL_DISTANCE

-----------------------------------------------------------------------------
(* The invariant is inductive: one lemma for each action.                    *)

\* The board that GameReset starts from is empty.
LEMMA InitInv == Init => GeneratorInv
<1> SUFFICES ASSUME Init PROVE GeneratorInv
  OBVIOUS
<1>1. FirstId \in Nat
  BY GeneratorAssumption DEF GeneratorAssumption
<1>2. DOMAIN objs = {} /\ FirstId .. objCnt - 1 = {} /\ objs \in [{} -> Object]
  BY <1>1 DEF Init
<1>3. objs \in [FirstId .. objCnt - 1 -> Object]
  BY <1>2
<1>4. GeneratorTypeOK
  BY <1>1, <1>3, FS_EmptySet DEF Init, GeneratorTypeOK
<1>5. OneTileEach /\ UpperHalf /\ BothHalves
  BY <1>2 DEF Init, OneTileEach, UpperHalf, BothHalves, BaseFirst
<1> QED
  BY <1>4, <1>5 DEF GeneratorInv

\* The cells of a new expansion are on tiles that were free so far.
LEMMA PlaceExpansionInv == GeneratorInv /\ PlaceExpansion => GeneratorInv'
<1> SUFFICES ASSUME GeneratorInv, PlaceExpansion PROVE GeneratorInv'
  OBVIOUS
<1> USE DEF GeneratorInv
<1>1. PICK c \in Half, dir \in 0 .. 3 :
        /\ IsValidExpansion(c) /\ expansions' = Append(expansions, c)
        /\ Emplace(BaseOf(c) \o ClusterOf(c, dir))
  BY DEF PlaceExpansion
<1>2. /\ stage = "expand" /\ stage' = "expand" /\ ask' = ask
      /\ unvisited' = unvisited /\ copied' = copied
  BY DEF PlaceExpansion
<1>3. PICK new : new = BaseOf(c) \o ClusterOf(c, dir)
  OBVIOUS
<1>4. /\ new \in Seq(Object) /\ Len(new) >= 1
      /\ \A n \in 1 .. Len(new) :
           /\ new[n].owner = 0 /\ new[n].type \in {"BASE", "MINERAL"}
           /\ new[n].coord \in Half /\ Within(MINERAL_DISTANCE, new[n].coord, c)
           /\ new[n].type = "BASE" <=> n = 1 /\ expansions = << >>
      /\ \A n, m \in 1 .. Len(new) : new[n].coord = new[m].coord => n = m
  <2>1. IsExpansion(new, c)
    BY <1>1, <1>3, NewExpansion
  <2> QED
    BY <2>1 DEF IsExpansion
<1> DEFINE old == FirstId .. objCnt - 1
           fresh == objCnt .. objCnt' - 1
           place(i) == i - objCnt + 1
<1>5. /\ objCnt' = objCnt + Len(new) /\ objCnt' \in Nat /\ FirstId <= objCnt'
      /\ objs' \in [FirstId .. objCnt' - 1 -> Object]
      /\ \A i \in old : objs'[i] = objs[i]
      /\ \A i \in fresh : place(i) \in 1 .. Len(new) /\ objs'[i] = new[place(i)]
  BY <1>1, <1>3, <1>4, EmplaceOK
<1>6. FirstId \in Nat /\ objCnt \in Nat /\ FirstId <= objCnt /\ DOMAIN objs = old
  BY GeneratorAssumption DEF GeneratorAssumption, GeneratorTypeOK
<1>7. /\ DOMAIN objs' = FirstId .. objCnt' - 1 /\ objCnt < objCnt'
      /\ \A i \in DOMAIN objs' : i \in old \/ i \in fresh
      /\ \A i \in old : i \notin fresh /\ i \in DOMAIN objs'
  BY <1>4, <1>5, <1>6
<1>8. /\ expansions' \in Seq(Half) /\ expansions' # << >>
      /\ Len(expansions) \in Nat
      /\ Len(expansions') = Len(expansions) + 1 /\ expansions'[Len(expansions')] = c
      /\ \A k \in DOMAIN expansions :
           k \in DOMAIN expansions' /\ expansions'[k] = expansions[k]
  <2>1. expansions \in Seq(Half) /\ Len(expansions) \in Nat
    BY DEF GeneratorTypeOK
  <2>2. expansions' = Append(expansions, c)
    BY <1>1
  <2> QED
    BY <2>1, <2>2, AppendProperties, LenProperties
<1> DEFINE Covered(t) ==
             \E k \in DOMAIN expansions' : Within(MINERAL_DISTANCE, t, expansions'[k])
<1>9. /\ \A t : InWindow(t) => Covered(t)
      /\ \A t : Within(MINERAL_DISTANCE, t, c) => Covered(t)
  <2>1. Len(expansions') \in DOMAIN expansions'
    BY <1>8 DEF GeneratorTypeOK
  <2> QED
    BY <1>8, <2>1 DEF InWindow
<1>10. GeneratorTypeOK'
  BY <1>2, <1>5, <1>8 DEF GeneratorTypeOK
<1>11. /\ copied = {} /\ BaseFirst(old)
       /\ \A i \in old : /\ objs[i].owner = 0 /\ objs[i].coord \in Half
                        /\ objs[i].type # "TERRAIN" /\ InWindow(objs[i].coord)
  BY <1>2, <1>6 DEF UpperHalf
<1>12. \A i \in fresh :
         /\ objs'[i].owner = 0 /\ objs'[i].type \in {"BASE", "MINERAL"}
         /\ objs'[i].coord \in Half /\ Within(MINERAL_DISTANCE, objs'[i].coord, c)
         /\ objs'[i].type = "BASE" <=> i = objCnt /\ expansions = << >>
  <2> SUFFICES ASSUME NEW i \in fresh
               PROVE  /\ objs'[i].owner = 0 /\ objs'[i].type \in {"BASE", "MINERAL"}
                      /\ objs'[i].coord \in Half
                      /\ Within(MINERAL_DISTANCE, objs'[i].coord, c)
                      /\ objs'[i].type = "BASE" <=> i = objCnt /\ expansions = << >>
    OBVIOUS
  <2>1. place(i) = 1 <=> i = objCnt
    BY <1>5, <1>6
  <2> QED
    BY <2>1, <1>4, <1>5
<1>13. OneTileEach'
  <2> SUFFICES ASSUME NEW i \in DOMAIN objs', NEW j \in DOMAIN objs',
                      objs'[i].coord = objs'[j].coord
               PROVE  i = j
    BY DEF OneTileEach
  <2>1. ASSUME NEW m \in old, NEW n \in fresh
        PROVE  objs'[m].coord # objs'[n].coord
    <3>1. ~InWindow(objs'[n].coord)
      BY <1>1, <1>12, WindowsApart
    <3> QED
      BY <3>1, <1>5, <1>11
  <2>2. CASE i \in old /\ j \in old
    BY <2>2, <1>5, <1>6 DEF OneTileEach
  <2>3. CASE i \in fresh /\ j \in fresh
    <3>1. new[place(i)].coord = new[place(j)].coord
      BY <2>3, <1>5
    <3>2. place(i) = place(j)
      BY <2>3, <3>1, <1>4, <1>5
    <3> QED
      BY <2>3, <3>2, <1>5, <1>6
  <2> QED
    BY <2>1, <2>2, <2>3, <1>7
<1>14. UpperHalf'
  <2>1. BaseFirst(DOMAIN objs)'
    <3>1. CASE expansions = << >>
      <4>1. \A i \in old : objs'[i].type # "BASE" /\ i # FirstId
        <5>1. old = {}
          <6>1. \A i \in old : ~InWindow(objs[i].coord)
            BY <3>1 DEF InWindow
          <6> QED
            BY <6>1, <1>11
        <5> QED
          BY <5>1
      <4>2. objCnt = FirstId
        <5>1. ~(FirstId < objCnt)
          BY <4>1, <1>6
        <5> QED
          BY <5>1, <1>6
      <4>3. \A i \in DOMAIN objs' : objs'[i].type = "BASE" <=> i = FirstId
        <5>1. ASSUME NEW i \in DOMAIN objs'
              PROVE  objs'[i].type = "BASE" <=> i = FirstId
          <6>1. i \in fresh
            BY <4>2, <1>7
          <6> QED
            BY <6>1, <3>1, <4>2, <1>12
        <5> QED
          BY <5>1
      <4>4. FirstId \in DOMAIN objs'
        BY <4>2, <1>5, <1>6, <1>7
      <4> QED
        BY <4>3, <4>4, <1>8 DEF BaseFirst
    <3>2. CASE expansions # << >>
      <4>1. FirstId \in old /\ \A i \in old : objs'[i].type = "BASE" <=> i = FirstId
        BY <3>2, <1>5, <1>11 DEF BaseFirst
      <4>2. \A i \in fresh : objs'[i].type # "BASE" /\ i # FirstId
        BY <3>2, <4>1, <1>7, <1>12
      <4>3. \A i \in DOMAIN objs' : objs'[i].type = "BASE" <=> i = FirstId
        BY <4>1, <4>2, <1>7
      <4> QED
        BY <4>1, <4>3, <1>7, <1>8 DEF BaseFirst
    <3> QED
      BY <3>1, <3>2
  <2>2. \A i \in DOMAIN objs' :
          /\ objs'[i].owner = 0 /\ objs'[i].coord \in Half
          /\ objs'[i].type # "TERRAIN" /\ Covered(objs'[i].coord)
    <3> SUFFICES ASSUME NEW i \in DOMAIN objs'
                 PROVE  /\ objs'[i].owner = 0 /\ objs'[i].coord \in Half
                        /\ objs'[i].type # "TERRAIN" /\ Covered(objs'[i].coord)
      OBVIOUS
    <3>1. CASE i \in old
      BY <3>1, <1>5, <1>9, <1>11
    <3>2. CASE i \in fresh
      BY <3>2, <1>9, <1>12
    <3> QED
      BY <3>1, <3>2, <1>7
  <2>3. \A i \in DOMAIN objs' : InWindow(objs[i].coord)'
    BY <2>2 DEF InWindow
  <2> QED
    BY <2>1, <2>2, <2>3, <1>2, <1>11 DEF UpperHalf
<1>15. BothHalves'
  BY <1>2 DEF BothHalves
<1> QED
  BY <1>10, <1>13, <1>14, <1>15

\* The last failed tries leave the board alone.
LEMMA EndExpansionsInv == GeneratorInv /\ EndExpansions => GeneratorInv'
<1> SUFFICES ASSUME GeneratorInv, EndExpansions PROVE GeneratorInv'
  OBVIOUS
<1>1. /\ stage = "expand" /\ stage' \in {"terrain", "failed"}
      /\ UNCHANGED <<ask, expansions, objs, objCnt, unvisited, copied>>
  BY DEF EndExpansions
<1>2. GeneratorTypeOK' /\ OneTileEach' /\ BothHalves'
  BY <1>1 DEF GeneratorInv, GeneratorTypeOK, OneTileEach, BothHalves
<1>3. UpperHalf'
  BY <1>1 DEF GeneratorInv, UpperHalf, BaseFirst, InWindow
<1> QED
  BY <1>2, <1>3 DEF GeneratorInv

\* A tile of a window is passed over.
LEMMA SkipTileInv == GeneratorInv /\ SkipTile => GeneratorInv'
<1> SUFFICES ASSUME GeneratorInv, SkipTile PROVE GeneratorInv'
  OBVIOUS
<1>1. /\ stage = "terrain" /\ unvisited' \subseteq unvisited
      /\ UNCHANGED <<ask, stage, expansions, objs, objCnt, copied>>
  BY DEF SkipTile, Visit
<1>2. GeneratorTypeOK' /\ OneTileEach' /\ BothHalves'
  BY <1>1 DEF GeneratorInv, GeneratorTypeOK, OneTileEach, BothHalves
<1>3. UpperHalf'
  BY <1>1 DEF GeneratorInv, UpperHalf, BaseFirst, InWindow
<1> QED
  BY <1>2, <1>3 DEF GeneratorInv

\* Terrain is laid on tiles that nothing else is on.
LEMMA LayTileInv == GeneratorInv /\ LayTile => GeneratorInv'
<1> SUFFICES ASSUME GeneratorInv, LayTile PROVE GeneratorInv'
  OBVIOUS
<1>1. PICK c \in unvisited :
        /\ stage = "terrain" /\ ~InWindow(c)
        /\ unvisited' = unvisited \ {c}
        /\ UNCHANGED <<ask, stage, expansions, copied>>
        /\ UNCHANGED <<objs, objCnt>> \/ Emplace(<<Laid("TERRAIN", c)>>)
  BY DEF LayTile, Visit
<1>2. c \in Half /\ c \in Tiles
  BY HalfRows DEF GeneratorInv, GeneratorTypeOK
<1>3. CASE UNCHANGED <<objs, objCnt>>
  <2>1. GeneratorTypeOK' /\ OneTileEach' /\ BothHalves'
    BY <1>1, <1>3 DEF GeneratorInv, GeneratorTypeOK, OneTileEach, BothHalves
  <2>2. UpperHalf'
    BY <1>1, <1>3 DEF GeneratorInv, UpperHalf, BaseFirst, InWindow
  <2> QED
    BY <2>1, <2>2 DEF GeneratorInv
<1>4. CASE Emplace(<<Laid("TERRAIN", c)>>)
  <2>1. /\ Laid("TERRAIN", c) \in Object /\ Laid("TERRAIN", c).type = "TERRAIN"
        /\ Laid("TERRAIN", c).owner = 0 /\ Laid("TERRAIN", c).coord = c
    BY <1>2 DEF Laid, Object, Owners
  <2> DEFINE o == Laid("TERRAIN", c)
             old == FirstId .. objCnt - 1
  <2> HIDE DEF o
  <2>2. <<o>> \in Seq(Object) /\ Len(<<o>>) = 1 /\ <<o>>[1] = o
    BY <2>1 DEF o
  <2>3. Emplace(<<o>>)
    BY <1>4 DEF o
  <2>4. /\ FirstId \in Nat /\ objCnt \in Nat /\ FirstId <= objCnt /\ DOMAIN objs = old
        /\ GeneratorTypeOK
    BY GeneratorAssumption DEF GeneratorAssumption, GeneratorInv, GeneratorTypeOK
  <2>5. /\ objCnt' = objCnt + 1
        /\ objs' \in [FirstId .. objCnt' - 1 -> Object]
        /\ \A i \in old : objs'[i] = objs[i]
        /\ objs'[objCnt] = o
    <3>1. /\ objCnt' = objCnt + Len(<<o>>)
          /\ objs' \in [FirstId .. objCnt' - 1 -> Object]
          /\ \A i \in old : objs'[i] = objs[i]
          /\ \A i \in objCnt .. objCnt' - 1 : objs'[i] = <<o>>[i - objCnt + 1]
      BY <2>2, <2>3, <2>4, EmplaceOK
    <3> QED
      BY <3>1, <2>2, <2>4
  <2>6. /\ DOMAIN objs' = FirstId .. objCnt' - 1
        /\ \A i \in DOMAIN objs' : i \in old \/ i = objCnt
        /\ objCnt \notin old /\ \A i \in old : i \in DOMAIN objs'
    BY <2>4, <2>5
  <2>7. GeneratorTypeOK'
    BY <1>1, <2>4, <2>5 DEF GeneratorTypeOK
  <2>8. /\ copied = {} /\ BaseFirst(old)
        /\ \A i \in old :
             /\ objs[i].owner = 0 /\ objs[i].coord \in Half
             /\ IF objs[i].type = "TERRAIN"
                THEN objs[i].coord \notin unvisited /\ ~InWindow(objs[i].coord)
                ELSE InWindow(objs[i].coord)
    BY <1>1, <2>4 DEF GeneratorInv, UpperHalf
  <2>9. o.type = "TERRAIN" /\ o.owner = 0 /\ o.coord = c
    BY <2>1 DEF o
  <2>10. \A i \in old : objs[i].coord # c
    BY <1>1, <1>2, <2>8
  <2>11. OneTileEach'
    <3> SUFFICES ASSUME NEW i \in DOMAIN objs', NEW j \in DOMAIN objs',
                        objs'[i].coord = objs'[j].coord
                 PROVE  i = j
      BY DEF OneTileEach
    <3>1. CASE i \in old /\ j \in old
      BY <3>1, <2>4, <2>5 DEF GeneratorInv, OneTileEach
    <3>2. CASE i \notin old \/ j \notin old
      BY <3>2, <2>5, <2>6, <2>9, <2>10
    <3> QED
      BY <3>1, <3>2
  <2>12. UpperHalf'
    <3>1. BaseFirst(DOMAIN objs)'
      <4>1. \A i \in DOMAIN objs' : objs'[i].type = "BASE" <=> i = FirstId /\ expansions # << >>
        <5>1. expansions # << >> => FirstId # objCnt
          BY <2>6, <2>8 DEF BaseFirst
        <5> QED
          BY <5>1, <2>5, <2>6, <2>8, <2>9 DEF BaseFirst
      <4>2. expansions # << >> => FirstId \in DOMAIN objs'
        BY <2>6, <2>8 DEF BaseFirst
      <4> QED
        BY <4>1, <4>2, <1>1 DEF BaseFirst
    <3>2. \A i \in DOMAIN objs' :
            /\ objs'[i].owner = 0 /\ objs'[i].coord \in Half
            /\ IF objs'[i].type = "TERRAIN"
               THEN objs'[i].coord \notin unvisited' /\ ~InWindow(objs'[i].coord)
               ELSE InWindow(objs'[i].coord)
      <4> SUFFICES ASSUME NEW i \in DOMAIN objs'
                   PROVE  /\ objs'[i].owner = 0 /\ objs'[i].coord \in Half
                          /\ IF objs'[i].type = "TERRAIN"
                             THEN objs'[i].coord \notin unvisited' /\ ~InWindow(objs'[i].coord)
                             ELSE InWindow(objs'[i].coord)
        OBVIOUS
      <4>1. CASE i \in old
        BY <4>1, <1>1, <2>5, <2>8
      <4>2. CASE i = objCnt
        BY <4>2, <1>1, <1>2, <2>5, <2>9
      <4> QED
        BY <4>1, <4>2, <2>6
    <3>3. \A t : InWindow(t) <=> InWindow(t)'
      BY <1>1 DEF InWindow
    <3> QED
      BY <3>1, <3>2, <3>3, <1>1, <2>8 DEF UpperHalf, InWindow
  <2>13. BothHalves'
    BY <1>1 DEF BothHalves
  <2> QED
    BY <2>7, <2>11, <2>12, <2>13 DEF GeneratorInv
<1> QED
  BY <1>1, <1>3, <1>4

\* A flag that is not there ends the reset, with the board as it is.
LEMMA ReadFailsInv == GeneratorInv /\ ReadFails => GeneratorInv'
<1> SUFFICES ASSUME GeneratorInv, ReadFails PROVE GeneratorInv'
  OBVIOUS
<1>1. /\ stage = "terrain" /\ stage' = "failed"
      /\ UNCHANGED <<ask, expansions, objs, objCnt, unvisited, copied>>
  BY DEF ReadFails
<1>2. GeneratorTypeOK' /\ OneTileEach' /\ BothHalves'
  BY <1>1 DEF GeneratorInv, GeneratorTypeOK, OneTileEach, BothHalves
<1>3. UpperHalf'
  BY <1>1 DEF GeneratorInv, UpperHalf, BaseFirst, InWindow
<1> QED
  BY <1>2, <1>3 DEF GeneratorInv

\* The sides are dealt out; nothing moves.
LEMMA SetOwnersInv == GeneratorInv /\ SetOwners => GeneratorInv'
<1> SUFFICES ASSUME GeneratorInv, SetOwners PROVE GeneratorInv'
  OBVIOUS
<1> DEFINE owned(i) == IF objs[i].type = "BASE" THEN -1 ELSE 0
<1>1. /\ stage = "terrain" /\ stage' = "mirror"
      /\ objs' = [i \in DOMAIN objs |-> [objs[i] EXCEPT !.owner = owned(i)]]
      /\ UNCHANGED <<ask, expansions, objCnt, unvisited, copied>>
  BY DEF SetOwners
<1>2. /\ FirstId \in Nat /\ objCnt \in Nat /\ FirstId <= objCnt
      /\ DOMAIN objs = FirstId .. objCnt - 1 /\ DOMAIN objs' = DOMAIN objs
      /\ \A i \in DOMAIN objs : objs[i] \in Object
  BY <1>1, GeneratorAssumption DEF GeneratorAssumption, GeneratorInv, GeneratorTypeOK
<1>3. \A i \in DOMAIN objs :
        /\ objs'[i] \in Object /\ objs'[i].type = objs[i].type
        /\ objs'[i].coord = objs[i].coord /\ objs'[i].owner = owned(i)
  BY <1>1, <1>2 DEF Object, Owners
<1>4. objs' \in [FirstId .. objCnt - 1 -> Object]
  BY <1>1, <1>2, <1>3
<1>5. GeneratorTypeOK'
  BY <1>1, <1>4 DEF GeneratorInv, GeneratorTypeOK
<1>6. OneTileEach'
  BY <1>2, <1>3 DEF GeneratorInv, OneTileEach
<1>7. UpperHalf'
  BY <1>1 DEF UpperHalf
<1>8. /\ copied = {} /\ BaseFirst(DOMAIN objs)
      /\ \A i \in DOMAIN objs : objs[i].coord \in Half
  BY <1>1 DEF GeneratorInv, UpperHalf
<1>9. Originals' = DOMAIN objs
  BY <1>1, <1>2, <1>8, FS_EmptySet DEF Originals
<1>10. BaseFirst(Originals)'
  BY <1>1, <1>3, <1>8, <1>9 DEF BaseFirst
<1>11. \A i \in Originals' :
         /\ objs'[i].coord \in Half
         /\ objs'[i].owner = IF objs'[i].type = "BASE" THEN -1 ELSE 0
  BY <1>3, <1>8, <1>9
<1>12. BothHalves'
  BY <1>1, <1>2, <1>8, <1>9, <1>10, <1>11 DEF BothHalves
<1> QED
  BY <1>5, <1>6, <1>7, <1>12 DEF GeneratorInv

\* An image is an object on a tile of the lower half, and two originals that have the
\* same image are on the same tile.
LEMMA ImageOK ==
  ASSUME GeneratorTypeOK, NEW o \in Object, o.coord \in Half
  PROVE  /\ Image(o) \in Object /\ Image(o).coord = Opposite(o.coord)
         /\ Image(o).type = o.type
         /\ Image(o).owner = IF o.owner = -1 THEN 1 ELSE o.owner
         /\ Image(o).coord \notin Half
         /\ \A p \in Object : p.coord \in Half /\ Image(o).coord = Image(p).coord
                             => o.coord = p.coord
<1>1. ASSUME NEW p \in Object, p.coord \in Half
      PROVE  /\ Image(p) \in Object /\ Image(p).coord = Opposite(p.coord)
             /\ Image(p).type = p.type
             /\ Image(p).owner = IF p.owner = -1 THEN 1 ELSE p.owner
  <2>1. Opposite(p.coord) \in Tiles
    BY <1>1, OppositeHalf
  <2> QED
    BY <2>1, <1>1 DEF Image, Object, Owners
<1>2. Opposite(o.coord) \notin Half
  BY OppositeHalf
<1>3. ASSUME NEW p \in Object, p.coord \in Half, Image(o).coord = Image(p).coord
      PROVE  o.coord = p.coord
  <2>1. Opposite(o.coord) = Opposite(p.coord)
    BY <1>1, <1>3
  <2> QED
    BY <2>1, <1>3, OppositeHalf
<1> QED
  BY <1>1, <1>2, <1>3

\* What is copied comes to stand on the lower half, where nothing else stands.
LEMMA MirrorInv == GeneratorInv /\ Mirror => GeneratorInv'
<1> SUFFICES ASSUME GeneratorInv, Mirror PROVE GeneratorInv'
  OBVIOUS
<1>1. PICK i \in Originals \ copied : Emplace(<<Image(objs[i])>>) /\ copied' = copied \cup {i}
  BY DEF Mirror
<1>2. /\ stage = "mirror"
      /\ UNCHANGED <<ask, stage, expansions, unvisited>>
  BY DEF Mirror
<1> DEFINE n == Cardinality(copied)
           old == FirstId .. objCnt - 1
           orig == FirstId .. objCnt - 1 - n
           o == objs[i]
<1>3. /\ GeneratorTypeOK /\ OneTileEach /\ IsFiniteSet(copied) /\ n \in Nat
      /\ FirstId \in Nat /\ objCnt \in Nat /\ FirstId <= objCnt
      /\ DOMAIN objs = old /\ \A k \in old : objs[k] \in Object
  BY FS_CardinalityType, GeneratorAssumption
     DEF GeneratorAssumption, GeneratorInv, GeneratorTypeOK
<1>4. /\ Originals = orig /\ orig \subseteq old /\ copied \subseteq orig
      /\ BaseFirst(orig)
      /\ \A k \in orig : /\ objs[k].coord \in Half
                        /\ objs[k].owner = IF objs[k].type = "BASE" THEN -1 ELSE 0
      /\ \A k \in copied : \E j \in old \ orig : objs[j] = Image(objs[k])
      /\ \A j \in old \ orig : \E k \in copied : objs[j] = Image(objs[k])
  <2>1. Originals = orig /\ orig \subseteq old
    BY <1>3 DEF Originals
  <2> QED
    BY <2>1, <1>2, <1>3 DEF GeneratorInv, BothHalves
<1>5. i \in orig /\ i \in old /\ i \notin copied /\ o \in Object /\ o.coord \in Half
  BY <1>1, <1>3, <1>4
<1>6. /\ IsFiniteSet(copied') /\ Cardinality(copied') = n + 1
  BY <1>1, <1>3, <1>5, FS_AddElement
<1> HIDE DEF n, o
<1>7. Image(o) \in Object /\ Image(o).coord \notin Half
  BY <1>3, <1>5, ImageOK
<1>8. /\ objCnt' = objCnt + 1 /\ objs' \in [FirstId .. objCnt' - 1 -> Object]
      /\ \A k \in old : objs'[k] = objs[k]
      /\ objs'[objCnt] = Image(o)
  <2>1. <<Image(o)>> \in Seq(Object) /\ Len(<<Image(o)>>) = 1 /\ <<Image(o)>>[1] = Image(o)
    BY <1>7
  <2>2. Emplace(<<Image(o)>>)
    BY <1>1 DEF o
  <2>3. /\ objCnt' = objCnt + Len(<<Image(o)>>)
        /\ objs' \in [FirstId .. objCnt' - 1 -> Object]
        /\ \A k \in old : objs'[k] = objs[k]
        /\ \A k \in objCnt .. objCnt' - 1 : objs'[k] = <<Image(o)>>[k - objCnt + 1]
    BY <2>1, <2>2, <1>3, EmplaceOK
  <2> QED
    BY <2>1, <2>3, <1>3
<1>9. /\ DOMAIN objs' = FirstId .. objCnt' - 1
      /\ \A k \in DOMAIN objs' : k \in old \/ k = objCnt
      /\ objCnt \notin old /\ objCnt \in DOMAIN objs' /\ \A k \in old : k \in DOMAIN objs'
  BY <1>3, <1>8
<1>10. Originals' = orig
  BY <1>3, <1>6, <1>8 DEF Originals
<1>11. GeneratorTypeOK'
  BY <1>2, <1>3, <1>6, <1>8 DEF GeneratorTypeOK
<1>12. OneTileEach'
  <2>1. ASSUME NEW k \in old
        PROVE  objs[k].coord # Image(o).coord
    <3>1. CASE k \in orig
      BY <3>1, <1>4, <1>7
    <3>2. CASE k \notin orig
      <4>1. PICK j \in copied : objs[k] = Image(objs[j])
        BY <3>2, <1>4
      <4>2. j \in orig /\ j \in old /\ objs[j] \in Object /\ objs[j].coord \in Half /\ j # i
        BY <1>3, <1>4, <1>5
      <4>3. objs[j].coord # o.coord
        BY <4>2, <1>3, <1>5 DEF OneTileEach, o
      <4> QED
        BY <4>1, <4>2, <4>3, <1>3, <1>5, ImageOK
    <3> QED
      BY <3>1, <3>2
  <2> SUFFICES ASSUME NEW k \in DOMAIN objs', NEW j \in DOMAIN objs',
                      objs'[k].coord = objs'[j].coord
               PROVE  k = j
    BY DEF OneTileEach
  <2>2. CASE k \in old /\ j \in old
    BY <2>2, <1>3, <1>8 DEF OneTileEach
  <2>3. CASE k \notin old \/ j \notin old
    BY <2>1, <2>3, <1>8, <1>9
  <2> QED
    BY <2>2, <2>3
<1>13. UpperHalf'
  BY <1>2 DEF UpperHalf
<1>14. BothHalves'
  <2>1. copied' \subseteq orig
    BY <1>1, <1>4, <1>5
  <2>2. BaseFirst(Originals)'
    BY <1>2, <1>4, <1>8, <1>10 DEF BaseFirst
  <2>3. \A k \in orig : /\ objs'[k].coord \in Half
                       /\ objs'[k].owner = IF objs'[k].type = "BASE" THEN -1 ELSE 0
    BY <1>4, <1>8
  <2>4. \A k \in copied' : \E j \in DOMAIN objs' \ orig : objs'[j] = Image(objs'[k])
    <3> SUFFICES ASSUME NEW k \in copied'
                 PROVE  \E j \in DOMAIN objs' \ orig : objs'[j] = Image(objs'[k])
      OBVIOUS
    <3>1. objs'[k] = objs[k]
      BY <2>1, <1>4, <1>8
    <3>2. CASE k \in copied
      <4>1. PICK j \in old \ orig : objs[j] = Image(objs[k])
        BY <3>2, <1>4
      <4> QED
        BY <4>1, <3>1, <1>8, <1>9
    <3>3. CASE k = i
      BY <3>1, <3>3, <1>4, <1>8, <1>9 DEF o
    <3> QED
      BY <3>2, <3>3, <1>1
  <2>5. \A j \in DOMAIN objs' \ orig : \E k \in copied' : objs'[j] = Image(objs'[k])
    <3> SUFFICES ASSUME NEW j \in DOMAIN objs' \ orig
                 PROVE  \E k \in copied' : objs'[j] = Image(objs'[k])
      OBVIOUS
    <3>1. CASE j \in old
      <4>1. PICK k \in copied : objs[j] = Image(objs[k])
        BY <3>1, <1>4
      <4>2. k \in copied' /\ objs'[k] = objs[k]
        BY <1>1, <1>4, <1>8
      <4> QED
        BY <4>1, <4>2, <3>1, <1>8
    <3>2. CASE j = objCnt
      <4>1. i \in copied' /\ objs'[i] = o
        BY <1>1, <1>5, <1>8 DEF o
      <4> QED
        BY <4>1, <3>2, <1>8
    <3> QED
      BY <3>1, <3>2, <1>9
  <2>6. (\A k \in copied : \E j \in DOMAIN objs \ Originals : objs[j] = Image(objs[k]))'
    BY <1>2, <1>10, <2>4 DEF Image, Opposite
  <2>7. (\A j \in DOMAIN objs \ Originals : \E k \in copied : objs[j] = Image(objs[k]))'
    BY <1>2, <1>10, <2>5 DEF Image, Opposite
  <2> QED
    BY <1>2, <1>10, <2>1, <2>2, <2>3, <2>6, <2>7 DEF BothHalves
<1> QED
  BY <1>11, <1>12, <1>13, <1>14 DEF GeneratorInv

\* A step that leaves the objects alone leaves both halves as they are.
LEMMA HalvesStay ==
  ASSUME UNCHANGED <<ask, expansions, objs, objCnt, copied>>
  PROVE  /\ Originals' = Originals
         /\ BaseFirst(Originals) => BaseFirst(Originals)'
         /\ (\A k \in copied : \E j \in DOMAIN objs \ Originals : objs[j] = Image(objs[k]))
            => (\A k \in copied : \E j \in DOMAIN objs \ Originals : objs[j] = Image(objs[k]))'
         /\ (\A j \in DOMAIN objs \ Originals : \E k \in copied : objs[j] = Image(objs[k]))
            => (\A j \in DOMAIN objs \ Originals : \E k \in copied : objs[j] = Image(objs[k]))'
<1>1. Originals' = Originals
  BY DEF Originals
<1>2. BaseFirst(Originals) => BaseFirst(Originals)'
  BY <1>1 DEF BaseFirst
<1>3. (\A k \in copied : \E j \in DOMAIN objs \ Originals : objs[j] = Image(objs[k]))
      => (\A k \in copied : \E j \in DOMAIN objs \ Originals : objs[j] = Image(objs[k]))'
  BY <1>1 DEF Image, Opposite
<1>4. (\A j \in DOMAIN objs \ Originals : \E k \in copied : objs[j] = Image(objs[k]))
      => (\A j \in DOMAIN objs \ Originals : \E k \in copied : objs[j] = Image(objs[k]))'
  BY <1>1 DEF Image, Opposite
<1> QED
  BY <1>1, <1>2, <1>3, <1>4

\* GameReset returns.
LEMMA FinishInv == GeneratorInv /\ Finish => GeneratorInv'
<1> SUFFICES ASSUME GeneratorInv, Finish PROVE GeneratorInv'
  OBVIOUS
<1>1. /\ stage = "mirror" /\ stage' = "done" /\ Originals \subseteq copied
      /\ UNCHANGED <<ask, expansions, objs, objCnt, unvisited, copied>>
  BY DEF Finish
<1>2. GeneratorTypeOK' /\ OneTileEach'
  BY <1>1 DEF GeneratorInv, GeneratorTypeOK, OneTileEach
<1>3. UpperHalf'
  BY <1>1 DEF UpperHalf
<1>4. BothHalves'
  BY <1>1, HalvesStay DEF GeneratorInv, BothHalves
<1> QED
  BY <1>2, <1>3, <1>4 DEF GeneratorInv

\* A step that changes nothing keeps the invariant.
LEMMA StutterInv == GeneratorInv /\ UNCHANGED vars => GeneratorInv'
<1> SUFFICES ASSUME GeneratorInv, UNCHANGED vars PROVE GeneratorInv'
  OBVIOUS
<1>1. UNCHANGED <<ask, stage, expansions, objs, objCnt, unvisited, copied>>
  BY DEF vars
<1>2. GeneratorTypeOK' /\ OneTileEach' /\ UpperHalf'
  BY <1>1 DEF GeneratorInv, GeneratorTypeOK, OneTileEach, UpperHalf, BaseFirst, InWindow
<1>3. BothHalves'
  BY <1>1, HalvesStay DEF GeneratorInv, BothHalves
<1> QED
  BY <1>2, <1>3 DEF GeneratorInv

\* The invariant of GameReset holds at every step of it.
THEOREM GeneratorInductive == Spec => []GeneratorInv
<1>1. GeneratorInv /\ [Next]_vars => GeneratorInv'
  BY PlaceExpansionInv, EndExpansionsInv, SkipTileInv, LayTileInv, ReadFailsInv,
     SetOwnersInv, MirrorInv, FinishInv, StutterInv DEF Next
<1> QED
  BY InitInv, <1>1, PTL DEF Spec

-----------------------------------------------------------------------------
(* The board that is left *)

\* When GameReset is done, each object that is not an original has one: an object of its
\* type on the opposite tile of the upper half.
LEMMA LowerHalf ==
  ASSUME GeneratorInv, stage = "done", NEW j \in DOMAIN objs \ Originals
  PROVE  \E k \in Originals :
           /\ objs[j].type = objs[k].type
           /\ objs[j].owner = IF objs[k].type = "BASE" THEN 1 ELSE 0
           /\ objs[j].coord = Opposite(objs[k].coord)
<1>1. /\ GeneratorTypeOK /\ IsFiniteSet(copied)
      /\ DOMAIN objs = FirstId .. objCnt - 1
      /\ \A k \in DOMAIN objs : objs[k] \in Object
      /\ FirstId \in Nat /\ objCnt \in Nat
  BY GeneratorAssumption DEF GeneratorAssumption, GeneratorInv, GeneratorTypeOK
<1>2. Originals \subseteq DOMAIN objs
  BY <1>1, FS_CardinalityType DEF Originals
<1>3. PICK k \in Originals : objs[j] = Image(objs[k])
  BY DEF GeneratorInv, BothHalves
<1>4. /\ objs[k] \in Object /\ objs[k].coord \in Half
      /\ objs[k].owner = IF objs[k].type = "BASE" THEN -1 ELSE 0
  BY <1>1, <1>2 DEF GeneratorInv, BothHalves
<1>5. /\ Image(objs[k]).coord = Opposite(objs[k].coord)
      /\ Image(objs[k]).type = objs[k].type
      /\ Image(objs[k]).owner = IF objs[k].owner = -1 THEN 1 ELSE objs[k].owner
  BY <1>4, <1>1, ImageOK
<1> QED
  BY <1>3, <1>4, <1>5

\* When GameReset is done, the invariant says what BoardLayout of the engine assumes.
LEMMA DoneIsLaidOut == GeneratorInv => LaidOut
<1> SUFFICES ASSUME GeneratorInv, stage = "done"
             PROVE  IF expansions # << >> THEN IsLayout(Board, Tiles)
                                          ELSE \A i \in DOMAIN objs : objs[i].owner = 0
  BY DEF LaidOut
<1> DEFINE old == FirstId .. objCnt - 1
           size == objCnt - FirstId
           orig == Originals
<1>1. /\ GeneratorTypeOK /\ OneTileEach /\ IsFiniteSet(copied)
      /\ FirstId \in Nat /\ objCnt \in Nat /\ FirstId <= objCnt /\ size \in Nat
      /\ DOMAIN objs = old /\ \A k \in old : objs[k] \in Object
  BY GeneratorAssumption DEF GeneratorAssumption, GeneratorInv, GeneratorTypeOK
<1>2. /\ copied = orig /\ BaseFirst(orig)
      /\ \A k \in orig : /\ objs[k].coord \in Half
                        /\ objs[k].owner = IF objs[k].type = "BASE" THEN -1 ELSE 0
      /\ \A k \in orig : \E j \in old \ orig : objs[j] = Image(objs[k])
      /\ \A j \in old \ orig : \E k \in orig : objs[j] = Image(objs[k])
  BY <1>1 DEF GeneratorInv, BothHalves
<1>3. orig \subseteq old
  BY <1>1, FS_CardinalityType DEF Originals
<1> HIDE DEF orig
<1>4. ASSUME NEW j \in old \ orig
      PROVE  \E k \in orig :
               /\ objs[j].type = objs[k].type
               /\ objs[j].owner = IF objs[k].type = "BASE" THEN 1 ELSE 0
               /\ objs[j].coord = Opposite(objs[k].coord)
  BY <1>1, LowerHalf DEF orig
<1>5. \A i \in old :
        /\ objs[i].owner = -1 <=> i \in orig /\ objs[i].type = "BASE"
        /\ objs[i].owner = 1 <=> i \notin orig /\ objs[i].type = "BASE"
        /\ objs[i].type = "BASE" <=> objs[i].owner \in Sides
  BY <1>2, <1>4 DEF Sides
<1>6. CASE expansions = << >>
  <2>1. \A k \in orig : objs[k].type # "BASE"
    BY <1>2, <1>6 DEF BaseFirst
  <2>2. \A i \in old : objs[i].owner = 0
    BY <1>2, <1>4, <2>1
  <2> QED
    BY <1>1, <1>6, <2>2
<1>7. CASE expansions # << >>
  <2>1. FirstId \in orig /\ \A k \in orig : objs[k].type = "BASE" <=> k = FirstId
    BY <1>2, <1>7 DEF BaseFirst
  <2>2. \A i \in old : objs[i].owner = -1 <=> i = FirstId
    BY <1>3, <1>5, <2>1
  <2>3. PICK b \in old \ orig : objs[b] = Image(objs[FirstId])
    BY <1>2, <2>1
  <2>4. objs[b].owner = 1 /\ objs[b].coord = Opposite(objs[FirstId].coord)
    BY <1>1, <1>2, <1>3, <2>1, <2>3, ImageOK
  <2>5. \A i \in old : objs[i].owner = 1 <=> i = b
    <3> SUFFICES ASSUME NEW i \in old, objs[i].owner = 1
                 PROVE  i = b
      BY <2>4
    <3>1. i \notin orig /\ objs[i].type = "BASE"
      BY <1>5
    <3>2. PICK k \in orig : /\ objs[i].type = objs[k].type
                            /\ objs[i].coord = Opposite(objs[k].coord)
      BY <3>1, <1>4
    <3>3. k = FirstId
      BY <3>1, <3>2, <2>1
    <3> QED
      BY <3>2, <3>3, <2>4, <1>1 DEF OneTileEach
  <2> DEFINE ids == 0 .. size - 1
  <2>6. /\ Board = [i \in ids |-> objs[FirstId + i]] /\ DOMAIN Board = ids
        /\ \A i \in ids : FirstId + i \in old
        /\ \A k \in old : k - FirstId \in ids /\ FirstId + (k - FirstId) = k
    BY <1>1 DEF Board
  <2>7. IsFiniteSet(ids) /\ Cardinality(ids) = size
    BY <1>1, FS_Interval
  <2>8. Board \in [ids -> [type : {"TERRAIN", "MINERAL", "BASE"}, coord : Tiles, owner : Owners]]
    BY <1>1, <2>6 DEF Object
  <2>9. \A i, j \in ids : Board[i].coord = Board[j].coord => i = j
    <3> SUFFICES ASSUME NEW i \in ids, NEW j \in ids, Board[i].coord = Board[j].coord
                 PROVE  i = j
      OBVIOUS
    <3>1. FirstId + i = FirstId + j
      BY <2>6, <1>1 DEF OneTileEach
    <3> QED
      BY <3>1, <1>1
  <2>10. \A i \in ids : Board[i].type = "BASE" <=> Board[i].owner \in Sides
    BY <1>5, <2>6
  <2>11. ASSUME NEW s \in Sides
         PROVE  \E i \in ids : \A j \in ids : Board[j].owner = s <=> i = j
    <3>1. PICK k \in old : \A i \in old : objs[i].owner = s <=> i = k
      BY <2>1, <2>2, <2>5, <1>3 DEF Sides
    <3>2. \A j \in ids : Board[j].owner = s <=> k - FirstId = j
      <4> SUFFICES ASSUME NEW j \in ids PROVE Board[j].owner = s <=> k - FirstId = j
        OBVIOUS
      <4>1. Board[j].owner = s <=> FirstId + j = k
        BY <2>6, <3>1
      <4> QED
        BY <4>1, <1>1
    <3> QED
      BY <3>2, <2>6
  <2>12. ids = 0 .. Cardinality(ids) - 1
    BY <2>7
  <2> HIDE DEF ids
  <2>13. IsLayout(Board, Tiles)
    BY <2>6, <2>7, <2>8, <2>9, <2>10, <2>11, <2>12 DEF IsLayout
  <2> QED
    BY <1>7, <2>13
<1> QED
  BY <1>6, <1>7

\* GameReset, if it returns and could place an expansion, leaves a board that meets
\* BoardLayout, for every even board size, every request that the server starter lets
\* pass, and every outcome of the rolls.
THEOREM ResetLaysOut == Spec => []LaidOut
  BY GeneratorInductive, DoneIsLaidOut, PTL

-----------------------------------------------------------------------------
(* Room about the bases: RoomOK is inductive, given GeneratorInv.            *)

\* A tile outside the window of an expansion is not next to it; nor is one in the window
\* of another.
LEMMA WindowsKeepOff ==
  ASSUME NEW t \in Half, NEW e \in Half
  PROVE  /\ ~Within(MINERAL_DISTANCE, t, e) => ~Adjacent(t, e)
         /\ \A c \in Half :
              Within(MINERAL_DISTANCE, t, c) /\ ~TooNear(c, e) => ~Adjacent(t, e)
<1>1. \A c \in Half : c[1] \in Int /\ c[2] \in Int
  BY HalfRows
<1>2. ~Within(MINERAL_DISTANCE, t, e) => ~Adjacent(t, e)
  BY <1>1 DEF Within, Adjacent, Distance, MINERAL_DISTANCE
<1>3. ASSUME NEW c \in Half, Within(MINERAL_DISTANCE, t, c), ~TooNear(c, e)
      PROVE  ~Adjacent(t, e)
  BY <1>1, <1>3 DEF TooNear, Within, Adjacent, Distance, MINERAL_DISTANCE
<1> QED
  BY <1>2, <1>3

\* Until the mirror, every object is an original.
LEMMA AllOriginal ==
  ASSUME GeneratorInv, stage \in {"expand", "terrain", "failed"}
  PROVE  Originals = FirstId .. objCnt - 1 /\ DOMAIN objs = Originals /\ copied = {}
<1>1. copied = {} /\ DOMAIN objs = FirstId .. objCnt - 1 /\ objCnt \in Nat
  BY DEF GeneratorInv, UpperHalf, GeneratorTypeOK
<1> QED
  BY <1>1, FS_EmptySet DEF Originals

\* Before the first expansion there is no object.
LEMMA NothingYet ==
  ASSUME GeneratorInv, stage = "expand", expansions = << >>
  PROVE  objCnt = FirstId
<1>1. DOMAIN objs = {}
  BY DEF GeneratorInv, UpperHalf, InWindow
<1>2. FirstId .. objCnt - 1 = {} /\ objCnt \in Nat /\ FirstId \in Nat /\ FirstId <= objCnt
  BY <1>1, GeneratorAssumption DEF GeneratorInv, GeneratorTypeOK, GeneratorAssumption
<1> QED
  BY <1>2

\* A step that leaves the expansions and the originals where they are leaves them room.
LEMMA RoomStays ==
  ASSUME RoomOK, expansions' = expansions, Originals' = Originals,
         expansions # << >> => FirstId \in Originals,
         \A i \in Originals : objs'[i].coord = objs[i].coord
  PROVE  RoomOK'
  BY DEF RoomOK, Inside

\* The first expansion is off the rims, and the windows keep later ones away from it.
LEMMA PlaceExpansionRoom == GeneratorInv /\ RoomOK /\ PlaceExpansion => RoomOK'
<1> SUFFICES ASSUME GeneratorInv, RoomOK, PlaceExpansion PROVE RoomOK'
  OBVIOUS
<1>1. PICK c \in Half, dir \in 0 .. 3 :
        /\ IsValidExpansion(c) /\ expansions' = Append(expansions, c)
        /\ Emplace(BaseOf(c) \o ClusterOf(c, dir))
  BY DEF PlaceExpansion
<1>2. stage = "expand" /\ stage' = "expand" /\ GeneratorInv'
  BY PlaceExpansionInv DEF PlaceExpansion
<1>3. PICK new : new = BaseOf(c) \o ClusterOf(c, dir)
  OBVIOUS
<1>4. GeneratorTypeOK /\ IsExpansion(new, c)
  BY <1>1, <1>3, NewExpansion DEF GeneratorInv
<1>5. /\ new \in Seq(Object) /\ Len(new) >= 1
      /\ \A n \in 1 .. Len(new) :
           /\ new[n].coord \in Half /\ Within(MINERAL_DISTANCE, new[n].coord, c)
           /\ new[n].type = "BASE" <=> n = 1 /\ expansions = << >>
           /\ IF new[n].type = "BASE" THEN new[n].coord = c ELSE ~Adjacent(new[n].coord, c)
  BY <1>4 DEF IsExpansion
<1> DEFINE old == FirstId .. objCnt - 1
           fresh == objCnt .. objCnt' - 1
           place(i) == i - objCnt + 1
<1>6. /\ objCnt' = objCnt + Len(new) /\ Len(new) \in Nat
      /\ \A i \in old : objs'[i] = objs[i]
      /\ \A i \in fresh : place(i) \in 1 .. Len(new) /\ objs'[i] = new[place(i)]
  <2>1. Emplace(new) /\ new \in Seq(Object) /\ Len(new) \in Nat
    BY <1>1, <1>3, <1>5
  <2> QED
    BY <2>1, <1>4, EmplaceOK
<1>7. FirstId \in Nat /\ objCnt \in Nat /\ FirstId <= objCnt
  BY <1>4, GeneratorAssumption DEF GeneratorAssumption, GeneratorTypeOK
<1>8. Originals' = FirstId .. objCnt' - 1 /\ Originals = old
  <2>1. copied' = {} /\ Cardinality(copied') = 0
    BY <1>2, FS_EmptySet DEF GeneratorInv, UpperHalf
  <2> QED
    BY <2>1, <1>2, <1>6, <1>7, AllOriginal DEF Originals
<1>9. \A i \in Originals' : i \in old \/ i \in fresh
  BY <1>6, <1>7, <1>8
<1>10. /\ Inside(c) /\ Inside(c)'
       /\ \A k \in DOMAIN expansions : expansions[k] \in Half /\ ~TooNear(c, expansions[k])
  BY <1>1, <1>4 DEF IsValidExpansion, Inside, GeneratorTypeOK
<1> HIDE DEF fresh
<1>11. CASE expansions = << >>
  <2>1. objCnt = FirstId /\ FirstId \in fresh /\ place(FirstId) = 1
    BY <1>2, <1>5, <1>6, <1>7, <1>11, NothingYet DEF fresh
  <2>2. expansions'[1] = c
    BY <1>1, <1>11
  <2>3. objs'[FirstId].coord = c
    BY <2>1, <1>5, <1>6, <1>11
  <2>4. ASSUME NEW i \in Originals', i # FirstId
        PROVE  ~Adjacent(objs'[i].coord, c)
    <3>1. i \in fresh /\ place(i) # 1
      BY <2>1, <2>4, <1>9, <1>7, <1>8
    <3> QED
      BY <3>1, <1>5, <1>6
  <2> QED
    BY <2>2, <2>3, <2>4, <1>10 DEF RoomOK, Inside
<1>12. CASE expansions # << >>
  <2> DEFINE e == expansions[1]
  <2>1. 1 \in DOMAIN expansions /\ expansions'[1] = e
    BY <1>1, <1>4, <1>12 DEF GeneratorTypeOK
  <2>2. e \in Half /\ ~TooNear(c, e)
    BY <2>1, <1>10
  <2>3. FirstId \in old
    BY <1>2, <1>8, <1>12, AllOriginal DEF GeneratorInv, UpperHalf, BaseFirst
  <2>4. /\ Inside(e) /\ objs[FirstId].coord = e
        /\ \A i \in old \ {FirstId} : ~Adjacent(objs[i].coord, e)
    BY <1>8, <1>12 DEF RoomOK
  <2>5. ASSUME NEW i \in fresh
        PROVE  ~Adjacent(objs'[i].coord, e)
    <3>1. objs'[i].coord \in Half /\ Within(MINERAL_DISTANCE, objs'[i].coord, c)
      BY <1>5, <1>6
    <3> QED
      BY <3>1, <2>2, WindowsKeepOff
  <2>6. objs'[FirstId].coord = e
    BY <2>3, <2>4, <1>6
  <2>7. \A i \in Originals' \ {FirstId} : ~Adjacent(objs'[i].coord, e)
    BY <2>4, <2>5, <1>6, <1>9
  <2> HIDE DEF e
  <2> QED
    BY <2>1, <2>4, <2>6, <2>7 DEF RoomOK, Inside
<1> QED
  BY <1>11, <1>12

\* Terrain stays outside of the windows.
LEMMA LayTileRoom == GeneratorInv /\ RoomOK /\ LayTile => RoomOK'
<1> SUFFICES ASSUME GeneratorInv, RoomOK, LayTile PROVE RoomOK'
  OBVIOUS
<1>1. PICK c \in unvisited :
        /\ stage = "terrain" /\ stage' = "terrain" /\ ~InWindow(c)
        /\ expansions' = expansions /\ copied' = copied
        /\ UNCHANGED <<objs, objCnt>> \/ Emplace(<<Laid("TERRAIN", c)>>)
  BY DEF LayTile, Visit
<1>2. /\ GeneratorTypeOK /\ c \in Half /\ c \in Tiles
      /\ FirstId \in Nat /\ objCnt \in Nat /\ FirstId <= objCnt
      /\ expansions # << >> => 1 \in DOMAIN expansions /\ expansions[1] \in Half
  BY HalfRows, GeneratorAssumption
     DEF GeneratorAssumption, GeneratorInv, GeneratorTypeOK
<1>3. /\ Originals = FirstId .. objCnt - 1
      /\ expansions # << >> => FirstId \in Originals
  BY <1>1, AllOriginal DEF GeneratorInv, UpperHalf, BaseFirst
<1>4. CASE UNCHANGED <<objs, objCnt>>
  <2>1. Originals' = Originals
    BY <1>1, <1>4 DEF Originals
  <2> QED
    BY <2>1, <1>1, <1>3, <1>4, RoomStays
<1>5. CASE Emplace(<<Laid("TERRAIN", c)>>)
  <2> DEFINE o == Laid("TERRAIN", c)
  <2>1. o \in Object /\ o.coord = c
    BY <1>2 DEF Laid, Object, Owners
  <2> HIDE DEF o
  <2>2. <<o>> \in Seq(Object) /\ Len(<<o>>) = 1 /\ <<o>>[1] = o
    BY <2>1
  <2>3. /\ objCnt' = objCnt + Len(<<o>>)
        /\ \A i \in FirstId .. objCnt - 1 : objs'[i] = objs[i]
        /\ \A i \in objCnt .. objCnt' - 1 : objs'[i] = <<o>>[i - objCnt + 1]
    BY <2>2, <1>2, <1>5, EmplaceOK DEF o
  <2>4. objCnt' = objCnt + 1 /\ objs'[objCnt] = o
    BY <2>2, <2>3, <1>2
  <2>5. Originals' = FirstId .. objCnt
    <3>1. copied = {} /\ Cardinality(copied') = 0
      BY <1>1, AllOriginal, FS_EmptySet
    <3> QED
      BY <3>1, <2>4, <1>2 DEF Originals
  <2>6. CASE expansions # << >>
    <3> DEFINE e == expansions[1]
    <3>1. ~Within(MINERAL_DISTANCE, c, e)
      BY <2>6, <1>1, <1>2 DEF InWindow
    <3>2. ~Adjacent(c, e)
      BY <3>1, <2>6, <1>2, WindowsKeepOff
    <3>3. /\ Inside(e) /\ objs[FirstId].coord = e
          /\ \A i \in Originals \ {FirstId} : ~Adjacent(objs[i].coord, e)
      BY <2>6 DEF RoomOK
    <3>4. objs'[FirstId].coord = e
      BY <3>3, <2>3, <2>6, <1>3
    <3>5. ASSUME NEW i \in Originals', i # FirstId
          PROVE  ~Adjacent(objs'[i].coord, e)
      <4>1. i = objCnt \/ i \in FirstId .. objCnt - 1
        BY <3>5, <2>5, <1>2
      <4> QED
        BY <4>1, <3>2, <3>3, <3>5, <2>1, <2>3, <2>4, <1>3
    <3> HIDE DEF e
    <3> QED
      BY <3>3, <3>4, <3>5, <1>1 DEF RoomOK, Inside, e
  <2>7. CASE expansions = << >>
    BY <2>7, <1>1 DEF RoomOK
  <2> QED
    BY <2>6, <2>7
<1> QED
  BY <1>1, <1>4, <1>5

\* The images of what the upper half has are far from its base.
LEMMA MirrorRoom == GeneratorInv /\ RoomOK /\ Mirror => RoomOK'
<1> SUFFICES ASSUME GeneratorInv, RoomOK, Mirror PROVE RoomOK'
  OBVIOUS
<1>1. PICK i \in Originals \ copied : Emplace(<<Image(objs[i])>>) /\ copied' = copied \cup {i}
  BY DEF Mirror
<1>2. stage = "mirror" /\ expansions' = expansions
  BY DEF Mirror
<1>3. /\ GeneratorTypeOK /\ IsFiniteSet(copied) /\ Cardinality(copied) \in Nat
      /\ FirstId \in Nat /\ objCnt \in Nat
      /\ DOMAIN objs = FirstId .. objCnt - 1 /\ \A k \in DOMAIN objs : objs[k] \in Object
  BY FS_CardinalityType, GeneratorAssumption
     DEF GeneratorAssumption, GeneratorInv, GeneratorTypeOK
<1>4. Originals \subseteq DOMAIN objs
  BY <1>3 DEF Originals
<1>5. Image(objs[i]) \in Object
  <2>1. objs[i].coord \in Half /\ objs[i] \in Object
    BY <1>1, <1>2, <1>3, <1>4 DEF GeneratorInv, BothHalves
  <2> QED
    BY <2>1, <1>3, ImageOK
<1>6. objCnt' = objCnt + 1 /\ \A k \in FirstId .. objCnt - 1 : objs'[k] = objs[k]
  <2>1. <<Image(objs[i])>> \in Seq(Object) /\ Len(<<Image(objs[i])>>) = 1
    BY <1>5
  <2> QED
    BY <2>1, <1>1, <1>3, EmplaceOK
<1>7. Originals' = Originals
  <2>1. Cardinality(copied') = Cardinality(copied) + 1
    BY <1>1, <1>3, FS_AddElement
  <2> QED
    BY <2>1, <1>3, <1>6 DEF Originals
<1>8. expansions # << >> => FirstId \in Originals
  BY <1>2 DEF GeneratorInv, BothHalves, BaseFirst
<1> QED
  BY <1>2, <1>3, <1>4, <1>6, <1>7, <1>8, RoomStays

\* The base, and nothing near it, stays where it is through all of GameReset.
LEMMA RoomInv == Spec => []RoomOK
<1>1. Init => RoomOK
  BY DEF Init, RoomOK
<1>2. GeneratorInv /\ RoomOK /\ [Next]_vars => RoomOK'
  <2> SUFFICES ASSUME GeneratorInv, RoomOK, [Next]_vars PROVE RoomOK'
    OBVIOUS
  <2>1. expansions # << >> => FirstId \in Originals
    <3>1. CASE stage \in {"mirror", "done"}
      BY <3>1 DEF GeneratorInv, BothHalves, BaseFirst
    <3>2. CASE stage \in {"expand", "terrain", "failed"}
      BY <3>2, AllOriginal DEF GeneratorInv, UpperHalf, BaseFirst
    <3> QED
      BY <3>1, <3>2 DEF GeneratorInv, GeneratorTypeOK
  <2>2. CASE UNCHANGED <<expansions, objs, objCnt, copied>>
    <3>1. Originals' = Originals
      BY <2>2 DEF Originals
    <3> QED
      BY <3>1, <2>1, <2>2, RoomStays
  <2>3. CASE SetOwners
    <3>1. Originals' = Originals /\ DOMAIN objs = Originals
      BY <2>3, AllOriginal DEF SetOwners, Originals
    <3>2. \A i \in Originals : objs'[i].coord = objs[i].coord
      <4>1. \A i \in DOMAIN objs : objs[i] \in Object
        BY DEF GeneratorInv, GeneratorTypeOK
      <4>2. objs' = [i \in DOMAIN objs |->
                       [objs[i] EXCEPT !.owner = IF objs[i].type = "BASE" THEN -1 ELSE 0]]
        BY <2>3 DEF SetOwners
      <4> QED
        BY <4>1, <4>2, <3>1 DEF Object
    <3> QED
      BY <3>1, <3>2, <2>1, <2>3, RoomStays DEF SetOwners
  <2> QED
    BY <2>2, <2>3, PlaceExpansionRoom, LayTileRoom, MirrorRoom
       DEF Next, vars, EndExpansions, SkipTile, Visit, ReadFails, Finish
<1> QED
  BY <1>1, <1>2, GeneratorInductive, PTL DEF Spec

\* The mirror keeps distances within a half; and a base is too far from the middle to be
\* next to a tile of the other half.
LEMMA OppositeApart ==
  ASSUME GeneratorTypeOK, NEW e \in Half, NEW t \in Half
  PROVE  /\ Adjacent(Opposite(e), Opposite(t)) => Adjacent(t, e)
         /\ Inside(e) => ~Adjacent(e, Opposite(t)) /\ ~Adjacent(Opposite(e), t)
<1>1. /\ W \in Nat /\ W \div 2 \in Nat /\ W = 2 * (W \div 2)
      /\ \A d \in Half : d[1] \in 0 .. (W \div 2) - 1 /\ d[2] \in 0 .. W - 1
  BY HalfRows
<1>2. \A d : /\ Opposite(d)[1] = W - 1 - d[1]
             /\ Opposite(d)[2] = IF ask.rotational THEN W - 1 - d[2] ELSE d[2]
  BY DEF Opposite
<1>3. Adjacent(Opposite(e), Opposite(t)) => Adjacent(t, e)
  <2>1. CASE ask.rotational
    BY <2>1, <1>1, <1>2 DEF Adjacent, Distance
  <2>2. CASE ~ask.rotational
    BY <2>2, <1>1, <1>2 DEF Adjacent, Distance
  <2> QED
    BY <2>1, <2>2
<1>4. ASSUME Inside(e)
      PROVE  ~Adjacent(e, Opposite(t)) /\ ~Adjacent(Opposite(e), t)
  <2>1. e[1] < (W \div 2) - 2
    BY <1>4 DEF Inside, MINERAL_DISTANCE
  <2>2. /\ Opposite(e)[2] \in Int /\ Opposite(t)[2] \in Int
        /\ e[2] \in Int /\ t[2] \in Int
    BY <1>1, <1>2
  <2>3. /\ Distance(e[1], Opposite(t)[1]) \in Nat \ {0, 1}
        /\ Distance(Opposite(e)[1], t[1]) \in Nat \ {0, 1}
    BY <2>1, <1>1, <1>2 DEF Distance
  <2>4. Distance(e[2], Opposite(t)[2]) \in Nat /\ Distance(Opposite(e)[2], t[2]) \in Nat
    BY <2>2 DEF Distance
  <2> QED
    BY <2>3, <2>4 DEF Adjacent
<1> QED
  BY <1>3, <1>4

\* When GameReset is done, nothing is next to either base.
LEMMA RoomLeft == GeneratorInv /\ RoomOK => BasesHaveRoom
<1> SUFFICES ASSUME GeneratorInv, RoomOK, stage = "done",
                    NEW i \in DOMAIN objs, NEW j \in DOMAIN objs,
                    objs[i].type = "BASE", i # j
             PROVE  ~Adjacent(objs[i].coord, objs[j].coord)
  BY DEF BasesHaveRoom
<1> DEFINE e == expansions[1]
<1>1. /\ GeneratorTypeOK /\ BaseFirst(Originals)
      /\ \A k \in Originals : objs[k].coord \in Half
  BY DEF GeneratorInv, BothHalves
<1>2. \A m \in DOMAIN objs \ Originals : \E k \in Originals :
        objs[m].type = objs[k].type /\ objs[m].coord = Opposite(objs[k].coord)
  BY LowerHalf
<1>3. expansions # << >> /\ FirstId \in Originals
  BY <1>1, <1>2 DEF BaseFirst
<1>4. /\ Inside(e) /\ objs[FirstId].coord = e /\ e \in Half
      /\ \A k \in Originals \ {FirstId} : ~Adjacent(objs[k].coord, e)
  BY <1>1, <1>3 DEF RoomOK
<1>5. CASE i \in Originals
  <2>1. objs[i].coord = e /\ i = FirstId
    BY <1>1, <1>4, <1>5 DEF BaseFirst
  <2>2. CASE j \in Originals
    <3>1. ~Adjacent(objs[j].coord, e) /\ objs[j].coord \in Half
      BY <2>1, <2>2, <1>1, <1>4
    <3>2. \A c, d \in Half : Adjacent(c, d) => Adjacent(d, c)
      BY HalfRows DEF Adjacent, Distance
    <3>3. ~Adjacent(e, objs[j].coord)
      BY <3>1, <3>2, <1>4
    <3> QED
      BY <2>1, <3>3
  <2>3. CASE j \notin Originals
    <3>1. PICK k \in Originals : objs[j].coord = Opposite(objs[k].coord)
      BY <2>3, <1>2
    <3> QED
      BY <2>1, <3>1, <1>1, <1>4, OppositeApart
  <2> QED
    BY <2>2, <2>3
<1>6. CASE i \notin Originals
  <2>1. objs[i].coord = Opposite(e)
    <3>1. PICK k \in Originals :
            objs[i].type = objs[k].type /\ objs[i].coord = Opposite(objs[k].coord)
      BY <1>2, <1>6
    <3>2. k = FirstId
      BY <3>1, <1>1 DEF BaseFirst
    <3> QED
      BY <3>1, <3>2, <1>4
  <2>2. CASE j \in Originals
    BY <2>1, <2>2, <1>1, <1>4, OppositeApart
  <2>3. CASE j \notin Originals
    <3>1. PICK k \in Originals : objs[j].coord = Opposite(objs[k].coord)
      BY <2>3, <1>2
    <3>2. k # FirstId
      BY <2>1, <3>1, <1>4 DEF GeneratorInv, OneTileEach
    <3>3. ~Adjacent(objs[k].coord, e) /\ objs[k].coord \in Half
      BY <3>2, <1>1, <1>4
    <3> QED
      BY <2>1, <3>1, <3>3, <1>1, <1>4, OppositeApart
  <2> QED
    BY <2>2, <2>3
<1> QED
  BY <1>5, <1>6

\* The tiles next to a base are free when GameReset returns, on every board and for
\* every outcome of the rolls: production can start.
THEOREM ResetLeavesRoom == Spec => []BasesHaveRoom
  BY GeneratorInductive, RoomInv, RoomLeft, PTL

-----------------------------------------------------------------------------
(* The terrain: tiles and flags are counted.                                 *)

\* How many numbers an interval has.
LEMMA IntervalSize ==
  \A a, b \in Int : /\ IsFiniteSet(a .. b)
                    /\ Cardinality(a .. b) = IF a > b THEN 0 ELSE b - a + 1
  BY FS_Interval

\* The upper half has half the tiles of the board.
LEMMA HalfSize == IsFiniteSet(Half) /\ Cardinality(Half) = (W * W) \div 2
<1> DEFINE H == W \div 2
           rows == 0 .. H - 1
           columns == 0 .. W - 1
<1>1. W \in Nat /\ H \in Nat /\ W = 2 * H
  BY HalfRows
<1>2. /\ IsFiniteSet(rows) /\ Cardinality(rows) = H
      /\ IsFiniteSet(columns) /\ Cardinality(columns) = W
  <2>1. \A n \in Nat : IsFiniteSet(0 .. n - 1) /\ Cardinality(0 .. n - 1) = n
    BY IntervalSize
  <2> QED
    BY <2>1, <1>1
<1>3. Half = rows \X columns
  BY DEF Half
<1> HIDE DEF rows, columns, H
<1>4. IsFiniteSet(Half) /\ Cardinality(Half) = H * W
  BY <1>2, <1>3, FS_Product
<1>5. (W * W) \div 2 = H * W
  <2>1. H * W \in Nat /\ W * W = 2 * (H * W)
    BY <1>1
  <2>2. \A x \in Nat : (2 * x) \div 2 = x
    OBVIOUS
  <2> QED
    BY <2>1, <2>2
<1> QED
  BY <1>4, <1>5

\* The window of an expansion is a square of Span by Span tiles.
LEMMA WindowSize ==
  ASSUME NEW c \in Half, Inside(c)
  PROVE  Cardinality({t \in Half : Within(MINERAL_DISTANCE, t, c)}) = Span * Span
<1> DEFINE H == W \div 2
           rows == c[1] - 2 .. c[1] + 2
           columns == c[2] - 2 .. c[2] + 2
           window == {t \in Half : Within(MINERAL_DISTANCE, t, c)}
<1>1. /\ W \in Nat /\ H \in Nat /\ c[1] \in Nat /\ c[2] \in Nat
      /\ \A t \in Half : t[1] \in Nat /\ t[2] \in Nat /\ t = <<t[1], t[2]>>
  BY HalfRows
<1>2. 2 <= c[2] /\ c[2] < W - 2 /\ 2 <= c[1] /\ c[1] < H - 2
  BY DEF Inside, MINERAL_DISTANCE
<1>3. /\ IsFiniteSet(rows) /\ Cardinality(rows) = 5
      /\ IsFiniteSet(columns) /\ Cardinality(columns) = 5
  <2>1. \A n \in Nat : /\ IsFiniteSet(n - 2 .. n + 2)
                       /\ Cardinality(n - 2 .. n + 2) = 5
    BY IntervalSize
  <2> QED
    BY <2>1, <1>1
<1>4. \A x, y \in Int : Distance(x, y) <= 2 <=> y - 2 <= x /\ x <= y + 2
  BY DEF Distance
<1>5. ASSUME NEW t \in Half
      PROVE  t \in window <=> t[1] \in rows /\ t[2] \in columns
  BY <1>1, <1>4 DEF Within, MINERAL_DISTANCE
<1>6. rows \subseteq 0 .. H - 1 /\ columns \subseteq 0 .. W - 1
  BY <1>1, <1>2
<1>7. rows \X columns \subseteq Half
  BY <1>6 DEF Half
<1>8. window \subseteq Half
  OBVIOUS
<1> HIDE DEF rows, columns, window
<1>9. window = rows \X columns
  <2>1. ASSUME NEW t \in window PROVE t \in rows \X columns
    BY <1>1, <1>5, <1>8
  <2>2. ASSUME NEW t \in rows \X columns PROVE t \in window
    <3>1. t \in Half /\ t[1] \in rows /\ t[2] \in columns
      BY <1>7
    <3> QED
      BY <3>1, <1>5
  <2> QED
    BY <2>1, <2>2
<1>10. Cardinality(window) = 5 * 5
  BY <1>3, <1>9, FS_Product
<1> QED
  BY <1>10 DEF window, Span, MINERAL_DISTANCE

\* Terrain is asked for in percent: it has room on the tiles that remain.
LEMMA Percentage ==
  ASSUME NEW r \in Nat, NEW p \in 0 .. 100
  PROVE  (r * p) \div 100 \in 0 .. r
<1>1. r * p \in Nat /\ r * (100 - p) \in Nat
  OBVIOUS
<1>2. r * p + r * (100 - p) = 100 * r
  OBVIOUS
<1>3. \A x, y \in Nat : x + y = 100 * r => x \div 100 \in 0 .. r
  OBVIOUS
<1> QED
  BY <1>1, <1>2, <1>3

\* The numbers that the terrain loop works with.
LEMMA FlagTypes ==
  ASSUME GeneratorTypeOK
  PROVE  /\ Remaining \in Int /\ ask.expansions \in 1 .. 5 /\ Len(expansions) \in Nat
         /\ Remaining = (W * W) \div 2 - 25 * ask.expansions /\ (W * W) \div 2 \in Nat
         /\ TerrainCnt \in Int
         /\ Remaining >= 0 => TerrainCnt \in 0 .. Remaining
         /\ IsFiniteSet(Ahead) /\ Cardinality(Ahead) \in Nat
<1>1. ask.expansions \in 1 .. 5 /\ ask.percent \in 0 .. 100
  <2>1. ask \in StarterRequest
    BY GeneratorAssumption DEF GeneratorAssumption, GeneratorTypeOK
  <2> QED
    BY <2>1 DEF StarterRequest
<1>2. (W * W) \div 2 \in Nat
  BY HalfSize, FS_CardinalityType
<1>3. Remaining = (W * W) \div 2 - 25 * ask.expansions
  BY DEF Remaining, Span, MINERAL_DISTANCE
<1>4. Remaining \in Int
  BY <1>1, <1>2, <1>3
<1>5. TerrainCnt = (Remaining * ask.percent) \div 100
  BY DEF TerrainCnt
<1> HIDE DEF Remaining
<1>6. TerrainCnt \in Int /\ (Remaining >= 0 => TerrainCnt \in 0 .. Remaining)
  <2>1. Remaining * ask.percent \in Int
    BY <1>1, <1>4
  <2>2. \A x \in Int : x \div 100 \in Int
    OBVIOUS
  <2>3. Remaining >= 0 => Remaining \in Nat
    BY <1>4
  <2> QED
    BY <2>1, <2>2, <2>3, <1>1, <1>5, Percentage
<1>7. Len(expansions) \in Nat
  BY DEF GeneratorTypeOK
<1>8. Ahead \in SUBSET Half
  BY DEF Ahead, GeneratorTypeOK
<1>9. IsFiniteSet(Ahead) /\ Cardinality(Ahead) \in Nat
  BY <1>8, HalfSize, FS_Subset, FS_CardinalityType
<1> QED
  BY <1>1, <1>2, <1>3, <1>4, <1>6, <1>7, <1>9

\* Before the first expansion nothing is laid and all of the half is ahead.
LEMMA InitFlags == Init => FlagsOK /\ TerrainDue /\ TerrainCounted
<1> SUFFICES ASSUME Init PROVE FlagsOK /\ TerrainDue /\ TerrainCounted
  OBVIOUS
<1>1. GeneratorTypeOK /\ ask.expansions \in 1 .. 5 /\ Len(expansions) = 0
  BY InitInv, FlagTypes DEF GeneratorInv, Init
<1>2. Ahead = Half
  BY DEF Init, Ahead, InWindow
<1>3. FlagsOK
  <2>1. Span * Span * 0 = 0
    BY DEF Span, MINERAL_DISTANCE
  <2>2. 0 + Cardinality(Ahead) + 0 = (W * W) \div 2
    BY <1>1, <1>2, HalfSize, FlagTypes
  <2> QED
    BY <1>1, <2>1, <2>2 DEF Init, FlagsOK
<1>4. TerrainDue
  BY DEF Init, TerrainDue
<1>5. TerrainCounted
  <2>1. TerrainAt(Originals) = {} /\ TerrainAt(DOMAIN objs) = {} /\ TerrainAt(copied) = {}
    <3>1. GeneratorInv /\ stage = "expand" /\ DOMAIN objs = {}
      BY InitInv DEF Init
    <3> QED
      BY <3>1, AllOriginal DEF TerrainAt
  <2> QED
    BY <2>1, FS_EmptySet DEF Init, TerrainCounted
<1> QED
  BY <1>3, <1>4, <1>5

\* A new expansion takes a whole window from the tiles ahead, and lays no terrain.
LEMMA PlaceExpansionFlags ==
  ASSUME GeneratorInv, FlagsOK, TerrainDue, TerrainCounted, PlaceExpansion
  PROVE  FlagsOK' /\ TerrainDue' /\ TerrainCounted'
<1>1. PICK c \in Half :
        IsValidExpansion(c) /\ expansions' = Append(expansions, c)
  BY DEF PlaceExpansion
<1>2. /\ stage = "expand" /\ stage' = "expand" /\ Len(expansions) < ask.expansions
      /\ UNCHANGED <<ask, unvisited, validIdx, laid, copied>>
      /\ GeneratorTypeOK /\ GeneratorInv'
  BY PlaceExpansionInv DEF PlaceExpansion, GeneratorInv
<1>3. unvisited = Half /\ validIdx = 0 /\ laid = 0
  BY <1>2 DEF FlagsOK
<1>4. /\ Len(expansions) \in Nat /\ Len(expansions') = Len(expansions) + 1
      /\ expansions'[Len(expansions) + 1] = c
      /\ DOMAIN expansions' = DOMAIN expansions \cup {Len(expansions) + 1}
      /\ \A k \in DOMAIN expansions : expansions'[k] = expansions[k]
  <2>1. expansions \in Seq(Half) /\ Len(expansions) \in Nat
    BY <1>2 DEF GeneratorTypeOK
  <2> QED
    BY <2>1, <1>1
<1> DEFINE window == {t \in Half : Within(MINERAL_DISTANCE, t, c)}
<1>5. window \subseteq Ahead
  BY <1>1, <1>2, <1>3, WindowsApart DEF Ahead
<1>6. Ahead' = Ahead \ window
  <2>1. \A t : InWindow(t)' <=> InWindow(t) \/ Within(MINERAL_DISTANCE, t, c)
    BY <1>4 DEF InWindow
  <2> QED
    BY <2>1, <1>2, <1>3 DEF Ahead
<1>7. Cardinality(window) = 25
  <2>1. Inside(c)
    BY <1>1 DEF IsValidExpansion
  <2> QED
    BY <2>1, WindowSize DEF Span, MINERAL_DISTANCE
<1> HIDE DEF window
<1>8. Cardinality(Ahead') = Cardinality(Ahead) - 25
  <2>1. IsFiniteSet(Ahead) /\ Ahead \cap window = window
    BY <1>2, <1>5, FlagTypes
  <2>2. Cardinality(Ahead \ window) = Cardinality(Ahead) - Cardinality(Ahead \cap window)
    BY <2>1, FS_Difference
  <2> QED
    BY <2>1, <2>2, <1>6, <1>7
<1>9. FlagsOK'
  <2>1. 0 + Cardinality(Ahead) + 25 * Len(expansions) = (W * W) \div 2
    BY <1>3 DEF FlagsOK, Span, MINERAL_DISTANCE
  <2>2. Cardinality(Ahead) \in Nat
    BY <1>2, FlagTypes
  <2>3. 0 + Cardinality(Ahead') + 25 * Len(expansions') = (W * W) \div 2
    BY <2>1, <2>2, <1>4, <1>8
  <2>4. Len(expansions') <= ask.expansions
    BY <1>2, <1>4, FlagTypes
  <2> QED
    BY <2>3, <2>4, <1>2, <1>3 DEF FlagsOK, Span, MINERAL_DISTANCE
<1>10. TerrainDue'
  BY <1>2 DEF TerrainDue
<1>11. TerrainCounted'
  <2>1. /\ copied' = {} /\ DOMAIN objs' = FirstId .. objCnt' - 1 /\ objCnt' \in Nat
        /\ \A i \in DOMAIN objs' : objs'[i].type # "TERRAIN"
    BY <1>2 DEF GeneratorInv, UpperHalf, GeneratorTypeOK
  <2>2. Originals' = DOMAIN objs'
    BY <2>1, FS_EmptySet DEF Originals
  <2>3. TerrainAt(Originals)' = {} /\ TerrainAt(DOMAIN objs)' = {} /\ TerrainAt(copied)' = {}
    BY <2>1, <2>2 DEF TerrainAt
  <2>4. Cardinality({}) = 0 /\ laid' = 0
    BY <1>2, <1>3, FS_EmptySet
  <2> QED
    BY <2>3, <2>4 DEF TerrainCounted
<1> QED
  BY <1>9, <1>10, <1>11

\* A step that touches neither the objects nor what is mirrored of them leaves their
\* counts.
LEMMA CountsStay ==
  ASSUME TerrainCounted, UNCHANGED <<objs, objCnt, copied, laid>>
  PROVE  TerrainCounted'
<1>1. Originals' = Originals
  BY DEF Originals
<1> QED
  BY <1>1 DEF TerrainCounted, TerrainAt

\* The flags are set for as many tiles as the windows leave.
LEMMA EndExpansionsFlags ==
  ASSUME GeneratorInv, FlagsOK, TerrainDue, TerrainCounted, EndExpansions
  PROVE  FlagsOK' /\ TerrainDue' /\ TerrainCounted'
<1>1. /\ stage = "expand" /\ stage' = IF Remaining < 0 THEN "failed" ELSE "terrain"
      /\ UNCHANGED <<ask, expansions, objs, objCnt, unvisited, validIdx, laid, copied>>
      /\ GeneratorTypeOK
  BY DEF EndExpansions, GeneratorInv
<1>2. FlagsOK'
  BY <1>1 DEF FlagsOK, Ahead, InWindow
<1>3. TerrainDue'
  <2>1. Remaining' = Remaining /\ TerrainCnt' = TerrainCnt
    BY <1>1 DEF Remaining, TerrainCnt
  <2>2. laid = 0 /\ validIdx = 0
    BY <1>1 DEF FlagsOK
  <2>3. Remaining \in Int /\ (Remaining >= 0 => TerrainCnt \in 0 .. Remaining)
    BY <1>1, FlagTypes
  <2> HIDE DEF Remaining, TerrainCnt
  <2>4. CASE Remaining < 0
    BY <2>1, <2>4, <1>1 DEF TerrainDue
  <2>5. CASE Remaining >= 0
    <3>1. 0 <= TerrainCnt /\ TerrainCnt - 0 <= Remaining - 0 /\ ~(Remaining < 0)
      BY <2>3, <2>5
    <3> QED
      BY <3>1, <2>1, <2>2, <1>1 DEF TerrainDue
  <2> QED
    BY <2>3, <2>4, <2>5
<1>4. TerrainCounted'
  BY <1>1, CountsStay
<1> QED
  BY <1>2, <1>3, <1>4

\* A tile in a window is not one of those ahead.
LEMMA SkipTileFlags ==
  ASSUME GeneratorInv, FlagsOK, TerrainDue, TerrainCounted, SkipTile
  PROVE  FlagsOK' /\ TerrainDue' /\ TerrainCounted'
<1>1. PICK c \in unvisited : InWindow(c) /\ unvisited' = unvisited \ {c}
  BY DEF SkipTile, Visit
<1>2. /\ stage = "terrain" /\ stage' = "terrain"
      /\ UNCHANGED <<ask, expansions, objs, objCnt, validIdx, laid, copied>>
  BY DEF SkipTile, Visit
<1>3. Ahead' = Ahead
  <2>1. \A t : InWindow(t)' <=> InWindow(t)
    BY <1>2 DEF InWindow
  <2> QED
    BY <2>1, <1>1 DEF Ahead
<1>4. FlagsOK'
  BY <1>2, <1>3 DEF FlagsOK
<1>5. TerrainDue'
  BY <1>2 DEF TerrainDue, Remaining, TerrainCnt
<1>6. TerrainCounted'
  BY <1>2, CountsStay
<1> QED
  BY <1>4, <1>5, <1>6

\* While a tile is ahead and no expansion is missing, there is a flag for it.
LEMMA FlagForTile ==
  ASSUME GeneratorInv, FlagsOK, Len(expansions) = ask.expansions, NEW c \in Ahead
  PROVE  validIdx < Remaining
<1>1. GeneratorTypeOK
  BY DEF GeneratorInv
<1>2. /\ IsFiniteSet(Ahead) /\ Cardinality(Ahead) \in Nat /\ ask.expansions \in Nat
      /\ Remaining = (W * W) \div 2 - 25 * ask.expansions /\ Remaining \in Int
  BY <1>1, FlagTypes
<1>3. Cardinality(Ahead) # 0
  BY <1>2, FS_EmptySet
<1>4. /\ validIdx + Cardinality(Ahead) + 25 * ask.expansions = (W * W) \div 2
      /\ validIdx \in Nat
  BY DEF FlagsOK, Span, MINERAL_DISTANCE
<1> HIDE DEF Remaining, Ahead
<1> QED
  BY <1>2, <1>3, <1>4

\* A tile is laid where its flag is set, and every tile uses up one flag.
LEMMA LayTileFlags ==
  ASSUME GeneratorInv, FlagsOK, TerrainDue, TerrainCounted, LayTile
  PROVE  FlagsOK' /\ TerrainDue' /\ TerrainCounted'
<1>1. PICK c \in unvisited, flag \in BOOLEAN :
        /\ ~InWindow(c) /\ unvisited' = unvisited \ {c}
        /\ MayBe(flag)
        /\ IF flag THEN Emplace(<<Laid("TERRAIN", c)>>) /\ laid' = laid + 1
                   ELSE UNCHANGED <<objs, objCnt, laid>>
  BY DEF LayTile, Visit
<1>2. /\ stage = "terrain" /\ stage' = "terrain" /\ validIdx' = validIdx + 1
      /\ UNCHANGED <<ask, expansions, copied>> /\ GeneratorTypeOK
      /\ validIdx \in Nat /\ laid \in Nat
  BY DEF LayTile, Visit, GeneratorInv, FlagsOK
<1>3. /\ IsFiniteSet(Ahead) /\ Cardinality(Ahead) \in Nat /\ Len(expansions) \in Nat
      /\ Remaining \in Int /\ TerrainCnt \in Int
  BY <1>2, FlagTypes
<1>4. c \in Ahead
  BY <1>1 DEF Ahead
<1>5. Cardinality(Ahead') = Cardinality(Ahead) - 1
  <2>1. \A t : InWindow(t)' <=> InWindow(t)
    BY <1>2 DEF InWindow
  <2>2. Ahead' = Ahead \ {c}
    BY <2>1, <1>1 DEF Ahead
  <2> QED
    BY <2>2, <1>3, <1>4, FS_RemoveElement
<1>6. laid' \in Nat /\ laid' = IF flag THEN laid + 1 ELSE laid
  BY <1>1, <1>2
<1>7. FlagsOK'
  <2> DEFINE half == (W * W) \div 2
  <2>1. validIdx + Cardinality(Ahead) + 25 * Len(expansions) = half
    BY DEF FlagsOK, Span, MINERAL_DISTANCE
  <2>2. validIdx' + Cardinality(Ahead') + 25 * Len(expansions) = half
    BY <2>1, <1>2, <1>3, <1>5
  <2> QED
    BY <2>2, <1>2, <1>6 DEF FlagsOK, Span, MINERAL_DISTANCE
<1>8. TerrainDue'
  <2>1. Remaining' = Remaining /\ TerrainCnt' = TerrainCnt
    BY <1>2 DEF Remaining, TerrainCnt
  <2> HIDE DEF Remaining, TerrainCnt
  <2> SUFFICES ASSUME Len(expansions) = ask.expansions
               PROVE  /\ laid' <= TerrainCnt
                      /\ TerrainCnt - laid' <= Remaining - validIdx'
    BY <2>1, <1>2 DEF TerrainDue
  <2>2. validIdx < Remaining
    BY <1>4, FlagForTile
  <2>3. laid <= TerrainCnt /\ TerrainCnt - laid <= Remaining - validIdx
    BY <1>2 DEF TerrainDue
  <2>4. IF flag THEN laid < TerrainCnt ELSE TerrainCnt - laid < Remaining - validIdx
    BY <2>2, <1>1 DEF MayBe
  <2> QED
    BY <2>2, <2>3, <2>4, <1>2, <1>3, <1>6
<1>9. TerrainCounted'
  <2>1. CASE ~flag
    BY <2>1, <1>1, <1>2, CountsStay
  <2>2. CASE flag
    <3> DEFINE o == Laid("TERRAIN", c)
               old == FirstId .. objCnt - 1
    <3>1. o \in Object /\ o.type = "TERRAIN"
      BY <1>1, <1>2, HalfRows DEF Laid, Object, Owners, GeneratorTypeOK
    <3>2. Emplace(<<o>>)
      BY <1>1, <2>2
    <3> HIDE DEF o
    <3>3. <<o>> \in Seq(Object) /\ Len(<<o>>) = 1 /\ <<o>>[1] = o
      BY <3>1
    <3>4. /\ copied = {} /\ DOMAIN objs = old /\ Originals = old
          /\ FirstId \in Nat /\ objCnt \in Nat /\ FirstId <= objCnt
      BY <1>2, AllOriginal, GeneratorAssumption DEF GeneratorAssumption, GeneratorTypeOK
    <3>5. /\ objCnt' = objCnt + 1 /\ DOMAIN objs' = FirstId .. objCnt
          /\ \A i \in old : objs'[i] = objs[i]
          /\ objs'[objCnt] = o
      <4>1. /\ objCnt' = objCnt + Len(<<o>>)
            /\ objs' \in [FirstId .. objCnt' - 1 -> Object]
            /\ \A i \in old : objs'[i] = objs[i]
            /\ \A i \in objCnt .. objCnt' - 1 : objs'[i] = <<o>>[i - objCnt + 1]
        BY <1>2, <3>2, <3>3, EmplaceOK
      <4> QED
        BY <4>1, <3>3, <3>4
    <3>6. /\ FirstId .. objCnt = old \cup {objCnt} /\ objCnt \notin old
      BY <3>4
    <3>7. Originals' = DOMAIN objs'
      <4>1. Cardinality(copied') = 0
        BY <1>2, <3>4, FS_EmptySet
      <4> QED
        BY <4>1, <3>4, <3>5 DEF Originals
    <3> HIDE DEF old
    <3> DEFINE terrain == TerrainAt(DOMAIN objs)
    <3>8. TerrainAt(DOMAIN objs)' = terrain \cup {objCnt} /\ objCnt \notin terrain
      BY <3>1, <3>4, <3>5, <3>6 DEF TerrainAt
    <3>9. IsFiniteSet(terrain) /\ Cardinality(terrain) = laid
      <4>1. IsFiniteSet(old) /\ terrain \in SUBSET old
        BY <3>4, FS_Interval DEF TerrainAt, old
      <4> QED
        BY <4>1, <3>4, FS_Subset DEF TerrainCounted
    <3>10. Cardinality(TerrainAt(DOMAIN objs)') = laid'
      BY <2>2, <3>8, <3>9, <1>6, FS_AddElement
    <3>11. TerrainAt(copied)' = {} /\ Cardinality({}) = 0
      BY <1>2, <3>4, FS_EmptySet DEF TerrainAt
    <3>12. TerrainAt(Originals)' = TerrainAt(DOMAIN objs)'
      BY <3>7 DEF TerrainAt
    <3> QED
      BY <3>10, <3>11, <3>12, <1>6 DEF TerrainCounted
  <2> QED
    BY <2>1, <2>2
<1> QED
  BY <1>7, <1>8, <1>9

\* With all expansions in place there is a flag for every tile.
LEMMA ReadFailsFlags ==
  ASSUME GeneratorInv, FlagsOK, TerrainDue, TerrainCounted, ReadFails
  PROVE  FlagsOK' /\ TerrainDue' /\ TerrainCounted'
<1>1. PICK c \in unvisited : ~InWindow(c)
  BY DEF ReadFails
<1>2. /\ stage = "terrain" /\ stage' = "failed" /\ validIdx >= Remaining
      /\ UNCHANGED <<ask, expansions, objs, objCnt, unvisited, validIdx, laid, copied>>
      /\ Remaining \in Int /\ validIdx \in Nat
  BY FlagTypes DEF ReadFails, GeneratorInv, FlagsOK
<1>3. FlagsOK'
  BY <1>2 DEF FlagsOK, Ahead, InWindow
<1>4. TerrainDue'
  <2>1. Len(expansions) # ask.expansions
    <3> SUFFICES ASSUME Len(expansions) = ask.expansions PROVE FALSE
      OBVIOUS
    <3>1. validIdx < Remaining
      BY <1>1, FlagForTile DEF Ahead
    <3> HIDE DEF Remaining
    <3> QED
      BY <3>1, <1>2
  <2> QED
    BY <2>1, <1>2 DEF TerrainDue
<1>5. TerrainCounted'
  BY <1>2, CountsStay
<1> QED
  BY <1>3, <1>4, <1>5

\* The loop ends when every tile has had its flag.
LEMMA SetOwnersFlags ==
  ASSUME GeneratorInv, FlagsOK, TerrainDue, TerrainCounted, SetOwners
  PROVE  FlagsOK' /\ TerrainDue' /\ TerrainCounted'
<1>1. /\ stage = "terrain" /\ unvisited = {} /\ stage' = "mirror"
      /\ objs' = [i \in DOMAIN objs |->
                    [objs[i] EXCEPT !.owner = IF objs[i].type = "BASE" THEN -1 ELSE 0]]
      /\ UNCHANGED <<ask, expansions, objCnt, unvisited, validIdx, laid, copied>>
  BY DEF SetOwners
<1>2. FlagsOK'
  BY <1>1 DEF FlagsOK, Ahead, InWindow
<1>3. TerrainDue'
  BY <1>1 DEF TerrainDue, Remaining, TerrainCnt
<1>4. TerrainCounted'
  <2>1. /\ DOMAIN objs' = DOMAIN objs /\ Originals' = Originals
        /\ DOMAIN objs = Originals /\ copied = {}
    BY <1>1, AllOriginal DEF Originals
  <2>2. \A i \in DOMAIN objs : objs'[i].type = objs[i].type
    <3>1. \A i \in DOMAIN objs : objs[i] \in Object
      BY DEF GeneratorInv, GeneratorTypeOK
    <3> QED
      BY <3>1, <1>1 DEF Object
  <2>3. /\ TerrainAt(DOMAIN objs)' = TerrainAt(DOMAIN objs)
        /\ TerrainAt(Originals)' = TerrainAt(Originals)
        /\ TerrainAt(copied)' = TerrainAt(copied)
    BY <2>1, <2>2, <1>1 DEF TerrainAt
  <2> QED
    BY <2>3, <1>1 DEF TerrainCounted
<1> QED
  BY <1>2, <1>3, <1>4

\* An image is terrain if and only if its original is.
LEMMA MirrorFlags ==
  ASSUME GeneratorInv, FlagsOK, TerrainDue, TerrainCounted, Mirror
  PROVE  FlagsOK' /\ TerrainDue' /\ TerrainCounted'
<1>1. PICK i \in Originals \ copied : Emplace(<<Image(objs[i])>>) /\ copied' = copied \cup {i}
  BY DEF Mirror
<1>2. /\ stage = "mirror" /\ stage' = "mirror"
      /\ UNCHANGED <<ask, expansions, unvisited, validIdx, laid>>
  BY DEF Mirror
<1>3. /\ GeneratorTypeOK /\ IsFiniteSet(copied) /\ Cardinality(copied) \in Nat
      /\ FirstId \in Nat /\ objCnt \in Nat /\ FirstId <= objCnt
      /\ DOMAIN objs = FirstId .. objCnt - 1 /\ \A k \in DOMAIN objs : objs[k] \in Object
      /\ laid \in Nat
  BY FS_CardinalityType, GeneratorAssumption
     DEF GeneratorAssumption, GeneratorInv, GeneratorTypeOK, FlagsOK
<1>4. Originals \subseteq DOMAIN objs /\ copied \subseteq Originals
  BY <1>2, <1>3 DEF Originals, GeneratorInv, BothHalves
<1>5. FlagsOK'
  BY <1>2 DEF FlagsOK, Ahead, InWindow
<1>6. TerrainDue'
  BY <1>2 DEF TerrainDue, Remaining, TerrainCnt
<1>7. TerrainCounted'
  <2> DEFINE o == Image(objs[i])
             old == FirstId .. objCnt - 1
  <2>1. o \in Object /\ o.type = objs[i].type
    <3>1. objs[i].coord \in Half /\ objs[i] \in Object
      BY <1>1, <1>2, <1>3, <1>4 DEF GeneratorInv, BothHalves
    <3> QED
      BY <3>1, <1>3, ImageOK
  <2>2. Emplace(<<o>>)
    BY <1>1
  <2> HIDE DEF o
  <2>3. <<o>> \in Seq(Object) /\ Len(<<o>>) = 1 /\ <<o>>[1] = o
    BY <2>1
  <2>4. /\ objCnt' = objCnt + 1 /\ DOMAIN objs' = FirstId .. objCnt
        /\ \A k \in old : objs'[k] = objs[k]
        /\ objs'[objCnt] = o
    <3>1. /\ objCnt' = objCnt + Len(<<o>>)
          /\ objs' \in [FirstId .. objCnt' - 1 -> Object]
          /\ \A k \in old : objs'[k] = objs[k]
          /\ \A k \in objCnt .. objCnt' - 1 : objs'[k] = <<o>>[k - objCnt + 1]
      BY <1>3, <2>2, <2>3, EmplaceOK
    <3> QED
      BY <3>1, <2>3, <1>3
  <2>5. FirstId .. objCnt = old \cup {objCnt} /\ objCnt \notin old /\ DOMAIN objs = old
    BY <1>3
  <2>6. Originals' = Originals
    <3>1. Cardinality(copied') = Cardinality(copied) + 1
      BY <1>1, <1>3, FS_AddElement
    <3> QED
      BY <3>1, <2>4, <1>3 DEF Originals
  <2> DEFINE all == TerrainAt(DOMAIN objs)
             done == TerrainAt(copied)
  <2>7. IsFiniteSet(all) /\ IsFiniteSet(done)
    <3>1. IsFiniteSet(old)
      BY <1>3, IntervalSize
    <3>2. all \in SUBSET old /\ done \in SUBSET old
      BY <1>4, <2>5 DEF TerrainAt
    <3> QED
      BY <3>1, <3>2, FS_Subset
  <2>8. Cardinality(all) \in Nat /\ Cardinality(done) \in Nat
    BY <2>7, FS_CardinalityType
  <2> HIDE DEF old
  <2>9. TerrainAt(Originals)' = TerrainAt(Originals)
    BY <2>4, <2>5, <2>6, <1>4 DEF TerrainAt
  <2>10. /\ TerrainAt(DOMAIN objs)' =
              IF o.type = "TERRAIN" THEN all \cup {objCnt} ELSE all
         /\ objCnt \notin all
    BY <2>4, <2>5 DEF TerrainAt
  <2>11. /\ TerrainAt(copied)' = IF o.type = "TERRAIN" THEN done \cup {i} ELSE done
         /\ i \notin done
    BY <1>1, <1>4, <2>1, <2>4, <2>5 DEF TerrainAt
  <2>12. Cardinality(all) = laid + Cardinality(done) /\ Cardinality(TerrainAt(Originals)) = laid
    BY DEF TerrainCounted
  <2> HIDE DEF all, done
  <2>13. Cardinality(TerrainAt(DOMAIN objs)') = laid + Cardinality(TerrainAt(copied)')
    <3>1. CASE o.type = "TERRAIN"
      <4>1. Cardinality(all \cup {objCnt}) = Cardinality(all) + 1
        BY <2>7, <2>10, FS_AddElement
      <4>2. Cardinality(done \cup {i}) = Cardinality(done) + 1
        BY <2>7, <2>11, FS_AddElement
      <4>3. /\ Cardinality(TerrainAt(DOMAIN objs)') = Cardinality(all) + 1
            /\ Cardinality(TerrainAt(copied)') = Cardinality(done) + 1
        BY <4>1, <4>2, <3>1, <2>10, <2>11
      <4> QED
        BY <4>3, <2>8, <2>12, <1>3
    <3>2. CASE o.type # "TERRAIN"
      BY <3>2, <2>10, <2>11, <2>12
    <3> QED
      BY <3>1, <3>2
  <2> QED
    BY <2>9, <2>12, <2>13, <1>2 DEF TerrainCounted
<1> QED
  BY <1>5, <1>6, <1>7

\* GameReset returns with what has been counted.
LEMMA FinishFlags ==
  ASSUME FlagsOK, TerrainDue, TerrainCounted, Finish \/ UNCHANGED vars
  PROVE  FlagsOK' /\ TerrainDue' /\ TerrainCounted'
<1>1. /\ stage' = stage \/ (stage = "mirror" /\ stage' = "done")
      /\ UNCHANGED <<ask, expansions, objs, objCnt, unvisited, validIdx, laid, copied>>
  BY DEF Finish, vars
<1>2. FlagsOK'
  BY <1>1 DEF FlagsOK, Ahead, InWindow
<1>3. TerrainDue'
  BY <1>1 DEF TerrainDue, Remaining, TerrainCnt
<1>4. TerrainCounted'
  BY <1>1, CountsStay
<1> QED
  BY <1>2, <1>3, <1>4

\* Tiles, flags and terrain add up at every step of GameReset.
LEMMA FlagsInv == Spec => [](FlagsOK /\ TerrainDue /\ TerrainCounted)
<1> DEFINE Inv == FlagsOK /\ TerrainDue /\ TerrainCounted
<1>1. GeneratorInv /\ Inv /\ [Next]_vars => Inv'
  BY PlaceExpansionFlags, EndExpansionsFlags, SkipTileFlags, LayTileFlags, ReadFailsFlags,
     SetOwnersFlags, MirrorFlags, FinishFlags DEF Next
<1> QED
  BY InitFlags, <1>1, GeneratorInductive, PTL DEF Spec

\* The sums leave no other outcome than the terrain that was asked for.
LEMMA TerrainAddsUp ==
  GeneratorInv /\ FlagsOK /\ TerrainDue /\ TerrainCounted => TerrainAsAsked
<1> SUFFICES ASSUME GeneratorInv, FlagsOK, TerrainDue, TerrainCounted,
                    Len(expansions) = ask.expansions
             PROVE  /\ stage = "terrain" => validIdx <= Remaining
                    /\ stage # "failed" \/ Remaining < 0
                    /\ stage = "done" =>
                         Cardinality(TerrainAt(DOMAIN objs)) = 2 * TerrainCnt
  BY DEF TerrainAsAsked, TerrainAt
<1>1. /\ IsFiniteSet(Ahead) /\ Cardinality(Ahead) \in Nat /\ ask.expansions \in Nat
      /\ Remaining = (W * W) \div 2 - 25 * ask.expansions
      /\ Remaining \in Int /\ TerrainCnt \in Int /\ validIdx \in Nat /\ laid \in Nat
  BY FlagTypes DEF GeneratorInv, FlagsOK
<1>2. validIdx + Cardinality(Ahead) + 25 * ask.expansions = (W * W) \div 2
  BY DEF FlagsOK, Span, MINERAL_DISTANCE
<1>3. validIdx + Cardinality(Ahead) = Remaining
  BY <1>1, <1>2
<1> HIDE DEF Remaining, TerrainCnt
<1>4. validIdx <= Remaining
  BY <1>1, <1>3
<1>5. stage # "failed" \/ Remaining < 0
  BY DEF TerrainDue
<1>6. ASSUME stage = "done"
      PROVE  Cardinality(TerrainAt(DOMAIN objs)) = 2 * TerrainCnt
  <2>1. Ahead = {}
    BY <1>6 DEF FlagsOK, Ahead
  <2>2. validIdx = Remaining
    BY <2>1, <1>1, <1>3, FS_EmptySet
  <2>3. laid = TerrainCnt
    BY <2>2, <1>1, <1>6 DEF TerrainDue
  <2>4. copied = Originals
    BY <1>6 DEF GeneratorInv, BothHalves
  <2>5. Cardinality(TerrainAt(DOMAIN objs)) = laid + laid
    BY <2>4 DEF TerrainCounted
  <2> QED
    BY <2>3, <2>5, <1>1
<1> QED
  BY <1>4, <1>5, <1>6

\* Where every expansion found its place, each half gets exactly the terrain that was
\* asked for, and no flag is read that is not in the vector; on every even board size.
THEOREM ResetLaysTerrain == Spec => []TerrainAsAsked
  BY GeneratorInductive, FlagsInv, TerrainAddsUp, PTL

==============================================================================
