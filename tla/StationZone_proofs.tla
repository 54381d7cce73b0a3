-------------------------- MODULE StationZone_proofs --------------------------
(***************************************************************************)
(* Machine-checked theorems about StationZone, for any finite set of        *)
(* robots, any map, walls and stations, and any sound explicit layout.      *)
(***************************************************************************)
EXTENDS StationZone, FunctionTheorems, FiniteSetTheorems, TLAPS

-----------------------------------------------------------------------------
(* Every non-empty set of natural numbers has a least element, and Min      *)
(* picks it.                                                                *)
LEMMA LeastNatural ==
    ASSUME NEW T, T \subseteq Nat, T # {}
    PROVE  \E x \in T : \A y \in T : x <= y
<1> DEFINE R == OpToRel(<, Nat)
<1>1. IsWellFoundedOn(R, Nat)  BY NatLessThanWellFounded
<1>2. \A x, y \in Nat : x < y => <<x, y>> \in R  BY DEF OpToRel
<1> HIDE DEF R
<1>3. PICK x \in T : \A y \in T : ~ (<<y, x>> \in R)  BY <1>1, WFMin
<1>4. ASSUME NEW y \in T PROVE x <= y
  <2>1. ~ (<<y, x>> \in R)  BY <1>3
  <2>2. x \in Nat /\ y \in Nat  OBVIOUS
  <2>3. ~ (y < x)  BY <2>1, <2>2, <1>2
  <2>4. QED  BY <2>2, <2>3
<1>5. QED  BY <1>3, <1>4

LEMMA MinIsLeast ==
    ASSUME NEW T, T \subseteq Nat, T # {}
    PROVE  /\ Min(T) \in T
           /\ \A y \in T : Min(T) <= y
BY LeastNatural DEF Min

-----------------------------------------------------------------------------
(* The layout.                                                              *)
Sound(z) ==
    /\ z.slots \in Seq(Grid) /\ z.slots # <<>>
    /\ z.entry \in Grid \cup {Nowhere} /\ z.exit \in Grid \cup {Nowhere}
    /\ IsPassable(z)

Directions == {<< <<1, 0>>, <<0, 1>> >>, << <<-1, 0>>, <<0, 1>> >>,
               << <<0, 1>>, <<1, 0>> >>, << <<0, -1>>, <<1, 0>> >>}

LEMMA DirectionsOfSite ==
    ASSUME NEW site
    PROVE  << Inwards(site), Sideways(site) >> \in Directions
BY DEF Inwards, Sideways, Directions

(* A run is a straight line of cells, maybe cut short.                      *)
LEMMA RunIsLine ==
    ASSUME NEW site, NEW start, NEW dir, NEW length \in Nat
    PROVE  \E n \in Nat :
               Run(site, start, dir, length) = [i \in 1 .. n |-> Shift(start, dir, i)]
<1> DEFINE cells == [i \in 1 .. length |-> Shift(start, dir, i)]
           bad   == {i \in 1 .. length : ~IsValid(site, cells[i])}
<1>1. CASE bad = {}
  <2>1. Run(site, start, dir, length) = cells  BY <1>1 DEF Run
  <2>2. QED  BY <2>1
<1>2. CASE bad # {}
  <2>1. Run(site, start, dir, length) = SubSeq(cells, 1, Min(bad) - 1)  BY <1>2 DEF Run
  <2> HIDE DEF bad
  <2>2. bad \subseteq 1 .. length /\ bad \subseteq Nat  BY DEF bad
  <2>3. Min(bad) \in 1 .. length  BY <1>2, <2>2, MinIsLeast
  <2>4. SubSeq(cells, 1, Min(bad) - 1) = [i \in 1 .. Min(bad) - 1 |-> cells[i]]
    <3>1. SubSeq(cells, 1, Min(bad) - 1)
              = [i \in 1 .. (1 + (Min(bad) - 1) - 1) |-> cells[i + 1 - 1]]
      BY <2>3 DEF SubSeq
    <3>2. \A i \in 1 .. Min(bad) - 1 : i + 1 - 1 = i  BY <2>3
    <3>3. 1 + (Min(bad) - 1) - 1 = Min(bad) - 1  BY <2>3
    <3>4. QED  BY <3>1, <3>2, <3>3
  <2>5. QED  BY <2>1, <2>3, <2>4
<1>3. QED  BY <1>1, <1>2

(* FirstFree yields one of the candidates, off the cells taken, or nothing. *)
LEMMA FirstFreeIsCandidate ==
    ASSUME NEW site, NEW candidates \in Seq(Grid), NEW taken
    PROVE  \/ FirstFree(site, candidates, taken) = Nowhere
           \/ \E i \in 1 .. Len(candidates) :
                  /\ FirstFree(site, candidates, taken) = candidates[i]
                  /\ candidates[i] \notin taken
<1> DEFINE good == {i \in DOMAIN candidates :
                        IsFree(site, candidates[i]) /\ candidates[i] \notin taken}
<1>1. CASE good = {}  BY <1>1 DEF FirstFree
<1>2. CASE good # {}
  <2>1. FirstFree(site, candidates, taken) = candidates[Min(good)]  BY <1>2 DEF FirstFree
  <2> HIDE DEF good
  <2>2. good \subseteq 1 .. Len(candidates) /\ good \subseteq Nat  BY DEF good
  <2>3. Min(good) \in good  BY <1>2, <2>2, MinIsLeast
  <2>4. candidates[Min(good)] \notin taken  BY <2>3 DEF good
  <2>5. QED  BY <2>1, <2>2, <2>3, <2>4
<1>3. QED  BY <1>1, <1>2

LEMMA NeighborCells ==
    ASSUME NEW x, NEW y
    PROVE  Range(Neighbors(<<x, y>>)) = {<<x - 1, y>>, <<x + 1, y>>, <<x, y - 1>>, <<x, y + 1>>}
<1>1. Neighbors(<<x, y>>) = << <<x - 1, y>>, <<x + 1, y>>, <<x, y - 1>>, <<x, y + 1>> >>
  BY DEF Neighbors
<1>2. DOMAIN Neighbors(<<x, y>>) = 1 .. 4  BY <1>1
<1>3. QED  BY <1>1, <1>2 DEF Range

(* The shape of a zone: q cells inwards, then b cells sideways.             *)
Bend(cell, dir, side, q, i) ==
    IF i <= q + 1 THEN Shift(cell, dir, i - 1) ELSE Shift(Shift(cell, dir, q), side, i - 1 - q)

LEMMA BendIsPassable ==
    ASSUME NEW cell \in Grid, NEW dir, NEW side, <<dir, side>> \in Directions,
           NEW q \in Nat, NEW b \in Nat
    PROVE  /\ \A i \in 1 .. 1 + q + b : Bend(cell, dir, side, q, i) \in Grid
           /\ \A i, j \in 1 .. 1 + q + b :
                  Bend(cell, dir, side, q, i) = Bend(cell, dir, side, q, j) => i = j
           /\ \A i \in 2 .. 1 + q + b :
                  Bend(cell, dir, side, q, i) \in Range(Neighbors(Bend(cell, dir, side, q, i - 1)))
<1>1. PICK r \in Int, c \in Int : cell = <<r, c>>  BY DEF Grid
<1>2. \A x, y : Range(Neighbors(<<x, y>>)) =
                   {<<x - 1, y>>, <<x + 1, y>>, <<x, y - 1>>, <<x, y + 1>>}
  BY NeighborCells
<1>3. CASE dir = <<1, 0>> /\ side = <<0, 1>>
  <2>1. \A i \in 1 .. 1 + q + b : Bend(cell, dir, side, q, i) =
            IF i <= q + 1 THEN <<r + (i - 1), c>> ELSE <<r + q, c + (i - 1 - q)>>
    BY <1>1, <1>3 DEF Bend, Shift
  <2>2. QED  BY <1>2, <2>1 DEF Grid
<1>4. CASE dir = <<-1, 0>> /\ side = <<0, 1>>
  <2>1. \A i \in 1 .. 1 + q + b : Bend(cell, dir, side, q, i) =
            IF i <= q + 1 THEN <<r - (i - 1), c>> ELSE <<r - q, c + (i - 1 - q)>>
    BY <1>1, <1>4 DEF Bend, Shift
  <2>2. QED  BY <1>2, <2>1 DEF Grid
<1>5. CASE dir = <<0, 1>> /\ side = <<1, 0>>
  <2>1. \A i \in 1 .. 1 + q + b : Bend(cell, dir, side, q, i) =
            IF i <= q + 1 THEN <<r, c + (i - 1)>> ELSE <<r + (i - 1 - q), c + q>>
    BY <1>1, <1>5 DEF Bend, Shift
  <2>2. QED  BY <1>2, <2>1 DEF Grid
<1>6. CASE dir = <<0, -1>> /\ side = <<1, 0>>
  <2>1. \A i \in 1 .. 1 + q + b : Bend(cell, dir, side, q, i) =
            IF i <= q + 1 THEN <<r, c - (i - 1)>> ELSE <<r + (i - 1 - q), c - q>>
    BY <1>1, <1>6 DEF Bend, Shift
  <2>2. QED  BY <1>2, <2>1 DEF Grid
<1>7. QED  BY <1>3, <1>4, <1>5, <1>6 DEF Directions

(* What the handoff cells of a zone can be: cells next to the last slot and *)
(* next to the service cell, off the slots.                                 *)
EntryCells(anchor, dir, side) ==
    {Shift(anchor, side, 1), Shift(anchor, dir, 1), Shift(anchor, dir, -1)}
ExitCells(cell, side) == {Shift(cell, side, -1), Shift(cell, side, 1)}

LEMMA HandoffCells ==
    ASSUME NEW cell \in Grid, NEW dir, NEW side, <<dir, side>> \in Directions,
           NEW q \in Nat, NEW b \in Nat, NEW entry, NEW exit, NEW anchor,
           anchor = Bend(cell, dir, side, q, 1 + q + b),
           entry \in EntryCells(anchor, dir, side), exit \in ExitCells(cell, side)
    PROVE  /\ entry \in Grid /\ exit \in Grid
           /\ entry \in Range(Neighbors(anchor))
           /\ exit \in Range(Neighbors(cell))
           /\ entry = exit => 1 + q + b \in {1, 3}
<1>1. PICK r \in Int, c \in Int : cell = <<r, c>>  BY DEF Grid
<1>2. \A x, y : Range(Neighbors(<<x, y>>)) =
                   {<<x - 1, y>>, <<x + 1, y>>, <<x, y - 1>>, <<x, y + 1>>}
  BY NeighborCells
<1>3. CASE dir = <<1, 0>> /\ side = <<0, 1>>
  <2>1. anchor = <<r + q, c + b>>  BY <1>1, <1>3 DEF Bend, Shift
  <2>2. entry \in {<<r + q, c + b + 1>>, <<r + q + 1, c + b>>, <<r + q - 1, c + b>>}
    BY <2>1, <1>3 DEF Shift, EntryCells
  <2>3. exit \in {<<r, c - 1>>, <<r, c + 1>>}  BY <1>1, <1>3 DEF Shift, ExitCells
  <2>4. QED  BY <1>1, <1>2, <2>1, <2>2, <2>3 DEF Grid
<1>4. CASE dir = <<-1, 0>> /\ side = <<0, 1>>
  <2>1. anchor = <<r - q, c + b>>  BY <1>1, <1>4 DEF Bend, Shift
  <2>2. entry \in {<<r - q, c + b + 1>>, <<r - q - 1, c + b>>, <<r - q + 1, c + b>>}
    BY <2>1, <1>4 DEF Shift, EntryCells
  <2>3. exit \in {<<r, c - 1>>, <<r, c + 1>>}  BY <1>1, <1>4 DEF Shift, ExitCells
  <2>4. QED  BY <1>1, <1>2, <2>1, <2>2, <2>3 DEF Grid
<1>5. CASE dir = <<0, 1>> /\ side = <<1, 0>>
  <2>1. anchor = <<r + b, c + q>>  BY <1>1, <1>5 DEF Bend, Shift
  <2>2. entry \in {<<r + b + 1, c + q>>, <<r + b, c + q + 1>>, <<r + b, c + q - 1>>}
    BY <2>1, <1>5 DEF Shift, EntryCells
  <2>3. exit \in {<<r - 1, c>>, <<r + 1, c>>}  BY <1>1, <1>5 DEF Shift, ExitCells
  <2>4. QED  BY <1>1, <1>2, <2>1, <2>2, <2>3 DEF Grid
<1>6. CASE dir = <<0, -1>> /\ side = <<1, 0>>
  <2>1. anchor = <<r + b, c - q>>  BY <1>1, <1>6 DEF Bend, Shift
  <2>2. entry \in {<<r + b + 1, c - q>>, <<r + b, c - q - 1>>, <<r + b, c - q + 1>>}
    BY <2>1, <1>6 DEF Shift, EntryCells
  <2>3. exit \in {<<r - 1, c>>, <<r + 1, c>>}  BY <1>1, <1>6 DEF Shift, ExitCells
  <2>4. QED  BY <1>1, <1>2, <2>1, <2>2, <2>3 DEF Grid
<1>7. QED  BY <1>3, <1>4, <1>5, <1>6 DEF Directions

LEMMA ShiftInGrid ==
    ASSUME NEW c \in Grid, NEW d \in Grid, NEW n \in Int
    PROVE  Shift(c, d, n) \in Grid
<1>1. c[1] + n * d[1] \in Int /\ c[2] + n * d[2] \in Int  BY DEF Grid
<1>2. QED  BY <1>1 DEF Shift, Grid

(* Every layout the code computes is passable.                              *)
LEMMA AutoIsSound ==
    ASSUME NEW site \in Sites
    PROVE  Sound(AutoLayout(site))
<1> DEFINE cell   == site.cell
           dir    == Inwards(site)
           side   == Sideways(site)
           queue  == Run(site, cell, dir, site.queue)
           tail   == IF queue = <<>> THEN cell ELSE Last(queue)
           buffer == Run(site, tail, side, site.buffer)
           anchor == IF buffer = <<>> THEN tail ELSE Last(buffer)
           slots  == <<cell>> \o queue \o buffer
           ins    == <<Shift(anchor, side, 1), Shift(anchor, dir, 1), Shift(anchor, dir, -1)>>
           outs   == <<Shift(cell, side, -1), Shift(cell, side, 1)>>
           z      == AutoLayout(site)
<1>1. /\ z.slots = slots
      /\ z.entry = FirstFree(site, ins, Range(slots))
      /\ z.exit = FirstFree(site, outs, Range(slots))
  BY DEF AutoLayout
<1>2. /\ cell \in Grid /\ site.queue \in Nat /\ site.buffer \in Nat
      /\ <<dir, side>> \in Directions
  BY SitesAssumption, DirectionsOfSite DEF Grid
<1>3. dir \in Grid /\ side \in Grid  BY <1>2 DEF Directions, Grid
<1>5. PICK q \in Nat : queue = [i \in 1 .. q |-> Shift(cell, dir, i)]  BY <1>2, RunIsLine
<1>6. PICK b \in Nat : buffer = [i \in 1 .. b |-> Shift(tail, side, i)]  BY <1>2, RunIsLine
<1> HIDE DEF queue, buffer, cell, dir, side
<1>7. queue \in Seq(Grid) /\ Len(queue) = q
  <2>1. \A i \in 1 .. q : Shift(cell, dir, i) \in Grid  BY <1>2, <1>3, ShiftInGrid
  <2>2. QED  BY <1>5, <2>1
<1>8. tail = Shift(cell, dir, q) /\ tail \in Grid
  <2>0. Shift(cell, dir, q) \in Grid  BY <1>2, <1>3, ShiftInGrid
  <2>1. CASE q = 0
    <3>1. queue = <<>>  BY <1>7, <2>1
    <3>2. Shift(cell, dir, 0) = cell  BY <1>2, <1>3 DEF Shift, Grid
    <3>3. QED  BY <1>2, <2>1, <3>1, <3>2
  <2>2. CASE q # 0
    <3>1. queue # <<>> /\ Last(queue) = queue[q]  BY <1>7, <2>2 DEF Last
    <3>2. queue[q] = Shift(cell, dir, q)  BY <1>5, <2>2
    <3>3. QED  BY <2>0, <3>1, <3>2
  <2>3. QED  BY <2>1, <2>2
<1> HIDE DEF tail
<1>9. buffer \in Seq(Grid) /\ Len(buffer) = b
  <2>1. \A i \in 1 .. b : Shift(tail, side, i) \in Grid  BY <1>3, <1>8, ShiftInGrid
  <2>2. QED  BY <1>6, <2>1
<1>10. slots \in Seq(Grid) /\ Len(slots) = 1 + q + b /\ slots # <<>>  BY <1>2, <1>7, <1>9
<1>11. \A i \in 1 .. 1 + q + b : slots[i] = Bend(cell, dir, side, q, i)
  <2> TAKE i \in 1 .. 1 + q + b
  <2>1. slots[i] = IF i = 1 THEN cell
                   ELSE IF i <= 1 + q THEN queue[i - 1] ELSE buffer[i - 1 - q]
    BY <1>2, <1>7, <1>9
  <2> HIDE DEF slots
  <2>2. Shift(cell, dir, 0) = cell  BY <1>2, <1>3 DEF Shift, Grid
  <2>3. CASE i = 1  BY <2>1, <2>2, <2>3 DEF Bend
  <2>4. CASE i # 1 /\ i <= 1 + q
    <3>1. i - 1 \in 1 .. q  BY <2>4
    <3>2. QED  BY <1>5, <2>1, <2>4, <3>1 DEF Bend
  <2>5. CASE i > 1 + q
    <3>1. i - 1 - q \in 1 .. b /\ ~(i <= q + 1) /\ i # 1  BY <2>5
    <3>2. slots[i] = buffer[i - 1 - q]  BY <2>1, <2>5, <3>1
    <3>3. buffer[i - 1 - q] = Shift(tail, side, i - 1 - q)  BY <1>6, <3>1
    <3>4. QED  BY <1>8, <3>1, <3>2, <3>3 DEF Bend
  <2>6. QED  BY <2>3, <2>4, <2>5
<1>12. anchor = Bend(cell, dir, side, q, 1 + q + b) /\ anchor \in Grid
  <2>1. CASE b = 0
    <3>1. buffer = <<>>  BY <1>9, <2>1
    <3>2. anchor = Shift(cell, dir, q)  BY <1>8, <3>1
    <3>3. Bend(cell, dir, side, q, 1 + q + b) = Shift(cell, dir, q)  BY <2>1 DEF Bend
    <3>4. QED  BY <1>8, <3>2, <3>3
  <2>2. CASE b # 0
    <3>1. buffer # <<>> /\ Last(buffer) = buffer[b]  BY <1>9, <2>2 DEF Last
    <3>2. anchor = Shift(tail, side, b)  BY <1>6, <2>2, <3>1
    <3>3. 1 + q + b - 1 - q = b /\ ~(1 + q + b <= q + 1)  BY <2>2
    <3>4. Bend(cell, dir, side, q, 1 + q + b) = Shift(tail, side, b)  BY <1>8, <3>3 DEF Bend
    <3>5. Shift(tail, side, b) \in Grid  BY <1>3, <1>8, ShiftInGrid
    <3>6. QED  BY <3>2, <3>4, <3>5
  <2>3. QED  BY <2>1, <2>2
<1> HIDE DEF anchor, slots
<1>13. ins \in Seq(Grid) /\ outs \in Seq(Grid) /\ Len(ins) = 3 /\ Len(outs) = 2
  <2>1. /\ Shift(anchor, side, 1) \in Grid /\ Shift(anchor, dir, 1) \in Grid
        /\ Shift(anchor, dir, -1) \in Grid
        /\ Shift(cell, side, -1) \in Grid /\ Shift(cell, side, 1) \in Grid
    <3>1. 1 \in Int /\ -1 \in Int  OBVIOUS
    <3>2. QED  BY ONLY <1>2, <1>3, <1>12, <3>1, ShiftInGrid
  <2>2. QED  BY <2>1
<1>14. \/ z.entry = Nowhere
       \/ z.entry \in {ins[1], ins[2], ins[3]} \ Range(slots)
  <2>1. 1 .. Len(ins) = {1, 2, 3}  BY <1>13
  <2> HIDE DEF ins
  <2>2. QED  BY <1>1, <1>13, <2>1, FirstFreeIsCandidate
<1>15. \/ z.exit = Nowhere
       \/ z.exit \in {outs[1], outs[2]} \ Range(slots)
  <2>1. 1 .. Len(outs) = {1, 2}  BY <1>13
  <2> HIDE DEF outs
  <2>2. QED  BY <1>1, <1>13, <2>1, FirstFreeIsCandidate
<1>16. Range(slots) \subseteq Grid /\ Nowhere \notin Range(slots)
  BY <1>10, NowhereAssumption DEF Range
<1>17. /\ \A i, j \in 1 .. Len(slots) : slots[i] = slots[j] => i = j
       /\ \A i \in 2 .. Len(slots) : slots[i] \in Range(Neighbors(slots[i - 1]))
  <2>1. \A i \in 2 .. 1 + q + b : i - 1 \in 1 .. 1 + q + b /\ i \in 1 .. 1 + q + b  OBVIOUS
  <2> DEFINE bend(i) == Bend(cell, dir, side, q, i)
  <2>2. /\ \A i, j \in 1 .. 1 + q + b : bend(i) = bend(j) => i = j
        /\ \A i \in 2 .. 1 + q + b : bend(i) \in Range(Neighbors(bend(i - 1)))
    BY <1>2, BendIsPassable
  <2> HIDE DEF bend
  <2>3. \A i \in 1 .. 1 + q + b : slots[i] = bend(i)  BY <1>11 DEF bend
  <2>4. QED  BY <1>10, <2>1, <2>2, <2>3
<1>18. slots[1] = cell /\ slots[Len(slots)] = anchor
  <2>1. slots[1] = cell  BY <1>2, <1>7, <1>9 DEF slots
  <2>2. QED  BY <1>10, <1>11, <1>12, <2>1
<1>19. ASSUME NEW entry \in {ins[1], ins[2], ins[3]}, NEW exit \in {outs[1], outs[2]}
       PROVE  /\ entry \in Grid /\ exit \in Grid
              /\ entry \in Range(Neighbors(anchor))
              /\ exit \in Range(Neighbors(cell))
              /\ entry = exit => Len(slots) \in {1, 3}
  <2>1. entry \in EntryCells(anchor, dir, side) /\ exit \in ExitCells(cell, side)
    BY DEF EntryCells, ExitCells
  <2>2. /\ entry \in Grid /\ exit \in Grid
        /\ entry \in Range(Neighbors(anchor))
        /\ exit \in Range(Neighbors(cell))
        /\ entry = exit => 1 + q + b \in {1, 3}
    <3>1. cell \in Grid /\ <<dir, side>> \in Directions /\ q \in Nat /\ b \in Nat
          /\ anchor = Bend(cell, dir, side, q, 1 + q + b)
      BY <1>2, <1>12
    <3>2. QED  BY ONLY <2>1, <3>1, HandoffCells
  <2>3. QED  BY <1>10, <2>2
<1> HIDE DEF ins, outs, z
<1>20. /\ z.entry # Nowhere => z.entry \in Grid /\ z.entry \in Range(Neighbors(anchor))
       /\ z.exit # Nowhere => z.exit \in Grid /\ z.exit \in Range(Neighbors(cell))
  BY <1>14, <1>15, <1>19
<1>21. z.entry # Nowhere /\ z.exit = z.entry => Len(slots) \in {1, 3}
  BY <1>14, <1>15, <1>19
<1>22. IsPassable(z)
  BY <1>1, <1>14, <1>15, <1>16, <1>17, <1>18, <1>20, <1>21 DEF IsPassable
<1>23. QED  BY <1>1, <1>10, <1>20, <1>22 DEF Sound, z

LEMMA ZonesAreSound ==
    ASSUME NEW z \in Zones
    PROVE  Sound(z)
BY AutoIsSound, ExplicitAssumption DEF Zones, Sound

-----------------------------------------------------------------------------
(* The cells of a sound zone: places and cells correspond.                  *)
LEMMA NeighborsSymmetric ==
    ASSUME NEW c \in Grid, NEW d \in Grid, d \in Range(Neighbors(c))
    PROVE  c \in Range(Neighbors(d)) /\ c # d
<1>1. PICK x \in Int, y \in Int : c = <<x, y>>  BY DEF Grid
<1>2. PICK u \in Int, v \in Int : d = <<u, v>>  BY DEF Grid
<1>3. d \in {<<x - 1, y>>, <<x + 1, y>>, <<x, y - 1>>, <<x, y + 1>>}
  BY <1>1, NeighborCells
<1>4. c \in {<<u - 1, v>>, <<u + 1, v>>, <<u, v - 1>>, <<u, v + 1>>} /\ c # d
  BY <1>1, <1>2, <1>3
<1>5. QED  BY <1>2, <1>4, NeighborCells

LEMMA Places ==
    ASSUME Sound(zone)
    PROVE  LET n == Len(zone.slots)
           IN  /\ n \in Nat \ {0} /\ Slots = 0 .. n - 1 /\ 0 \in Slots
               /\ \A p \in Slots : /\ zone.slots[p + 1] \in Range(zone.slots)
                                   /\ Priority(zone.slots[p + 1]) = p
               /\ \A c \in Range(zone.slots) : /\ Priority(c) \in Slots
                                               /\ zone.slots[Priority(c) + 1] = c
               /\ \A c : c \notin Range(zone.slots) => Priority(c) = n
               /\ Service = zone.slots[1] /\ Service \in Range(zone.slots)
               /\ Priority(Service) = 0
<1> DEFINE n == Len(zone.slots)
<1>1. zone.slots \in Seq(Grid) /\ n \in Nat \ {0} /\ DOMAIN zone.slots = 1 .. n
  BY DEF Sound
<1>2. \A i, j \in 1 .. n : zone.slots[i] = zone.slots[j] => i = j
  BY DEF Sound, IsPassable
<1>3. Slots = 0 .. n - 1 /\ 0 \in Slots  BY <1>1 DEF Slots
<1>4. ASSUME NEW i \in 1 .. n
      PROVE  zone.slots[i] \in Range(zone.slots) /\ Priority(zone.slots[i]) = i - 1
  <2>1. zone.slots[i] \in Range(zone.slots)  BY <1>1 DEF Range
  <2>2. (CHOOSE j \in DOMAIN zone.slots : zone.slots[j] = zone.slots[i]) = i  BY <1>1, <1>2
  <2>3. QED  BY <2>1, <2>2 DEF Priority
<1>5. \A p \in Slots : p + 1 \in 1 .. n /\ p + 1 - 1 = p  BY <1>1, <1>3
<1>6. ASSUME NEW c \in Range(zone.slots)
      PROVE  Priority(c) \in Slots /\ zone.slots[Priority(c) + 1] = c
  <2>1. PICK i \in 1 .. n : zone.slots[i] = c  BY <1>1 DEF Range
  <2>2. Priority(c) = i - 1 /\ i - 1 \in Slots /\ i - 1 + 1 = i  BY <1>3, <1>4, <2>1
  <2>3. QED  BY <2>1, <2>2
<1>7. \A c : c \notin Range(zone.slots) => Priority(c) = n  BY DEF Priority
<1>8. Service = zone.slots[1] /\ Service \in Range(zone.slots) /\ Priority(Service) = 0
  BY <1>1, <1>4 DEF Service
<1>9. QED  BY <1>1, <1>3, <1>4, <1>5, <1>6, <1>7, <1>8

LEMMA ZoneFacts ==
    ASSUME Sound(zone)
    PROVE  /\ ZoneCells \subseteq Grid /\ Nowhere \notin ZoneCells
           /\ Range(zone.slots) \subseteq ZoneCells
           /\ zone.entry \notin Range(zone.slots)
           /\ zone.exit \notin Range(zone.slots)
           /\ Nowhere \notin Range(zone.slots)
           /\ zone.entry # Nowhere => zone.entry \in ZoneCells
           /\ \A c, d \in ZoneCells : Priority(c) = Priority(d) => c = d
           /\ \A c \in ZoneCells : Priority(c) \in 0 .. Len(zone.slots)
           /\ IsFiniteSet(ZoneCells) /\ Cardinality(ZoneCells) \in Nat
           /\ Len(zone.slots) <= Cardinality(ZoneCells)
<1> DEFINE n == Len(zone.slots)
<1>1. /\ zone.slots \in Seq(Grid) /\ n \in Nat \ {0} /\ DOMAIN zone.slots = 1 .. n
      /\ zone.entry \in Grid \cup {Nowhere}
      /\ zone.entry \notin Range(zone.slots) /\ zone.exit \notin Range(zone.slots)
      /\ \A i, j \in 1 .. n : zone.slots[i] = zone.slots[j] => i = j
  BY DEF Sound, IsPassable
<1>2. Range(zone.slots) \subseteq Grid  BY <1>1 DEF Range
<1>3. Nowhere \notin Range(zone.slots)  BY <1>2, NowhereAssumption
<1>4. ZoneCells \subseteq Grid /\ Nowhere \notin ZoneCells /\ Range(zone.slots) \subseteq ZoneCells
  BY <1>1, <1>2, <1>3 DEF ZoneCells
<1>5. zone.entry # Nowhere => zone.entry \in ZoneCells  BY DEF ZoneCells
<1>6. ASSUME NEW c \in ZoneCells, NEW d \in ZoneCells, Priority(c) = Priority(d)
      PROVE  c = d
  <2>1. c \in Range(zone.slots) \/ c = zone.entry  BY DEF ZoneCells
  <2>2. d \in Range(zone.slots) \/ d = zone.entry  BY DEF ZoneCells
  <2>3. n \notin Slots  BY <1>1 DEF Slots
  <2>4. \A e \in Range(zone.slots) : Priority(e) \in Slots /\ zone.slots[Priority(e) + 1] = e
    BY Places
  <2>5. Priority(zone.entry) = n  BY <1>1, Places
  <2> HIDE DEF n
  <2>6. QED  BY <1>6, <2>1, <2>2, <2>3, <2>4, <2>5
<1>7. ASSUME NEW c \in ZoneCells PROVE Priority(c) \in 0 .. n
  <2>1. Slots = 0 .. n - 1 /\ n \in Nat  BY Places
  <2>2. CASE c \in Range(zone.slots)
    <3>1. Priority(c) \in 0 .. n - 1  BY <2>1, <2>2, Places
    <3>2. QED  BY <2>1, <3>1
  <2>3. CASE c \notin Range(zone.slots)
    <3>1. Priority(c) = n  BY <2>3, Places
    <3>2. QED  BY <2>1, <3>1
  <2>4. QED  BY <2>2, <2>3
<1>8. /\ IsFiniteSet(Range(zone.slots))
      /\ Cardinality(Range(zone.slots)) = n
  <2>1. zone.slots \in Bijection(1 .. n, Range(zone.slots))
    <3>1. zone.slots \in [1 .. n -> Range(zone.slots)]  BY <1>1 DEF Range
    <3>2. \A c \in Range(zone.slots) : \E i \in 1 .. n : zone.slots[i] = c
      BY <1>1 DEF Range
    <3>3. QED  BY <1>1, <3>1, <3>2, Fun_IsBij
  <2>2. ExistsBijection(1 .. n, Range(zone.slots))  BY <2>1 DEF ExistsBijection
  <2>3. IsFiniteSet(Range(zone.slots))  BY <1>1, <2>2, FS_NatBijection
  <2>4. QED  BY <1>1, <2>2, <2>3, FS_CountingElements
<1>9. /\ IsFiniteSet(ZoneCells) /\ Cardinality(ZoneCells) \in Nat
      /\ n <= Cardinality(ZoneCells)
  <2>1. CASE zone.entry = Nowhere
    <3>1. ZoneCells = Range(zone.slots)  BY <2>1 DEF ZoneCells
    <3>2. QED  BY <1>1, <1>8, <3>1
  <2>2. CASE zone.entry # Nowhere
    <3>1. ZoneCells = Range(zone.slots) \cup {zone.entry}  BY <2>2 DEF ZoneCells
    <3>2. Cardinality(ZoneCells) = Cardinality(Range(zone.slots)) + 1 /\ IsFiniteSet(ZoneCells)
      BY <1>1, <1>8, <3>1, FS_AddElement
    <3>3. QED  BY <1>1, <1>8, <3>2
  <2>3. QED  BY <2>1, <2>2
<1>10. QED  BY <1>1, <1>3, <1>4, <1>5, <1>6, <1>7, <1>9

(* Each place is next to the one ahead of it.                               *)
LEMMA StepAhead ==
    ASSUME Sound(zone), NEW c \in ZoneCells, c # Service
    PROVE  /\ Priority(c) - 1 \in Slots
           /\ zone.slots[Priority(c)] \in Range(Neighbors(c))
<1> DEFINE n == Len(zone.slots)
<1>1. /\ zone.slots \in Seq(Grid) /\ n \in Nat \ {0} /\ DOMAIN zone.slots = 1 .. n
      /\ \A i \in 2 .. n : zone.slots[i] \in Range(Neighbors(zone.slots[i - 1]))
      /\ zone.entry # Nowhere => zone.entry \in Range(Neighbors(zone.slots[n]))
  BY DEF Sound, IsPassable
<1>2. Slots = 0 .. n - 1  BY Places
<1>3. CASE c \in Range(zone.slots)
  <2>1. Priority(c) \in 0 .. n - 1 /\ zone.slots[Priority(c) + 1] = c  BY <1>2, <1>3, Places
  <2>2. Priority(c) # 0  BY <2>1 DEF Service
  <2>3. /\ Priority(c) \in 1 .. n /\ Priority(c) + 1 \in 2 .. n
        /\ Priority(c) + 1 - 1 = Priority(c) /\ Priority(c) - 1 \in 0 .. n - 1
    BY <1>1, <2>1, <2>2
  <2>4. c \in Range(Neighbors(zone.slots[Priority(c)]))  BY <1>1, <2>1, <2>3
  <2>5. zone.slots[Priority(c)] \in Grid /\ c \in Grid  BY <1>1, <2>3, ZoneFacts
  <2>6. QED  BY <1>2, <2>3, <2>4, <2>5, NeighborsSymmetric
<1>4. CASE c \notin Range(zone.slots)
  <2>1. c = zone.entry /\ c # Nowhere  BY <1>4 DEF ZoneCells
  <2>2. Priority(c) = n  BY <1>4, Places
  <2>3. c \in Range(Neighbors(zone.slots[n])) /\ n \in 1 .. n /\ n - 1 \in 0 .. n - 1
    BY <1>1, <2>1
  <2>4. zone.slots[n] \in Grid /\ c \in Grid  BY <1>1, <2>3, ZoneFacts
  <2>5. QED  BY <1>2, <2>2, <2>3, <2>4, NeighborsSymmetric
<1>5. QED  BY <1>3, <1>4

-----------------------------------------------------------------------------
(* The search. Within really is the function its definition describes.      *)
LEMMA WithinIs ==
    ASSUME Sound(zone), NEW goal, NEW open
    PROVE  /\ Within(goal, open)[0] = {goal}
           /\ \A k \in 1 .. Cardinality(ZoneCells) :
                  Within(goal, open)[k] =
                      Within(goal, open)[k - 1] \cup
                          {c \in open : Range(Neighbors(c)) \cap Within(goal, open)[k - 1] # {}}
<1> DEFINE N == Cardinality(ZoneCells)
           Grow(near) == near \cup {c \in open : Range(Neighbors(c)) \cap near # {}}
           Level(g, k) == IF k = 0 THEN {goal} ELSE Grow(g[k - 1])
           Exists(m) == \E g : g = [k \in 0 .. m |-> Level(g, k)]
           Bad == {m \in Nat : ~Exists(m)}
<1>1. N \in Nat  BY ZoneFacts
<1> HIDE DEF N, Grow
<1>2. Exists(0)
  <2>1. [k \in 0 .. 0 |-> {goal}] = [k \in 0 .. 0 |-> Level([l \in 0 .. 0 |-> {goal}], k)]
    OBVIOUS
  <2>2. QED  BY <2>1
<1>3. ASSUME NEW m \in Nat, Exists(m) PROVE Exists(m + 1)
  <2>1. PICK g : g = [k \in 0 .. m |-> Level(g, k)]  BY <1>3
  <2> DEFINE h == [k \in 0 .. m + 1 |-> Level(g, k)]
  <2>2. ASSUME NEW k \in 0 .. m + 1 PROVE Level(g, k) = Level(h, k)
    <3>1. CASE k = 0  BY <3>1
    <3>2. CASE k # 0
      <4>1. k - 1 \in 0 .. m /\ k - 1 \in 0 .. m + 1  BY <3>2
      <4>2. h[k - 1] = Level(g, k - 1) /\ g[k - 1] = Level(g, k - 1)  BY <2>1, <4>1
      <4>3. QED  BY <3>2, <4>2
    <3>3. QED  BY <3>1, <3>2
  <2>3. h = [k \in 0 .. m + 1 |-> Level(h, k)]  BY <2>2
  <2>4. QED  BY <2>3
<1>4. Bad = {}
  <2> SUFFICES ASSUME Bad # {} PROVE FALSE
    OBVIOUS
  <2> HIDE DEF Exists
  <2>1. PICK m \in Bad : \A k \in Bad : m <= k  BY LeastNatural
  <2>2. m \in Nat /\ ~Exists(m) /\ m # 0  BY <1>2
  <2>3. m - 1 \in Nat /\ m - 1 + 1 = m /\ ~(m <= m - 1)  BY <2>2
  <2>4. Exists(m - 1)  BY <2>1, <2>3
  <2>5. QED  BY <1>3, <2>2, <2>3, <2>4
<1>5. Exists(N)  BY <1>1, <1>4
<1> DEFINE w == Within(goal, open)
<1>6. w = CHOOSE g : g = [k \in 0 .. N |-> Level(g, k)]  BY DEF Within, N, Grow
<1>7. w = [k \in 0 .. N |-> Level(w, k)]  BY <1>5, <1>6
<1> HIDE DEF w
<1>8. w[0] = {goal}  BY <1>1, <1>7
<1>9. \A k \in 1 .. N : w[k] = Grow(w[k - 1])
  <2> TAKE k \in 1 .. N
  <2>1. k \in 0 .. N /\ k # 0  OBVIOUS
  <2>2. w[k] = Level(w, k)  BY <1>7, <2>1
  <2>3. QED  BY <2>1, <2>2
<1>10. QED  BY <1>8, <1>9 DEF w, N, Grow

(* Whatever lies within some distance is open, or the goal.                 *)
LEMMA WithinIsOpen ==
    ASSUME Sound(zone), NEW goal, NEW open,
           NEW k \in 0 .. Cardinality(ZoneCells)
    PROVE  Within(goal, open)[k] \subseteq open \cup {goal}
<1> DEFINE N == Cardinality(ZoneCells)
           w == Within(goal, open)
           Bad == {j \in 0 .. N : ~(w[j] \subseteq open \cup {goal})}
<1>1. N \in Nat  BY ZoneFacts
<1>2. /\ w[0] = {goal}
      /\ \A j \in 1 .. N :
             w[j] = w[j - 1] \cup {c \in open : Range(Neighbors(c)) \cap w[j - 1] # {}}
  BY WithinIs
<1> HIDE DEF N, w
<1>3. Bad = {}
  <2> SUFFICES ASSUME Bad # {} PROVE FALSE
    OBVIOUS
  <2>1. Bad \subseteq Nat  BY <1>1
  <2>2. PICK j \in Bad : \A i \in Bad : j <= i  BY <2>1, LeastNatural
  <2>3. j \in 0 .. N /\ ~(w[j] \subseteq open \cup {goal})  OBVIOUS
  <2>4. j # 0  BY <1>2, <2>3
  <2>5. j \in 1 .. N /\ j - 1 \in 0 .. N /\ ~(j <= j - 1)  BY <1>1, <2>3, <2>4
  <2>6. w[j - 1] \subseteq open \cup {goal}  BY <2>2, <2>5
  <2>7. w[j] \subseteq open \cup {goal}  BY <1>2, <2>5, <2>6
  <2>8. QED  BY <2>3, <2>7
<1>4. QED  BY <1>3 DEF N, w

(* The step the search takes is to a neighbouring open cell or the goal; if *)
(* every place from the start down to the goal is open there is one, and if *)
(* the goal is the place ahead the step is onto it. In a straight zone it    *)
(* is onto the next place.                                                  *)
LEMMA NextStepIs ==
    ASSUME Sound(zone), NEW start \in ZoneCells, NEW goal \in ZoneCells,
           NEW blocked, start \notin blocked, start # goal
    PROVE  LET next == NextStep(start, goal, blocked)
               here == Priority(start)
               gap  == Priority(goal)
           IN  /\ next # Nowhere => /\ next \in ZoneCells
                                    /\ next \in Range(Neighbors(start))
                                    /\ next # start
                                    /\ next = goal \/ next \notin blocked
               /\ gap < here /\ (\A c \in ZoneCells : Priority(c) \in gap .. here => c \notin blocked)
                  => /\ next # Nowhere
                     /\ gap = here - 1 => next = goal
               /\ Straight /\ gap < here /\ next # Nowhere => Priority(next) = here - 1
<1> DEFINE N == Cardinality(ZoneCells)
           open == ZoneCells \ blocked
           w == Within(goal, open)
           lengths == {k \in 0 .. N : start \in w[k]}
           next == NextStep(start, goal, blocked)
           here == Priority(start)
           gap  == Priority(goal)
<1>1. N \in Nat /\ Len(zone.slots) <= N /\ Len(zone.slots) \in Nat
  BY ZoneFacts, Places
<1>2. /\ w[0] = {goal}
      /\ \A k \in 1 .. N :
             w[k] = w[k - 1] \cup {c \in open : Range(Neighbors(c)) \cap w[k - 1] # {}}
  <2> HIDE DEF open
  <2>1. QED  BY WithinIs
<1>3. \A k \in 0 .. N : w[k] \subseteq (ZoneCells \ blocked) \cup {goal}
  BY WithinIsOpen
<1>4. next = IF lengths = {} THEN Nowhere
             ELSE Neighbors(start)[Min({i \in 1 .. 4 : Neighbors(start)[i] \in w[Min(lengths) - 1]})]
  BY DEF NextStep
<1> HIDE DEF N, w, lengths, next
<1>5. ASSUME lengths # {}
      PROVE  /\ Min(lengths) \in 1 .. N
             /\ next \in w[Min(lengths) - 1]
             /\ next \in Range(Neighbors(start))
             /\ \A k \in lengths : Min(lengths) <= k
  <2>1. lengths \subseteq Nat  BY <1>1 DEF lengths
  <2> DEFINE m == Min(lengths)
  <2>2. m \in lengths /\ \A k \in lengths : m <= k  BY <1>5, <2>1, MinIsLeast
  <2> HIDE DEF m
  <2>3. m \in 0 .. N /\ start \in w[m]  BY <2>2 DEF lengths
  <2>4. m # 0  BY <1>2, <2>3
  <2>5. m \in 1 .. N /\ m - 1 \in 0 .. N /\ ~(m <= m - 1)  BY <1>1, <2>3, <2>4
  <2>6. start \notin w[m - 1]  BY <2>2, <2>5 DEF lengths
  <2>7. Range(Neighbors(start)) \cap w[m - 1] # {}  BY <1>2, <2>3, <2>5, <2>6
  <2>8. DOMAIN Neighbors(start) = 1 .. 4  BY DEF Neighbors
  <2> DEFINE I == {i \in 1 .. 4 : Neighbors(start)[i] \in w[m - 1]}
  <2>9. I # {} /\ I \subseteq Nat  BY <2>7, <2>8 DEF Range
  <2>10. Min(I) \in I  BY <2>9, MinIsLeast
  <2>11. next = Neighbors(start)[Min(I)]  BY <1>4, <1>5 DEF m
  <2> HIDE DEF I
  <2>12. Min(I) \in 1 .. 4 /\ Neighbors(start)[Min(I)] \in w[m - 1]  BY <2>10 DEF I
  <2>13. next \in Range(Neighbors(start)) /\ next \in w[m - 1]
    BY <2>8, <2>11, <2>12 DEF Range
  <2>14. QED  BY <2>2, <2>5, <2>13 DEF m
<1>6. next # Nowhere => /\ next \in ZoneCells
                        /\ next \in Range(Neighbors(start))
                        /\ next # start
                        /\ next = goal \/ next \notin blocked
  <2> SUFFICES ASSUME next # Nowhere
               PROVE  /\ next \in ZoneCells
                      /\ next \in Range(Neighbors(start))
                      /\ next # start
                      /\ next = goal \/ next \notin blocked
    OBVIOUS
  <2>1. lengths # {}  BY <1>4
  <2>2. Min(lengths) - 1 \in 0 .. N  BY <1>1, <1>5, <2>1
  <2>3. next \in (ZoneCells \ blocked) \cup {goal}  BY <1>3, <1>5, <2>1, <2>2
  <2>4. next \in ZoneCells /\ next \in Range(Neighbors(start))  BY <1>5, <2>1, <2>3
  <2>5. next # start
    <3>1. ZoneCells \subseteq Grid  BY ZoneFacts
    <3>2. QED  BY <2>4, <3>1, NeighborsSymmetric
  <2>6. QED  BY <2>3, <2>4, <2>5
<1>7. ASSUME gap < here,
             \A c \in ZoneCells : Priority(c) \in gap .. here => c \notin blocked
      PROVE  /\ next # Nowhere
             /\ gap = here - 1 => next = goal
  <2> DEFINE n == Len(zone.slots)
             Bad == {k \in 0 .. here - gap :
                         \E c \in ZoneCells : Priority(c) = gap + k /\ c \notin w[k]}
  <2>1. here \in 0 .. n /\ gap \in 0 .. n
    BY ZoneFacts
  <2> HIDE DEF here, gap, n
  <2>2. here - gap \in 1 .. n /\ here - gap \in 1 .. N /\ here \in Nat /\ gap \in Nat
    BY <1>1, <1>7, <2>1 DEF n
  <2>3. Bad = {}
    <3> SUFFICES ASSUME Bad # {} PROVE FALSE
      OBVIOUS
    <3>1. Bad \subseteq Nat  BY <2>2
    <3>2. PICK k \in Bad : \A j \in Bad : k <= j  BY <3>1, LeastNatural
    <3>3. PICK c \in ZoneCells : Priority(c) = gap + k /\ c \notin w[k]  BY <3>2
    <3>4. k \in 0 .. here - gap /\ k \in 0 .. N  BY <1>1, <2>2
    <3>5. k # 0
      <4> SUFFICES ASSUME k = 0 PROVE FALSE
        OBVIOUS
      <4>1. Priority(c) = Priority(goal)  BY <2>2, <3>3 DEF gap
      <4>2. c = goal  BY <4>1, ZoneFacts
      <4>3. QED  BY <1>2, <3>3, <4>2
    <3>6. k - 1 \in 0 .. here - gap /\ ~(k <= k - 1) /\ k \in 1 .. N  BY <2>2, <3>4, <3>5
    <3>7. Priority(c) \in gap .. here /\ Priority(c) # 0 /\ Priority(c) - 1 = gap + (k - 1)
          /\ Priority(c) - 1 + 1 = Priority(c)
      BY <2>2, <3>3, <3>4, <3>5
    <3>8. c \in ZoneCells \ blocked  BY <1>7, <3>7 DEF here, gap
    <3>9. c # Service  BY <3>7, Places
    <3> DEFINE ahead == zone.slots[Priority(c)]
    <3>10. Priority(c) - 1 \in Slots /\ ahead \in Range(Neighbors(c))  BY <3>9, StepAhead
    <3>11. ahead \in Range(zone.slots) /\ Priority(ahead) = Priority(c) - 1
      BY <3>7, <3>10, Places
    <3>12. ahead \in ZoneCells /\ Priority(ahead) = gap + (k - 1)  BY <3>7, <3>11, ZoneFacts
    <3>13. k - 1 \notin Bad  BY <3>2, <3>6
    <3> HIDE DEF ahead
    <3>14. ahead \in w[k - 1]  BY <3>6, <3>12, <3>13
    <3>15. c \in w[k]  BY <1>2, <3>6, <3>8, <3>10, <3>14 DEF ahead
    <3>16. QED  BY <3>3, <3>15
  <2>4. start \in w[here - gap]
    <3>1. here - gap \notin Bad /\ here - gap \in 0 .. here - gap /\ gap + (here - gap) = here
      BY <2>2, <2>3
    <3>2. Priority(start) = here  BY DEF here
    <3> HIDE DEF here, gap
    <3>3. QED  BY <3>1, <3>2
  <2>5. here - gap \in lengths  BY <1>1, <2>2, <2>4 DEF lengths
  <2>6. next \in ZoneCells
    <3>1. Min(lengths) - 1 \in 0 .. N  BY <1>1, <1>5, <2>5
    <3>2. QED  BY <1>3, <1>5, <2>5, <3>1
  <2>7. next # Nowhere  BY <2>6, ZoneFacts
  <2>8. ASSUME gap = here - 1 PROVE next = goal
    <3>1. here - gap = 1  BY <2>2, <2>8
    <3>2. Min(lengths) \in 1 .. N /\ Min(lengths) <= 1  BY <1>5, <2>5, <3>1
    <3>3. Min(lengths) - 1 = 0  BY <1>1, <3>2
    <3>4. QED  BY <1>2, <1>5, <2>5, <3>3
  <2>9. QED  BY <2>7, <2>8
(* A path that comes from a place beyond the start has come through it.     *)
<1>8. ASSUME Straight, gap < here, next # Nowhere
      PROVE  Priority(next) = here - 1
  <2> DEFINE m == Min(lengths)
             Bad == {j \in 0 .. m - 1 : \E c \in w[j] : ~(Priority(c) < here)}
  <2>1. /\ m \in 1 .. N /\ next \in w[m - 1] /\ next \in Range(Neighbors(start))
        /\ \A k \in lengths : m <= k
    BY <1>4, <1>5, <1>8
  <2> HIDE DEF m
  <2>2. \A c \in ZoneCells : Priority(c) \in Nat  BY <1>1, ZoneFacts
  <2>3. /\ here \in Nat /\ gap \in Nat
        /\ \A c, d \in ZoneCells :
               d \in Range(Neighbors(c)) => Priority(d) - Priority(c) \in {-1, 1}
        /\ \A c \in ZoneCells : Priority(c) = here => c = start
    BY <1>8, <2>2, ZoneFacts DEF Straight
  <2>4. \A j \in 0 .. m - 1 : j \in 0 .. N /\ w[j] \subseteq ZoneCells /\ start \notin w[j]
    <3> TAKE j \in 0 .. m - 1
    <3>1. j \in 0 .. N /\ ~(m <= j)  BY <1>1, <2>1
    <3>2. j \notin lengths  BY <2>1, <3>1
    <3>3. QED  BY <1>3, <3>1, <3>2 DEF lengths
  <2>5. Bad = {}
    <3> SUFFICES ASSUME Bad # {} PROVE FALSE
      OBVIOUS
    <3>1. Bad \subseteq Nat  BY <1>1, <2>1
    <3>2. PICK j \in Bad : \A i \in Bad : j <= i  BY <3>1, LeastNatural
    <3>3. PICK c \in w[j] : ~(Priority(c) < here)  BY <3>2
    <3>4. j \in 0 .. m - 1  BY <3>2
    <3>5. j # 0  BY <1>2, <1>8, <3>3
    <3>6. j \in 1 .. N /\ j - 1 \in 0 .. m - 1 /\ ~(j <= j - 1)  BY <1>1, <2>1, <3>4, <3>5
    <3>7. j - 1 \notin Bad  BY <3>2, <3>6
    <3>8. \A d \in w[j - 1] : Priority(d) < here /\ d \in ZoneCells
      BY <2>4, <3>6, <3>7
    <3>9. c \notin w[j - 1]  BY <3>3, <3>8
    <3>10. Range(Neighbors(c)) \cap w[j - 1] # {}  BY <1>2, <3>3, <3>6, <3>9
    <3>11. PICK d \in w[j - 1] : d \in Range(Neighbors(c))  BY <3>10
    <3>12. c \in ZoneCells /\ c # start  BY <2>4, <3>3, <3>4
    <3>13. Priority(c) \in Nat /\ Priority(d) \in Nat /\ Priority(d) < here
           /\ Priority(d) - Priority(c) \in {-1, 1} /\ Priority(c) # here
      BY <2>2, <2>3, <3>8, <3>11, <3>12
    <3> HIDE DEF here
    <3>14. QED  BY <2>3, <3>3, <3>13
  <2>6. m - 1 \in 0 .. m - 1  BY <1>1, <2>1
  <2>7. Priority(next) < here /\ next \in ZoneCells  BY <2>1, <2>4, <2>5, <2>6
  <2>8. Priority(next) \in Nat /\ Priority(next) - here \in {-1, 1}  BY <2>1, <2>2, <2>3, <2>7
  <2> HIDE DEF here
  <2>9. QED  BY <2>3, <2>7, <2>8
<1>9. QED  BY <1>6, <1>7, <1>8 DEF next

-----------------------------------------------------------------------------
(* The cascade. Turns really is the function its definition describes.      *)
LEMMA TurnsAre ==
    ASSUME Cardinality(Queuers) \in Nat
    PROVE  /\ Turns[0] = [position |-> position, slot |-> slot, claimed |-> {}, left |-> Queuers]
           /\ \A k \in 1 .. Cardinality(Queuers) :
                  LET now == Turns[k - 1]
                      r   == Foremost(now.left)
                  IN  Turns[k] = [Turn(now, r) EXCEPT !.left = now.left \ {r}]
<1> DEFINE N == Cardinality(Queuers)
           Start == [position |-> position, slot |-> slot, claimed |-> {}, left |-> Queuers]
           After(now) == [Turn(now, Foremost(now.left)) EXCEPT !.left = now.left \ {Foremost(now.left)}]
           State(g, k) == IF k = 0 THEN Start ELSE After(g[k - 1])
           Exists(m) == \E g : g = [k \in 0 .. m |-> State(g, k)]
           Bad == {m \in Nat : ~Exists(m)}
<1>1. N \in Nat  OBVIOUS
<1> HIDE DEF N, Start, After
<1>2. Exists(0)
  <2>1. [k \in 0 .. 0 |-> Start] = [k \in 0 .. 0 |-> State([l \in 0 .. 0 |-> Start], k)]
    OBVIOUS
  <2>2. QED  BY <2>1
<1>3. ASSUME NEW m \in Nat, Exists(m) PROVE Exists(m + 1)
  <2>1. PICK g : g = [k \in 0 .. m |-> State(g, k)]  BY <1>3
  <2> DEFINE h == [k \in 0 .. m + 1 |-> State(g, k)]
  <2>2. ASSUME NEW k \in 0 .. m + 1 PROVE State(g, k) = State(h, k)
    <3>1. CASE k = 0  BY <3>1
    <3>2. CASE k # 0
      <4>1. k - 1 \in 0 .. m /\ k - 1 \in 0 .. m + 1  BY <3>2
      <4>2. h[k - 1] = State(g, k - 1) /\ g[k - 1] = State(g, k - 1)  BY <2>1, <4>1
      <4>3. QED  BY <3>2, <4>2
    <3>3. QED  BY <3>1, <3>2
  <2>3. h = [k \in 0 .. m + 1 |-> State(h, k)]  BY <2>2
  <2>4. QED  BY <2>3
<1>4. Bad = {}
  <2> SUFFICES ASSUME Bad # {} PROVE FALSE
    OBVIOUS
  <2> HIDE DEF Exists
  <2>1. PICK m \in Bad : \A k \in Bad : m <= k  BY LeastNatural
  <2>2. m \in Nat /\ ~Exists(m) /\ m # 0  BY <1>2
  <2>3. m - 1 \in Nat /\ m - 1 + 1 = m /\ ~(m <= m - 1)  BY <2>2
  <2>4. Exists(m - 1)  BY <2>1, <2>3
  <2>5. QED  BY <1>3, <2>2, <2>3, <2>4
<1>5. Exists(N)  BY <1>1, <1>4
<1>6. Turns = CHOOSE g : g = [k \in 0 .. N |-> State(g, k)]  BY DEF Turns, N, Start, After
<1>7. Turns = [k \in 0 .. N |-> State(Turns, k)]  BY <1>5, <1>6
<1>8. Turns[0] = Start  BY <1>1, <1>7
<1>9. \A k \in 1 .. N : Turns[k] = After(Turns[k - 1])
  <2> TAKE k \in 1 .. N
  <2>1. k \in 0 .. N /\ k # 0  OBVIOUS
  <2>2. Turns[k] = State(Turns, k)  BY <1>7, <2>1
  <2>3. QED  BY <2>1, <2>2
<1>10. QED  BY <1>8, <1>9 DEF N, Start, After

(* Among some robots in the zone there is one whose turn comes first.       *)
LEMMA ForemostIsFirst ==
    ASSUME Sound(zone), position \in [Robots -> Cells], NEW left \in SUBSET Robots, left # {},
           \A r \in left : position[r] \in ZoneCells
    PROVE  /\ Foremost(left) \in left
           /\ \A s \in left \ {Foremost(left)} : Before(Foremost(left), s)
<1> DEFINE rank(r) == Priority(position[r])
           ranks == {rank(r) : r \in left}
<1>1. \A r \in left : rank(r) \in Nat
  <2>1. \A c \in ZoneCells : Priority(c) \in 0 .. Len(zone.slots)  BY ZoneFacts
  <2>2. QED  BY <2>1
<1> HIDE DEF rank
<1>2. ranks \subseteq Nat /\ ranks # {}  BY <1>1
<1>3. PICK k \in ranks : \A l \in ranks : k <= l  BY <1>2, LeastNatural
<1> DEFINE front == {r \in left : rank(r) = k}
<1>4. front \subseteq Nat /\ front # {}  BY RobotsAssumption
<1>5. PICK r \in front : \A s \in front : r <= s  BY <1>4, LeastNatural
<1>6. r \in left /\ \A s \in left \ {r} : Before(r, s)
  <2>1. r \in left /\ rank(r) = k /\ r \in Nat  BY <1>4
  <2>2. ASSUME NEW s \in left \ {r} PROVE Before(r, s)
    <3>1. rank(s) \in Nat /\ k <= rank(s) /\ k \in Nat  BY <1>1, <1>2, <1>3
    <3>2. CASE rank(s) = k
      <4>1. s \in front /\ s \in Nat  BY <1>4, <3>2
      <4>2. r < s  BY <1>5, <2>1, <4>1
      <4>3. QED  BY <2>1, <3>2, <4>2 DEF Before, rank
    <3>3. CASE rank(s) # k
      <4>1. rank(r) < rank(s)  BY <2>1, <3>1, <3>3
      <4>2. QED  BY <4>1 DEF Before, rank
    <3>4. QED  BY <3>2, <3>3
  <2>3. QED  BY <2>1, <2>2
<1>7. QED  BY <1>6 DEF Foremost

(* What holds throughout a cascade. The floor and the slots agree, no two   *)
(* robots share a cell, those that do not queue stay where they are, and so *)
(* do those still to come.                                                  *)
TurnState == [position : [Robots -> Cells], slot : [Slots -> Robots \cup {Nobody}],
              claimed : SUBSET Slots, left : SUBSET Queuers]

Tidy(now) ==
    /\ now \in TurnState
    /\ \A p \in Slots : now.slot[p] # Nobody => now.position[now.slot[p]] = zone.slots[p + 1]
    /\ \A r \in Robots : now.position[r] \in Range(zone.slots) =>
                             now.slot[Priority(now.position[r])] = r
    /\ \A r, s \in Robots : now.position[r] = now.position[s] /\ now.position[r] # Nowhere => r = s
    /\ \A r \in Robots \ Queuers : now.position[r] = position[r]
    /\ \A r \in Queuers : now.position[r] \in ZoneCells
    /\ \A r \in now.left : now.position[r] = position[r]

Ahead(now, r) == {p \in Slots : /\ p < Priority(now.position[r])
                                /\ now.slot[p] = Nobody /\ p \notin now.claimed}

(* A turn moves nobody, or it moves the robot to a cell nobody stands on,   *)
(* in which case there was a free slot ahead of it.                         *)
StaysPut(now, then) == then.position = now.position /\ then.slot = now.slot

MovesTo(now, then, r, next) ==
    /\ next \in ZoneCells /\ next \notin Occupied(now.position)
    /\ then.position = [now.position EXCEPT ![r] = next]
    /\ then.slot = [p \in Slots |-> IF next = zone.slots[p + 1] THEN r
                                    ELSE IF now.slot[p] = r THEN Nobody
                                    ELSE now.slot[p]]

LEMMA TurnIs ==
    ASSUME Sound(zone), NEW now, Tidy(now), NEW r \in Queuers
    PROVE  LET then == Turn(now, r)
               goal == zone.slots[Min(Ahead(now, r)) + 1]
               next == NextStep(now.position[r], goal,
                                Occupied(now.position) \ {now.position[r]})
           IN  /\ then.left = now.left
               /\ DOMAIN then = DOMAIN now
               /\ then = [position |-> then.position, slot |-> then.slot,
                          claimed |-> then.claimed, left |-> then.left]
               /\ then.claimed \subseteq Slots
               /\ StaysPut(now, then) \/ MovesTo(now, then, r, next)
               /\ now.position[r] = Service \/ Ahead(now, r) = {} => then = now
               /\ now.position[r] # Service /\ Ahead(now, r) # {} /\ next # Nowhere
                      => MovesTo(now, then, r, next)
<1> DEFINE here    == now.position[r]
           targets == Ahead(now, r)
           goal    == zone.slots[Min(targets) + 1]
           blocked == Occupied(now.position) \ {here}
           next    == NextStep(here, goal, blocked)
           taken   == /\ next \in Occupied(now.position)
                      /\ \/ next \notin Range(zone.slots)
                         \/ now.slot[Priority(next)] # Nobody
           then    == Turn(now, r)
<1>1. /\ now = [position |-> now.position, slot |-> now.slot,
                claimed |-> now.claimed, left |-> now.left]
      /\ now.position \in [Robots -> Cells]
      /\ now.slot \in [Slots -> Robots \cup {Nobody}]
      /\ now.claimed \subseteq Slots
      /\ DOMAIN now = {"position", "slot", "claimed", "left"}
  BY DEF Tidy, TurnState
<1>2. r \in Robots /\ here \in ZoneCells  BY DEF Tidy, Queuers
<1>3. then = IF here = Service \/ targets = {} THEN now
             ELSE IF next = Nowhere \/ taken
                  THEN [now EXCEPT !.claimed = now.claimed \cup {Min(targets)}]
             ELSE [now EXCEPT !.claimed = now.claimed \cup {Min(targets)},
                              !.position = [now.position EXCEPT ![r] = next],
                              !.slot = [p \in Slots |-> IF next = zone.slots[p + 1] THEN r
                                                        ELSE IF now.slot[p] = r THEN Nobody
                                                        ELSE now.slot[p]]]
  BY DEF Turn, Ahead
<1>4. CASE here = Service \/ targets = {}
  <2>1. then = now  BY <1>3, <1>4
  <2>2. QED  BY <1>1, <1>4, <2>1 DEF StaysPut
<1>5. CASE here # Service /\ targets # {}
  <2>1. Min(targets) \in targets /\ Min(targets) \in Slots
    <3>1. targets \subseteq Slots /\ Slots \subseteq Nat  BY Places DEF Ahead
    <3>2. QED  BY <1>5, <3>1, MinIsLeast
  <2>2. now.slot[Min(targets)] = Nobody  BY <2>1 DEF Ahead
  <2>3. goal \in Range(zone.slots) /\ Priority(goal) = Min(targets) /\ goal \in ZoneCells
    BY <2>1, Places, ZoneFacts
  <2>4. here # goal
    <3> SUFFICES ASSUME here = goal PROVE FALSE
      OBVIOUS
    <3>1. now.slot[Priority(goal)] = r  BY <1>2, <2>3 DEF Tidy
    <3>2. QED  BY <1>2, <2>2, <2>3, <3>1, RobotsAssumption
  <2>5. here \notin blocked  OBVIOUS
  <2>6. next # Nowhere => /\ next \in ZoneCells
                          /\ next # here
                          /\ next = goal \/ next \notin blocked
    BY <1>2, <2>3, <2>4, <2>5, NextStepIs
  <2>7. goal \notin Occupied(now.position)
    <3> SUFFICES ASSUME NEW s \in Robots, now.position[s] = goal PROVE FALSE
      BY DEF Occupied
    <3>1. now.slot[Priority(goal)] = s  BY <2>3 DEF Tidy
    <3>2. QED  BY <2>2, <2>3, <3>1, RobotsAssumption
  <2>8. next # Nowhere => next \notin Occupied(now.position)  BY <2>6, <2>7
  <2> DEFINE claimed == now.claimed \cup {Min(targets)}
             moved   == [now.position EXCEPT ![r] = next]
             owned   == [p \in Slots |-> IF next = zone.slots[p + 1] THEN r
                                         ELSE IF now.slot[p] = r THEN Nobody
                                         ELSE now.slot[p]]
  <2>9. claimed \subseteq Slots  BY <1>1, <2>1
  <2>10. CASE next = Nowhere
    <3>1. then = [now EXCEPT !.claimed = claimed]  BY <1>3, <1>5, <2>10
    <3> HIDE DEF then, targets, next, claimed, here
    <3>2. /\ then.position = now.position /\ then.slot = now.slot /\ then.left = now.left
          /\ then.claimed = claimed /\ DOMAIN then = DOMAIN now
          /\ then = [position |-> then.position, slot |-> then.slot,
                     claimed |-> then.claimed, left |-> then.left]
      BY <1>1, <3>1
    <3>3. QED  BY <1>5, <2>9, <2>10, <3>2 DEF StaysPut, then, targets, next, here
  <2>11. CASE next # Nowhere
    <3>1. then = [now EXCEPT !.claimed = claimed, !.position = moved, !.slot = owned]
      BY <1>3, <1>5, <2>8, <2>11
    <3>2. next \in ZoneCells /\ next \notin Occupied(now.position)  BY <2>6, <2>8, <2>11
    <3> HIDE DEF then, targets, next, claimed, here, moved, owned
    <3>3. /\ then.position = moved /\ then.slot = owned /\ then.left = now.left
          /\ then.claimed = claimed /\ DOMAIN then = DOMAIN now
          /\ then = [position |-> then.position, slot |-> then.slot,
                     claimed |-> then.claimed, left |-> then.left]
      BY <1>1, <3>1
    <3>4. MovesTo(now, then, r, next)  BY <3>2, <3>3 DEF MovesTo, moved, owned
    <3>5. QED  BY <1>5, <2>9, <3>3, <3>4 DEF then, targets, next, here
  <2>12. QED  BY <2>10, <2>11
<1>6. QED  BY <1>4, <1>5

(* The inductive invariant: the checked ones, and where robots on their way *)
(* in stand.                                                                *)
ArrivalsStand ==
    \A r \in Robots :
        /\ status[r] = "arrived" => position[r] = zone.entry /\ zone.entry # Nowhere
        /\ status[r] = "queuing" => position[r] # Nowhere

ZoneInv == TypeOK /\ SlotsMatchFloor /\ OneRobotPerCell /\ ArrivalsStand

LEMMA QueuersAre ==
    ASSUME ZoneInv
    PROVE  /\ Sound(zone)
           /\ Queuers = {r \in Robots : status[r] = "queuing"}
           /\ \A r \in Queuers : position[r] \in ZoneCells \ {Service}
           /\ IsFiniteSet(Queuers) /\ Cardinality(Queuers) \in Nat
<1>1. Sound(zone)  BY ZonesAreSound DEF ZoneInv, TypeOK
<1>2. ASSUME NEW r \in Robots, status[r] = "queuing"
      PROVE  r \in Queuers /\ position[r] \in ZoneCells \ {Service}
  <2>1. position[r] \in (Range(zone.slots) \cup {zone.entry}) \ {Service} /\ position[r] # Nowhere
    BY <1>2 DEF ZoneInv, SlotsMatchFloor, ArrivalsStand
  <2>2. CASE position[r] \in Range(zone.slots)
    <3>1. slot[Priority(position[r])] = r  BY <2>2 DEF ZoneInv, SlotsMatchFloor
    <3>2. Priority(position[r]) \in Slots  BY <1>1, <2>2, Places
    <3>3. QED  BY <1>2, <2>1, <2>2, <3>1, <3>2 DEF Queuers, ZoneCells
  <2>3. CASE position[r] = zone.entry
    BY <1>2, <2>1, <2>3 DEF Queuers, ZoneCells
  <2>4. QED  BY <2>1, <2>2, <2>3
<1>3. Queuers = {r \in Robots : status[r] = "queuing"}  BY <1>2 DEF Queuers
<1>4. IsFiniteSet(Queuers)  BY RobotsAssumption, FS_Subset DEF Queuers
<1>5. Cardinality(Queuers) \in Nat  BY <1>4, FS_CardinalityType
<1>6. QED  BY <1>1, <1>2, <1>3, <1>4, <1>5

LEMMA StartIsTidy ==
    ASSUME ZoneInv
    PROVE  Tidy([position |-> position, slot |-> slot, claimed |-> {}, left |-> Queuers])
<1> DEFINE now == [position |-> position, slot |-> slot, claimed |-> {}, left |-> Queuers]
<1>1. now.position = position /\ now.slot = slot /\ now.left = Queuers  OBVIOUS
<1>2. now \in TurnState  BY DEF TurnState, ZoneInv, TypeOK
<1> HIDE DEF now
<1>3. /\ \A p \in Slots : now.slot[p] # Nobody => now.position[now.slot[p]] = zone.slots[p + 1]
      /\ \A r \in Robots : now.position[r] \in Range(zone.slots) =>
                               now.slot[Priority(now.position[r])] = r
  BY <1>1 DEF ZoneInv, SlotsMatchFloor
<1>4. \A r, s \in Robots : now.position[r] = now.position[s] /\ now.position[r] # Nowhere => r = s
  BY <1>1 DEF ZoneInv, OneRobotPerCell
<1>5. \A r \in Queuers : position[r] \in ZoneCells  BY QueuersAre
<1>6. Tidy(now)  BY <1>1, <1>2, <1>3, <1>4, <1>5 DEF Tidy
<1>7. QED  BY <1>6 DEF now

LEMMA TurnKeepsTidy ==
    ASSUME Sound(zone), NEW now, Tidy(now), NEW r \in now.left
    PROVE  LET then == [Turn(now, r) EXCEPT !.left = now.left \ {r}]
               next == NextStep(now.position[r], zone.slots[Min(Ahead(now, r)) + 1],
                                Occupied(now.position) \ {now.position[r]})
           IN  /\ Tidy(then)
               /\ then.left = now.left \ {r}
               /\ StaysPut(now, then) \/ MovesTo(now, then, r, next)
               /\ now.position[r] = Service \/ Ahead(now, r) = {}
                      => StaysPut(now, then) /\ then.claimed = now.claimed
               /\ now.position[r] # Service /\ Ahead(now, r) # {} /\ next # Nowhere
                      => MovesTo(now, then, r, next)
<1> DEFINE turn == Turn(now, r)
           then == [turn EXCEPT !.left = now.left \ {r}]
           next == NextStep(now.position[r], zone.slots[Min(Ahead(now, r)) + 1],
                            Occupied(now.position) \ {now.position[r]})
<1>1. /\ now.position \in [Robots -> Cells]
      /\ now.slot \in [Slots -> Robots \cup {Nobody}]
      /\ now.claimed \subseteq Slots /\ now.left \subseteq Queuers
      /\ r \in Queuers /\ r \in Robots /\ Queuers \subseteq Robots
  BY DEF Tidy, TurnState, Queuers
<1>2. /\ turn.left = now.left
      /\ turn = [position |-> turn.position, slot |-> turn.slot,
                 claimed |-> turn.claimed, left |-> turn.left]
      /\ turn.claimed \subseteq Slots
      /\ StaysPut(now, turn) \/ MovesTo(now, turn, r, next)
      /\ now.position[r] = Service \/ Ahead(now, r) = {} => turn = now
      /\ now.position[r] # Service /\ Ahead(now, r) # {} /\ next # Nowhere
             => MovesTo(now, turn, r, next)
  BY <1>1, TurnIs
<1> HIDE DEF turn, next
<1>3. /\ then.position = turn.position /\ then.slot = turn.slot
      /\ then.claimed = turn.claimed /\ then.left = now.left \ {r}
      /\ then = [position |-> then.position, slot |-> then.slot,
                 claimed |-> then.claimed, left |-> then.left]
  BY <1>2
<1> HIDE DEF then
<1>4. /\ StaysPut(now, then) \/ MovesTo(now, then, r, next)
      /\ now.position[r] = Service \/ Ahead(now, r) = {}
             => StaysPut(now, then) /\ then.claimed = now.claimed
      /\ now.position[r] # Service /\ Ahead(now, r) # {} /\ next # Nowhere
             => MovesTo(now, then, r, next)
  BY <1>2, <1>3 DEF StaysPut, MovesTo
<1>5. CASE StaysPut(now, then)
  <2>1. then \in TurnState  BY <1>1, <1>2, <1>3, <1>5 DEF TurnState, StaysPut
  <2>2. Tidy(then)  BY <1>1, <1>3, <1>5, <2>1 DEF Tidy, StaysPut
  <2>3. QED  BY <1>3, <1>4, <2>2 DEF then, turn, next
<1>6. CASE MovesTo(now, then, r, next)
  <2>1. /\ next \in ZoneCells /\ next \notin Occupied(now.position)
        /\ then.position = [now.position EXCEPT ![r] = next]
        /\ then.slot = [p \in Slots |-> IF next = zone.slots[p + 1] THEN r
                                        ELSE IF now.slot[p] = r THEN Nobody
                                        ELSE now.slot[p]]
    BY <1>6 DEF MovesTo
  <2>2. next # Nowhere /\ \A s \in Robots : now.position[s] # next
    <3>1. next # Nowhere  BY <2>1, ZoneFacts
    <3>2. QED  BY <2>1, <3>1 DEF Occupied
  <2>3. next \in Cells  BY <2>1 DEF ZoneCells, Cells
  <2>4. then \in TurnState
    <3>1. then.position \in [Robots -> Cells]  BY <1>1, <2>1, <2>3
    <3>2. then.slot \in [Slots -> Robots \cup {Nobody}]  BY <1>1, <2>1
    <3>3. QED  BY <1>1, <1>2, <1>3, <3>1, <3>2 DEF TurnState
  <2>5. /\ then.position[r] = next
        /\ \A s \in Robots \ {r} : then.position[s] = now.position[s]
    BY <1>1, <2>1
  <2>6. ASSUME NEW p \in Slots, then.slot[p] # Nobody
        PROVE  then.position[then.slot[p]] = zone.slots[p + 1]
    <3>1. CASE next = zone.slots[p + 1]  BY <2>1, <2>5, <3>1
    <3>2. CASE next # zone.slots[p + 1]
      <4>1. then.slot[p] = now.slot[p] /\ now.slot[p] \in Robots \ {r}
        BY <1>1, <2>1, <2>6, <3>2
      <4>2. now.position[now.slot[p]] = zone.slots[p + 1]  BY <4>1, RobotsAssumption DEF Tidy
      <4>3. QED  BY <2>5, <4>1, <4>2
    <3>3. QED  BY <3>1, <3>2
  <2>7. ASSUME NEW s \in Robots, then.position[s] \in Range(zone.slots)
        PROVE  then.slot[Priority(then.position[s])] = s
    <3> DEFINE p == Priority(then.position[s])
    <3>1. p \in Slots /\ zone.slots[p + 1] = then.position[s]  BY <2>7, Places
    <3>2. CASE s = r  BY <2>1, <2>5, <3>1, <3>2
    <3>3. CASE s # r
      <4>1. then.position[s] = now.position[s] /\ now.slot[p] = s
        BY <2>5, <2>7, <3>3 DEF Tidy
      <4>2. next # zone.slots[p + 1]  BY <2>2, <3>1, <4>1
      <4>3. QED  BY <2>1, <3>1, <3>3, <4>1, <4>2
    <3>4. QED  BY <3>2, <3>3
  <2>8. ASSUME NEW s \in Robots, NEW t \in Robots,
               then.position[s] = then.position[t], then.position[s] # Nowhere
        PROVE  s = t
    <3>1. CASE s = r /\ t # r  BY <2>2, <2>5, <2>8, <3>1
    <3>2. CASE s # r /\ t = r  BY <2>2, <2>5, <2>8, <3>2
    <3>3. CASE s # r /\ t # r  BY <2>5, <2>8, <3>3 DEF Tidy
    <3>4. QED  BY <3>1, <3>2, <3>3
  <2>9. \A s \in Robots \ Queuers : then.position[s] = position[s]
    BY <1>1, <2>5 DEF Tidy
  <2>10. \A s \in Queuers : then.position[s] \in ZoneCells
    BY <1>1, <2>1, <2>5 DEF Tidy
  <2>11. \A s \in then.left : then.position[s] = position[s]
    BY <1>1, <1>3, <2>5 DEF Tidy
  <2>12. Tidy(then)  BY <2>4, <2>6, <2>7, <2>8, <2>9, <2>10, <2>11 DEF Tidy
  <2>13. QED  BY <1>3, <1>4, <2>12 DEF then, turn, next
<1>7. QED  BY <1>4, <1>5, <1>6

(* A robot with no free slot ahead is stuck. Of the others the one in front *)
(* leads: it finds the floor as it was before the cascade and moves, and    *)
(* from the place next to the service cell it moves onto that. Where the    *)
(* zone is straight whoever moves does so by one place.                     *)
Place(r) == Priority(position[r])
Stuck(r) == \A p \in Slots : p < Place(r) => slot[p] # Nobody
Leader(r) ==
    /\ r \in Queuers /\ ~Stuck(r)
    /\ \A s \in Queuers : ~Stuck(s) => Place(r) <= Place(s)

Kept(now) ==
    /\ \A r \in Queuers : Stuck(r) => now.position[r] = position[r]
    /\ \A r \in Queuers : Leader(r) /\ r \in now.left =>
           now.position = position /\ now.slot = slot /\ now.claimed = {}
    /\ \A r \in Queuers : Leader(r) /\ r \notin now.left =>
           /\ now.position[r] # position[r]
           /\ Place(r) = 1 => now.position[r] = Service
    /\ Straight => \A r \in Queuers : Priority(now.position[r]) \in {Place(r), Place(r) - 1}

LEMMA PlacesOfQueuers ==
    ASSUME ZoneInv
    PROVE  /\ \A r \in Queuers : /\ r \in Robots /\ position[r] \in ZoneCells
                                 /\ Place(r) \in 1 .. Len(zone.slots)
           /\ \A r, s \in Queuers : Place(r) = Place(s) => r = s
           /\ \A r, s \in Queuers : Leader(r) /\ Leader(s) => r = s
<1>1. Sound(zone) /\ \A r \in Queuers : position[r] \in ZoneCells \ {Service}
  BY QueuersAre
<1>2. ASSUME NEW r \in Queuers
      PROVE  /\ r \in Robots /\ position[r] \in ZoneCells
             /\ Place(r) \in 1 .. Len(zone.slots)
  <2>1. r \in Robots /\ position[r] \in ZoneCells \ {Service}  BY <1>1 DEF Queuers
  <2>2. Service \in ZoneCells /\ Priority(Service) = 0 /\ Len(zone.slots) \in Nat
    BY <1>1, Places, ZoneFacts
  <2>3. Place(r) \in 0 .. Len(zone.slots) /\ Place(r) # 0
    BY <1>1, <2>1, <2>2, ZoneFacts DEF Place
  <2>4. QED  BY <2>1, <2>2, <2>3
<1>3. ASSUME NEW r \in Queuers, NEW s \in Queuers, Place(r) = Place(s) PROVE r = s
  <2>1. position[r] = position[s] /\ position[r] # Nowhere
    BY <1>1, <1>2, <1>3, ZoneFacts DEF Place
  <2>2. QED  BY <1>2, <2>1 DEF ZoneInv, OneRobotPerCell
<1>4. ASSUME NEW r \in Queuers, NEW s \in Queuers, Leader(r), Leader(s) PROVE r = s
  <2>1. Place(r) <= Place(s) /\ Place(s) <= Place(r)  BY <1>4 DEF Leader
  <2>2. Place(r) = Place(s)  BY <1>2, <2>1
  <2>3. QED  BY <1>3, <2>2
<1>5. QED  BY <1>2, <1>3, <1>4

(* Nothing is free ahead of a stuck robot when its turn comes either.       *)
LEMMA StuckHasNoTarget ==
    ASSUME ZoneInv, NEW now, Tidy(now), Kept(now), NEW r \in now.left, Stuck(r)
    PROVE  Ahead(now, r) = {}
<1>1. Sound(zone) /\ r \in Queuers /\ now.position[r] = position[r]
  BY QueuersAre DEF Tidy, TurnState
<1> SUFFICES ASSUME NEW p \in Ahead(now, r) PROVE FALSE
  OBVIOUS
<1>2. p \in Slots /\ p < Place(r) /\ now.slot[p] = Nobody  BY <1>1 DEF Ahead, Place
<1> DEFINE s == slot[p]
<1>3. s \in Robots /\ position[s] = zone.slots[p + 1]
  BY <1>2 DEF Stuck, ZoneInv, TypeOK, SlotsMatchFloor
<1>4. position[s] \in Range(zone.slots) /\ Priority(position[s]) = p
  BY <1>1, <1>2, <1>3, Places
<1>5. now.position[s] = position[s]
  <2>1. CASE s \notin Queuers  BY <1>3, <2>1 DEF Tidy
  <2>2. CASE s \in Queuers
    <3>1. Place(s) = p /\ Place(r) \in Nat /\ Slots \subseteq Nat
      BY <1>1, <1>4, Places, PlacesOfQueuers DEF Place
    <3>2. Stuck(s)  BY <1>2, <3>1 DEF Stuck
    <3>3. QED  BY <2>2, <3>2 DEF Kept
  <2>3. QED  BY <2>1, <2>2
<1>6. now.slot[p] = s  BY <1>3, <1>4, <1>5 DEF Tidy
<1>7. QED  BY <1>2, <1>3, <1>6, RobotsAssumption

(* Nobody stands between the leader and the first free slot.                *)
LEMMA WayOfLeader ==
    ASSUME ZoneInv, NEW r \in Queuers, Leader(r),
           NEW f \in Slots, f < Place(r), slot[f] = Nobody,
           NEW c \in ZoneCells, Priority(c) \in f .. Place(r)
    PROVE  c \notin Occupied(position) \ {position[r]}
<1> SUFFICES ASSUME NEW s \in Robots, position[s] = c, c # position[r] PROVE FALSE
  BY DEF Occupied
<1>1. Sound(zone) /\ r \in Robots /\ position[r] \in ZoneCells
      /\ Place(r) \in 1 .. Len(zone.slots) /\ Len(zone.slots) \in Nat
      /\ Slots = 0 .. Len(zone.slots) - 1 /\ f \in Nat
  BY QueuersAre, PlacesOfQueuers, Places
<1>2. Priority(c) # Place(r)  BY <1>1, ZoneFacts DEF Place
<1>3. Priority(c) < Place(r) /\ Priority(c) \in Nat  BY <1>1, <1>2
<1>4. c \in Range(zone.slots)
  <2>1. Priority(c) # Len(zone.slots)  BY <1>1, <1>3
  <2>2. QED  BY <1>1, <2>1, Places
<1>5. slot[Priority(c)] = s  BY <1>4 DEF ZoneInv, SlotsMatchFloor
<1>6. Priority(c) # f  BY <1>5, RobotsAssumption
<1>7. f < Priority(c)  BY <1>1, <1>3, <1>6
<1>8. c # Service
  <2>1. Priority(c) # 0  BY <1>1, <1>3, <1>7
  <2>2. QED  BY <1>1, <2>1, Places
<1>9. status[s] = "queuing"
  <2>1. status[s] \in {"away", "arrived", "queuing", "delivering", "exiting", "exited"}
    BY DEF ZoneInv, TypeOK
  <2>2. status[s] \notin {"delivering", "exiting", "away", "arrived", "exited"}
    BY <1>4, <1>8 DEF ZoneInv, SlotsMatchFloor
  <2>3. QED  BY <2>1, <2>2
<1>10. s \in Queuers  BY <1>9, QueuersAre
<1>11. ~Stuck(s)  BY <1>7 DEF Stuck, Place
<1>12. Place(r) <= Place(s) /\ Place(s) = Priority(c)  BY <1>10, <1>11 DEF Leader, Place
<1>13. QED  BY <1>1, <1>3, <1>12

LEMMA LeaderMoves ==
    ASSUME ZoneInv, NEW now, Tidy(now), Kept(now), NEW r \in now.left, Leader(r)
    PROVE  LET next == NextStep(now.position[r], zone.slots[Min(Ahead(now, r)) + 1],
                                Occupied(now.position) \ {now.position[r]})
           IN  /\ now.position[r] # Service /\ Ahead(now, r) # {}
               /\ next # Nowhere /\ next # position[r]
               /\ Place(r) = 1 => next = Service
<1> DEFINE ahead == Ahead(now, r)
           f == Min(ahead)
           goal == zone.slots[f + 1]
           blocked == Occupied(position) \ {position[r]}
           next == NextStep(position[r], goal, blocked)
<1>1. /\ Sound(zone) /\ r \in Queuers /\ now.position = position /\ now.slot = slot
      /\ now.claimed = {}
  BY QueuersAre DEF Kept, Leader
<1>2. /\ position[r] \in ZoneCells /\ Place(r) \in 1 .. Len(zone.slots)
      /\ Slots = 0 .. Len(zone.slots) - 1 /\ Len(zone.slots) \in Nat
      /\ position[r] # Service
  BY <1>1, PlacesOfQueuers, Places, QueuersAre
<1>3. ahead = {p \in Slots : p < Place(r) /\ slot[p] = Nobody}
  BY <1>1 DEF Ahead, Place
<1>4. ahead # {}  BY <1>3 DEF Leader, Stuck
<1>5. ahead \subseteq Nat  BY <1>2, <1>3
<1>6. f \in ahead  BY <1>4, <1>5, MinIsLeast
<1> HIDE DEF ahead, f
<1>7. f \in Slots /\ f < Place(r) /\ slot[f] = Nobody /\ f \in Nat  BY <1>2, <1>3, <1>6
<1>8. goal \in ZoneCells /\ Priority(goal) = f  BY <1>1, <1>7, Places, ZoneFacts
<1> HIDE DEF goal
<1>9. goal # position[r]  BY <1>2, <1>7, <1>8 DEF Place
<1>10. \A c \in ZoneCells : Priority(c) \in Priority(goal) .. Priority(position[r]) => c \notin blocked
  BY <1>1, <1>7, <1>8, WayOfLeader DEF Place
<1>11. position[r] \notin blocked  OBVIOUS
<1> HIDE DEF blocked, next
<1>12. /\ next # Nowhere => next # position[r]
       /\ Priority(goal) < Priority(position[r])
              => next # Nowhere /\ (Priority(goal) = Priority(position[r]) - 1 => next = goal)
  <2> DEFINE start == position[r]
  <2>1. start \in ZoneCells /\ start \notin blocked /\ start # goal
    BY <1>2, <1>9, <1>11
  <2>2. \A c \in ZoneCells : Priority(c) \in Priority(goal) .. Priority(start) => c \notin blocked
    BY <1>10
  <2>3. next = NextStep(start, goal, blocked)  BY DEF next
  <2> HIDE DEF start
  <2>4. /\ next # Nowhere => next # start
        /\ Priority(goal) < Priority(start)
               => next # Nowhere /\ (Priority(goal) = Priority(start) - 1 => next = goal)
    BY ONLY <1>1, <1>8, <2>1, <2>2, <2>3, NextStepIs
  <2>5. QED  BY <2>4 DEF start
<1>13. Place(r) = 1 => goal = Service
  <2>1. Place(r) = 1 => f = 0  BY <1>7
  <2>2. QED  BY <1>1, <2>1, Places DEF goal
<1>14. Place(r) = 1 => Priority(goal) = Priority(position[r]) - 1  BY <1>7, <1>8 DEF Place
<1>15. next # Nowhere /\ next # position[r] /\ (Place(r) = 1 => next = Service)
  BY <1>7, <1>8, <1>12, <1>13, <1>14 DEF Place
<1>16. now.position[r] # Service /\ Ahead(now, r) # {}  BY <1>1, <1>2, <1>4 DEF ahead
<1>17. QED  BY <1>1, <1>15, <1>16 DEF next, goal, blocked, f, ahead

LEMMA MoverStepsUp ==
    ASSUME ZoneInv, NEW now, Tidy(now), NEW r \in now.left, Straight,
           now.position[r] # Service, Ahead(now, r) # {}
    PROVE  LET next == NextStep(now.position[r], zone.slots[Min(Ahead(now, r)) + 1],
                                Occupied(now.position) \ {now.position[r]})
           IN  next # Nowhere => Priority(next) = Place(r) - 1
<1> DEFINE start == now.position[r]
           ahead == Ahead(now, r)
           f == Min(ahead)
           goal == zone.slots[f + 1]
           blocked == Occupied(now.position) \ {start}
           next == NextStep(start, goal, blocked)
<1>1. /\ Sound(zone) /\ r \in Queuers /\ start = position[r] /\ start \in ZoneCells
      /\ Slots = 0 .. Len(zone.slots) - 1 /\ Len(zone.slots) \in Nat
  BY QueuersAre, Places DEF Tidy, TurnState
<1>2. f \in Slots /\ f < Priority(start)
  <2>1. ahead \subseteq Nat  BY <1>1 DEF Ahead
  <2>2. f \in ahead  BY <2>1, MinIsLeast
  <2>3. QED  BY <2>2 DEF Ahead
<1> HIDE DEF f, start
<1>3. goal \in ZoneCells /\ Priority(goal) = f  BY <1>1, <1>2, Places, ZoneFacts
<1> HIDE DEF goal
<1>4. Priority(start) \in Nat  BY <1>1, ZoneFacts
<1>5. goal # start /\ Priority(goal) < Priority(start)  BY <1>1, <1>2, <1>3, <1>4
<1>6. start \notin blocked  OBVIOUS
<1> HIDE DEF blocked, next
<1>7. next = NextStep(start, goal, blocked)  BY DEF next
<1>8. next # Nowhere => Priority(next) = Priority(start) - 1
  BY <1>1, <1>3, <1>5, <1>6, <1>7, NextStepIs
<1>9. QED  BY <1>1, <1>8 DEF next, blocked, goal, f, ahead, start, Place

LEMMA TurnKeepsKept ==
    ASSUME ZoneInv, NEW now, Tidy(now), Kept(now), now.left # {}
    PROVE  LET r == Foremost(now.left)
               then == [Turn(now, r) EXCEPT !.left = now.left \ {r}]
           IN  r \in now.left /\ Tidy(then) /\ Kept(then) /\ then.left = now.left \ {r}
<1> DEFINE r == Foremost(now.left)
           then == [Turn(now, r) EXCEPT !.left = now.left \ {r}]
           next == NextStep(now.position[r], zone.slots[Min(Ahead(now, r)) + 1],
                            Occupied(now.position) \ {now.position[r]})
<1>1. /\ Sound(zone) /\ now.left \subseteq Queuers /\ Queuers \subseteq Robots
      /\ position \in [Robots -> Cells] /\ now.position \in [Robots -> Cells]
  BY QueuersAre DEF Tidy, TurnState, ZoneInv, TypeOK, Queuers
<1>2. r \in now.left /\ \A s \in now.left \ {r} : Before(r, s)
  <2>1. \A s \in now.left : position[s] \in ZoneCells /\ s \in Robots
    BY <1>1, PlacesOfQueuers
  <2>2. QED  BY <1>1, <2>1, ForemostIsFirst
<1> HIDE DEF r
<1>3. r \in Queuers /\ r \in Robots  BY <1>1, <1>2
<1>4. /\ Tidy(then) /\ then.left = now.left \ {r}
      /\ StaysPut(now, then) \/ MovesTo(now, then, r, next)
      /\ now.position[r] = Service \/ Ahead(now, r) = {}
             => StaysPut(now, then) /\ then.claimed = now.claimed
      /\ now.position[r] # Service /\ Ahead(now, r) # {} /\ next # Nowhere
             => MovesTo(now, then, r, next)
  BY <1>1, <1>2, TurnKeepsTidy
<1> HIDE DEF then, next
<1>5. \A s \in Robots \ {r} : then.position[s] = now.position[s]
  BY <1>1, <1>4 DEF StaysPut, MovesTo
<1>6. Straight => \A s \in Queuers : Priority(then.position[s]) \in {Place(s), Place(s) - 1}
  <2> SUFFICES ASSUME Straight, NEW s \in Queuers
               PROVE  Priority(then.position[s]) \in {Place(s), Place(s) - 1}
    OBVIOUS
  <2>1. Priority(now.position[s]) \in {Place(s), Place(s) - 1}  BY DEF Kept
  <2>2. CASE s # r \/ StaysPut(now, then)
    BY <1>1, <1>5, <2>1, <2>2 DEF StaysPut
  <2>3. CASE s = r /\ ~StaysPut(now, then)
    <3>1. then.position[r] = next /\ next \in ZoneCells
      BY <1>1, <1>3, <1>4, <2>3 DEF MovesTo
    <3>2. next # Nowhere  BY <1>1, <3>1, ZoneFacts
    <3>3. now.position[r] # Service /\ Ahead(now, r) # {}  BY <1>4, <2>3
    <3>4. Priority(next) = Place(r) - 1  BY <1>2, <3>2, <3>3, MoverStepsUp DEF next
    <3>5. QED  BY <2>3, <3>1, <3>4
  <2>4. QED  BY <2>2, <2>3
<1>7. CASE Stuck(r)
  <2>1. StaysPut(now, then) /\ then.claimed = now.claimed
    BY <1>2, <1>4, <1>7, StuckHasNoTarget
  <2>2. ~Leader(r)  BY <1>7 DEF Leader
  <2>3. Kept(then)  BY <1>2, <1>4, <1>6, <2>1, <2>2 DEF Kept, StaysPut
  <2>4. QED  BY <1>2, <1>4, <2>3 DEF r, then
<1>8. CASE ~Stuck(r)
  <2>1. \A s \in Queuers : Stuck(s) => then.position[s] = position[s]
    BY <1>1, <1>5, <1>8 DEF Kept
  <2>2. ASSUME NEW l \in then.left, Leader(l) PROVE FALSE
    <3>1. l \in now.left \ {r} /\ l \in Queuers /\ l # r  BY <1>1, <1>4
    <3>2. Place(r) <= Place(l)
      <4>1. Place(r) \in Nat /\ Place(l) \in Nat  BY <1>3, <3>1, PlacesOfQueuers
      <4>2. Before(r, l)  BY <1>2, <3>1
      <4>3. QED  BY <4>1, <4>2 DEF Before, Place
    <3>3. Place(l) <= Place(r)  BY <1>3, <1>8, <2>2 DEF Leader
    <3>4. Place(r) = Place(l)  BY <1>3, <3>1, <3>2, <3>3, PlacesOfQueuers
    <3>5. QED  BY <1>3, <3>1, <3>4, PlacesOfQueuers
  <2>3. ASSUME NEW l \in Queuers, Leader(l), l \notin then.left
        PROVE  /\ then.position[l] # position[l]
               /\ Place(l) = 1 => then.position[l] = Service
    <3>1. CASE l # r
      <4>1. l \notin now.left /\ l \in Robots  BY <1>1, <1>4, <2>3, <3>1
      <4>2. then.position[l] = now.position[l]  BY <1>5, <3>1, <4>1
      <4>3. QED  BY <2>3, <4>1, <4>2 DEF Kept
    <3>2. CASE l = r
      <4>1. /\ now.position[r] # Service /\ Ahead(now, r) # {}
            /\ next # Nowhere /\ next # position[r]
            /\ Place(r) = 1 => next = Service
        <5>1. Leader(r)  BY <2>3, <3>2
        <5>2. QED  BY <1>2, <5>1, LeaderMoves DEF next
      <4>2. then.position[r] = next  BY <1>1, <1>3, <1>4, <4>1 DEF MovesTo
      <4>3. QED  BY <3>2, <4>1, <4>2
    <3>3. QED  BY <3>1, <3>2
  <2>4. Kept(then)  BY <1>6, <2>1, <2>2, <2>3 DEF Kept
  <2>5. QED  BY <1>2, <1>4, <2>4 DEF r, then
<1>9. QED  BY <1>7, <1>8

(* What a cascade comes to.                                                 *)
LEMMA CascadeDone ==
    ASSUME ZoneInv
    PROVE  LET done == Turns[Cardinality(Queuers)]
           IN  Tidy(done) /\ Kept(done) /\ done.left = {}
<1> DEFINE N == Cardinality(Queuers)
           Good(k) == /\ Tidy(Turns[k]) /\ Kept(Turns[k])
                      /\ IsFiniteSet(Turns[k].left) /\ Cardinality(Turns[k].left) = N - k
           Bad == {k \in 0 .. N : ~Good(k)}
<1>1. IsFiniteSet(Queuers) /\ N \in Nat  BY QueuersAre
<1>2. /\ Turns[0] = [position |-> position, slot |-> slot, claimed |-> {}, left |-> Queuers]
      /\ \A k \in 1 .. N :
             LET now == Turns[k - 1]
                 r   == Foremost(now.left)
             IN  Turns[k] = [Turn(now, r) EXCEPT !.left = now.left \ {r}]
  BY <1>1, TurnsAre
<1>3. Good(0)
  <2>1. Tidy(Turns[0])  BY <1>2, StartIsTidy
  <2>2. /\ Turns[0].position = position /\ Turns[0].slot = slot
        /\ Turns[0].claimed = {} /\ Turns[0].left = Queuers
    BY <1>2
  <2>3. Kept(Turns[0])  BY <2>2 DEF Kept, Place
  <2>4. QED  BY <1>1, <2>1, <2>2, <2>3
<1> HIDE DEF N
<1>4. ASSUME NEW k \in 1 .. N, Good(k - 1) PROVE Good(k)
  <2> DEFINE now == Turns[k - 1]
             r == Foremost(now.left)
  <2>1. Tidy(now) /\ Kept(now) /\ IsFiniteSet(now.left) /\ Cardinality(now.left) = N - (k - 1)
    BY <1>4
  <2>2. Turns[k] = [Turn(now, r) EXCEPT !.left = now.left \ {r}]  BY <1>2
  <2> HIDE DEF now
  <2>3. Cardinality(now.left) # 0  BY <1>1, <2>1
  <2>4. now.left # {}  BY <2>1, <2>3, FS_EmptySet
  <2>5. r \in now.left /\ Tidy(Turns[k]) /\ Kept(Turns[k]) /\ Turns[k].left = now.left \ {r}
    BY <2>1, <2>2, <2>4, TurnKeepsKept
  <2> HIDE DEF r
  <2>6. /\ IsFiniteSet(now.left \ {r})
        /\ Cardinality(now.left \ {r}) = Cardinality(now.left) - 1
    BY <2>1, <2>5, FS_RemoveElement
  <2>7. Cardinality(Turns[k].left) = N - k  BY <1>1, <2>1, <2>5, <2>6
  <2>8. QED  BY <2>5, <2>6, <2>7
<1>5. Bad = {}
  <2> SUFFICES ASSUME Bad # {} PROVE FALSE
    OBVIOUS
  <2> HIDE DEF Good
  <2>1. Bad \subseteq Nat  BY <1>1
  <2>2. PICK k \in Bad : \A j \in Bad : k <= j  BY <2>1, LeastNatural
  <2>3. k \in 0 .. N /\ ~Good(k) /\ k # 0  BY <1>3
  <2>4. k \in 1 .. N /\ k - 1 \in 0 .. N /\ ~(k <= k - 1)  BY <1>1, <2>3
  <2>5. Good(k - 1)  BY <2>2, <2>4
  <2>6. QED  BY <1>4, <2>3, <2>4, <2>5
<1>6. Good(N)  BY <1>1, <1>5
<1>7. Turns[N].left = {}  BY <1>1, <1>6, FS_EmptySet
<1>8. QED  BY <1>6, <1>7 DEF N

-----------------------------------------------------------------------------
(* The zone never changes, and so nothing about its cells does.             *)
LEMMA SameZone ==
    ASSUME zone' = zone
    PROVE  /\ Slots' = Slots /\ Service' = Service /\ ZoneCells' = ZoneCells /\ Cells' = Cells
           /\ \A c : Priority(c)' = Priority(c)
           /\ Straight' = Straight
BY DEF Slots, Service, ZoneCells, Cells, Priority, Straight, Neighbors

LEMMA CascadeIs ==
    ASSUME ZoneInv, Cascade
    PROVE  /\ Sound(zone) /\ zone' = zone /\ due' = FALSE
           /\ position' \in [Robots -> Cells] /\ slot' \in [Slots -> Robots \cup {Nobody}]
           /\ \A p \in Slots : slot'[p] # Nobody => position'[slot'[p]] = zone.slots[p + 1]
           /\ \A r \in Robots : position'[r] \in Range(zone.slots) =>
                                    slot'[Priority(position'[r])] = r
           /\ \A r, s \in Robots : position'[r] = position'[s] /\ position'[r] # Nowhere => r = s
           /\ status' \in [Robots -> {"away", "arrived", "queuing", "delivering", "exiting", "exited"}]
           /\ \A r \in Robots \ Queuers : position'[r] = position[r] /\ status'[r] = status[r]
           /\ \A r \in Queuers :
                  /\ position'[r] \in ZoneCells
                  /\ status'[r] = IF position'[r] = Service THEN "delivering" ELSE "queuing"
                  /\ Stuck(r) => position'[r] = position[r]
                  /\ Leader(r) => /\ position'[r] # position[r]
                                  /\ Place(r) = 1 => position'[r] = Service
                  /\ Straight => Priority(position'[r]) \in {Place(r), Place(r) - 1}
<1> DEFINE done == Turns[Cardinality(Queuers)]
<1>1. /\ Sound(zone) /\ Queuers = {r \in Robots : status[r] = "queuing"}
      /\ \A r \in Queuers : position[r] \in ZoneCells \ {Service}
  BY QueuersAre
<1>2. Tidy(done) /\ Kept(done) /\ done.left = {}  BY CascadeDone
<1>3. /\ position' = done.position /\ slot' = done.slot /\ zone' = zone /\ due' = FALSE
      /\ status' = [r \in Robots |-> IF position[r] # Service /\ done.position[r] = Service
                                     THEN "delivering" ELSE status[r]]
  BY DEF Cascade
<1> HIDE DEF done
<1>4. /\ position' \in [Robots -> Cells] /\ slot' \in [Slots -> Robots \cup {Nobody}]
      /\ \A p \in Slots : slot'[p] # Nobody => position'[slot'[p]] = zone.slots[p + 1]
      /\ \A r \in Robots : position'[r] \in Range(zone.slots) =>
                               slot'[Priority(position'[r])] = r
      /\ \A r, s \in Robots : position'[r] = position'[s] /\ position'[r] # Nowhere => r = s
      /\ \A r \in Robots \ Queuers : position'[r] = position[r]
      /\ \A r \in Queuers : position'[r] \in ZoneCells
  BY <1>2, <1>3 DEF Tidy, TurnState
<1>5. status' \in [Robots -> {"away", "arrived", "queuing", "delivering", "exiting", "exited"}]
  BY <1>3 DEF ZoneInv, TypeOK
<1>6. \A r \in Robots \ Queuers : status'[r] = status[r]  BY <1>3, <1>4
<1>7. \A r \in Queuers : status'[r] = IF position'[r] = Service THEN "delivering" ELSE "queuing"
  BY <1>1, <1>3
<1>8. \A r \in Queuers : /\ Stuck(r) => position'[r] = position[r]
                         /\ Leader(r) => /\ position'[r] # position[r]
                                         /\ Place(r) = 1 => position'[r] = Service
                         /\ Straight => Priority(position'[r]) \in {Place(r), Place(r) - 1}
  BY <1>2, <1>3 DEF Kept
<1>9. QED  BY <1>1, <1>3, <1>4, <1>5, <1>6, <1>7, <1>8

LEMMA CascadeKeepsZoneInv ==
    ASSUME ZoneInv, Cascade
    PROVE  ZoneInv'
<1>1. /\ Sound(zone) /\ zone' = zone /\ due' = FALSE
      /\ position' \in [Robots -> Cells] /\ slot' \in [Slots -> Robots \cup {Nobody}]
      /\ \A p \in Slots : slot'[p] # Nobody => position'[slot'[p]] = zone.slots[p + 1]
      /\ \A r \in Robots : position'[r] \in Range(zone.slots) =>
                               slot'[Priority(position'[r])] = r
      /\ \A r, s \in Robots : position'[r] = position'[s] /\ position'[r] # Nowhere => r = s
      /\ status' \in [Robots -> {"away", "arrived", "queuing", "delivering", "exiting", "exited"}]
      /\ \A r \in Robots \ Queuers : position'[r] = position[r] /\ status'[r] = status[r]
      /\ \A r \in Queuers :
             /\ position'[r] \in ZoneCells
             /\ status'[r] = IF position'[r] = Service THEN "delivering" ELSE "queuing"
  BY CascadeIs
<1>2. Slots' = Slots /\ Service' = Service /\ Cells' = Cells /\ \A c : Priority(c)' = Priority(c)
  BY <1>1, SameZone
<1>3. Queuers = {r \in Robots : status[r] = "queuing"}  BY QueuersAre
<1>4. TypeOK'  BY <1>1, <1>2 DEF ZoneInv, TypeOK
<1>5. ASSUME NEW r \in Robots
      PROVE  /\ status'[r] = "queuing" =>
                    position'[r] \in (Range(zone.slots) \cup {zone.entry}) \ {Service}
             /\ status'[r] \in {"delivering", "exiting"} => position'[r] = Service
             /\ status'[r] \in {"away", "arrived", "exited"} => position'[r] \notin Range(zone.slots)
             /\ status'[r] = "arrived" => position'[r] = zone.entry /\ zone.entry # Nowhere
             /\ status'[r] = "queuing" => position'[r] # Nowhere
  <2>1. CASE r \in Queuers
    <3>1. Nowhere \notin ZoneCells  BY <1>1, ZoneFacts
    <3>2. QED  BY <1>1, <2>1, <3>1 DEF ZoneCells
  <2>2. CASE r \notin Queuers
    BY <1>1, <1>3, <2>2 DEF ZoneInv, SlotsMatchFloor, ArrivalsStand
  <2>3. QED  BY <2>1, <2>2
<1>6. SlotsMatchFloor'  BY <1>1, <1>2, <1>5 DEF SlotsMatchFloor
<1>7. OneRobotPerCell'  BY <1>1 DEF OneRobotPerCell
<1>8. ArrivalsStand'  BY <1>1, <1>5 DEF ArrivalsStand
<1>9. QED  BY <1>4, <1>6, <1>7, <1>8 DEF ZoneInv

LEMMA InitHasZoneInv ==
    ASSUME Init
    PROVE  ZoneInv
<1>1. Sound(zone)  BY ZonesAreSound DEF Init
<1>2. Nowhere \notin Range(zone.slots)  BY <1>1, ZoneFacts
<1>3. TypeOK  BY DEF Init, TypeOK, Cells
<1>4. SlotsMatchFloor  BY <1>2 DEF Init, SlotsMatchFloor
<1>5. QED  BY <1>3, <1>4 DEF Init, ZoneInv, OneRobotPerCell, ArrivalsStand

(* The steps of one robot outside the cascade change its status, and maybe  *)
(* take it from one cell that is no slot to another, or to none.            *)
LEMMA OutsideTheLine ==
    ASSUME ZoneInv, UNCHANGED <<zone, slot>>, due' \in BOOLEAN, NEW r \in Robots,
           NEW cell, position' = [position EXCEPT ![r] = cell],
           cell = position[r] \/ cell \in {zone.entry, zone.exit, Nowhere},
           cell \notin Range(zone.slots) => position[r] \notin Range(zone.slots),
           NEW st \in {"away", "arrived", "queuing", "delivering", "exiting", "exited"},
           status' = [status EXCEPT ![r] = st],
           \A s \in Robots \ {r} : position[s] = cell => cell = Nowhere,
           st \in {"away", "exited"} => cell \notin Range(zone.slots),
           st = "arrived" => cell = zone.entry /\ cell # Nowhere,
           st = "queuing" => cell \in (Range(zone.slots) \cup {zone.entry}) \ {Service} /\ cell # Nowhere,
           st \in {"delivering", "exiting"} => cell = Service
    PROVE  ZoneInv'
<1>1. /\ Sound(zone) /\ zone' = zone /\ slot' = slot
      /\ position \in [Robots -> Cells] /\ slot \in [Slots -> Robots \cup {Nobody}]
      /\ status \in [Robots -> {"away", "arrived", "queuing", "delivering", "exiting", "exited"}]
  BY ZonesAreSound DEF ZoneInv, TypeOK
<1>2. Slots' = Slots /\ Service' = Service /\ Cells' = Cells /\ \A c : Priority(c)' = Priority(c)
  BY <1>1, SameZone
<1>3. /\ zone.entry \notin Range(zone.slots) /\ zone.exit \notin Range(zone.slots)
      /\ Nowhere \notin Range(zone.slots)
  BY <1>1, ZoneFacts
<1>4. /\ position'[r] = cell /\ status'[r] = st
      /\ \A s \in Robots \ {r} : position'[s] = position[s] /\ status'[s] = status[s]
  BY <1>1
<1>5. cell \in Cells  BY <1>1 DEF Cells
<1>6. TypeOK'  BY <1>1, <1>2, <1>5 DEF ZoneInv, TypeOK
<1>7. cell \in Range(zone.slots) => cell = position[r]  BY <1>3
<1>8. SlotsMatchFloor'
  <2>1. ASSUME NEW p \in Slots, slot[p] # Nobody PROVE position'[slot[p]] = zone.slots[p + 1]
    <3>1. slot[p] \in Robots /\ position[slot[p]] = zone.slots[p + 1]
      BY <1>1, <2>1 DEF ZoneInv, SlotsMatchFloor
    <3>2. zone.slots[p + 1] \in Range(zone.slots)  BY <1>1, Places
    <3>3. slot[p] = r => cell = position[r]  BY <1>7, <3>1, <3>2
    <3>4. QED  BY <1>4, <3>1, <3>3
  <2>2. ASSUME NEW s \in Robots
        PROVE  /\ position'[s] \in Range(zone.slots) => slot[Priority(position'[s])] = s
               /\ status'[s] = "queuing" =>
                      position'[s] \in (Range(zone.slots) \cup {zone.entry}) \ {Service}
               /\ status'[s] \in {"delivering", "exiting"} => position'[s] = Service
               /\ status'[s] \in {"away", "arrived", "exited"} =>
                      position'[s] \notin Range(zone.slots)
    <3>1. CASE s = r  BY <1>3, <1>4, <1>7, <3>1 DEF ZoneInv, SlotsMatchFloor
    <3>2. CASE s # r  BY <1>4, <3>2 DEF ZoneInv, SlotsMatchFloor
    <3>3. QED  BY <3>1, <3>2
  <2>3. QED  BY <1>1, <1>2, <2>1, <2>2 DEF SlotsMatchFloor
<1>9. OneRobotPerCell'
  <2>1. ASSUME NEW s \in Robots, NEW t \in Robots,
               position'[s] = position'[t], position'[s] # Nowhere, s # t
        PROVE  FALSE
    <3>1. s = r \/ t = r
      BY <1>4, <2>1 DEF ZoneInv, OneRobotPerCell
    <3>2. QED  BY <1>4, <2>1, <3>1
  <2>2. QED  BY <2>1 DEF OneRobotPerCell
<1>10. ArrivalsStand'  BY <1>1, <1>4 DEF ZoneInv, ArrivalsStand
<1>11. QED  BY <1>6, <1>8, <1>9, <1>10 DEF ZoneInv

LEMMA ReleaseKeepsZoneInv ==
    ASSUME ZoneInv, NEW r \in Robots, ReleaseToExit(r)
    PROVE  ZoneInv'
<1>1. /\ Sound(zone) /\ zone' = zone /\ due' = due
      /\ position \in [Robots -> Cells] /\ slot \in [Slots -> Robots \cup {Nobody}]
      /\ status \in [Robots -> {"away", "arrived", "queuing", "delivering", "exiting", "exited"}]
      /\ slot' = [p \in Slots |-> IF slot[p] = r THEN Nobody ELSE slot[p]]
  BY ZonesAreSound DEF ZoneInv, TypeOK, ReleaseToExit
<1>2. Slots' = Slots /\ Service' = Service /\ Cells' = Cells /\ \A c : Priority(c)' = Priority(c)
  BY <1>1, SameZone
<1>3. zone.exit \notin Range(zone.slots)  BY <1>1, ZoneFacts
<1>4. zone.exit # Nowhere /\ \A s \in Robots : position[s] # zone.exit
  BY DEF ReleaseToExit, Occupied
<1>5. /\ position'[r] = zone.exit /\ status'[r] = "exited"
      /\ \A s \in Robots \ {r} : position'[s] = position[s] /\ status'[s] = status[s]
  BY <1>1 DEF ReleaseToExit
<1>6. TypeOK'
  <2>1. zone.exit \in Cells  BY DEF Cells
  <2>2. position' \in [Robots -> Cells] /\ slot' \in [Slots -> Robots \cup {Nobody}]
        /\ status' \in [Robots -> {"away", "arrived", "queuing", "delivering", "exiting", "exited"}]
    BY <1>1, <2>1 DEF ReleaseToExit
  <2>3. QED  BY <1>1, <1>2, <2>2 DEF ZoneInv, TypeOK
<1>7. SlotsMatchFloor'
  <2>1. ASSUME NEW p \in Slots, slot'[p] # Nobody PROVE position'[slot'[p]] = zone.slots[p + 1]
    <3>1. slot'[p] = slot[p] /\ slot[p] \in Robots \ {r}  BY <1>1, <2>1
    <3>2. QED  BY <1>5, <3>1, RobotsAssumption DEF ZoneInv, SlotsMatchFloor
  <2>2. ASSUME NEW s \in Robots
        PROVE  /\ position'[s] \in Range(zone.slots) => slot'[Priority(position'[s])] = s
               /\ status'[s] = "queuing" =>
                      position'[s] \in (Range(zone.slots) \cup {zone.entry}) \ {Service}
               /\ status'[s] \in {"delivering", "exiting"} => position'[s] = Service
               /\ status'[s] \in {"away", "arrived", "exited"} =>
                      position'[s] \notin Range(zone.slots)
    <3>1. CASE s = r  BY <1>3, <1>5, <3>1
    <3>2. CASE s # r
      <4>1. ASSUME position[s] \in Range(zone.slots)
            PROVE  slot'[Priority(position[s])] = s
        <5>1. Priority(position[s]) \in Slots /\ slot[Priority(position[s])] = s
          BY <1>1, <4>1, Places DEF ZoneInv, SlotsMatchFloor
        <5>2. QED  BY <1>1, <3>2, <5>1
      <4>2. QED  BY <1>5, <3>2, <4>1 DEF ZoneInv, SlotsMatchFloor
    <3>3. QED  BY <3>1, <3>2
  <2>3. QED  BY <1>1, <1>2, <2>1, <2>2 DEF SlotsMatchFloor
<1>8. OneRobotPerCell'  BY <1>4, <1>5 DEF ZoneInv, OneRobotPerCell
<1>9. ArrivalsStand'  BY <1>1, <1>5 DEF ZoneInv, ArrivalsStand
<1>10. QED  BY <1>6, <1>7, <1>8, <1>9 DEF ZoneInv

LEMMA StepKeepsZoneInv ==
    ASSUME ZoneInv, [Next]_vars
    PROVE  ZoneInv'
<1> DEFINE Statuses == {"away", "arrived", "queuing", "delivering", "exiting", "exited"}
<1>1. /\ Sound(zone)
      /\ position \in [Robots -> Cells] /\ status \in [Robots -> Statuses]
      /\ due \in BOOLEAN
  BY ZonesAreSound DEF ZoneInv, TypeOK
<1>2. /\ zone.entry \notin Range(zone.slots) /\ zone.exit \notin Range(zone.slots)
      /\ Nowhere \notin Range(zone.slots) /\ Service \in Range(zone.slots)
  BY <1>1, ZoneFacts, Places
<1>3. CASE Cascade  BY <1>3, CascadeKeepsZoneInv
<1>4. CASE NextTick \/ UNCHANGED vars
  <2>1. /\ zone' = zone /\ position' = position /\ status' = status /\ slot' = slot
        /\ due' \in BOOLEAN
    BY <1>1, <1>4 DEF NextTick, vars
  <2>2. Slots' = Slots /\ Service' = Service /\ Cells' = Cells /\ \A c : Priority(c)' = Priority(c)
    BY <2>1, SameZone
  <2>3. QED
    BY <2>1, <2>2 DEF ZoneInv, TypeOK, SlotsMatchFloor, OneRobotPerCell, ArrivalsStand
<1>5. ASSUME NEW r \in Robots, Arrive(r) PROVE ZoneInv'
  <2>1. \A s \in Robots \ {r} : position[s] = zone.entry => zone.entry = Nowhere
    BY <1>5 DEF Arrive, Occupied, ZoneInv, OneRobotPerCell
  <2>2. position[r] \notin Range(zone.slots)  BY <1>2, <1>5 DEF Arrive
  <2>3. QED  BY <1>1, <1>2, <1>5, <2>1, <2>2, OutsideTheLine DEF Arrive
<1>6. ASSUME NEW r \in Robots, Visit(r) PROVE ZoneInv'
  <2>1. PICK cell \in {zone.entry, zone.exit} \ (Occupied(position) \cup {Nowhere}) :
            position' = [position EXCEPT ![r] = cell]
    BY <1>6 DEF Visit
  <2>2. \A s \in Robots : position[s] # cell  BY <2>1 DEF Occupied
  <2>3. position[r] = Nowhere /\ UNCHANGED <<zone, slot, due>> /\ status' = status
    BY <1>6 DEF Visit
  <2>4. status[r] \in {"away", "exited"}
    BY <1>1, <1>2, <2>3 DEF ZoneInv, SlotsMatchFloor, ArrivalsStand
  <2>5. status' = [status EXCEPT ![r] = status[r]]  BY <1>1, <2>3
  <2>6. QED  BY <1>1, <1>2, <2>1, <2>2, <2>3, <2>4, <2>5, OutsideTheLine
<1>7. ASSUME NEW r \in Robots, MoveOn(r) PROVE ZoneInv'
  <2>1. position[r] \notin Range(zone.slots)  BY <1>7 DEF MoveOn, ZoneInv, SlotsMatchFloor
  <2>2. QED  BY <1>1, <1>2, <1>7, <2>1, OutsideTheLine DEF MoveOn
<1>8. ASSUME NEW r \in Robots, NEW st \in {"queuing", "exiting"},
             status' = [status EXCEPT ![r] = st], UNCHANGED <<zone, position, slot, due>>,
             st = "queuing" => status[r] = "arrived",
             st = "exiting" => status[r] = "delivering"
      PROVE  ZoneInv'
  <2> DEFINE cell == position[r]
  <2>1. position' = [position EXCEPT ![r] = cell]  BY <1>1, <1>8
  <2>2. \A s \in Robots \ {r} : position[s] = cell => cell = Nowhere
    BY DEF ZoneInv, OneRobotPerCell
  <2>3. /\ st = "queuing" => cell \in (Range(zone.slots) \cup {zone.entry}) \ {Service}
                             /\ cell # Nowhere
        /\ st = "exiting" => cell = Service
    BY <1>2, <1>8 DEF ZoneInv, SlotsMatchFloor, ArrivalsStand
  <2>4. QED  BY <1>1, <1>8, <2>1, <2>2, <2>3, OutsideTheLine
<1>9. ASSUME NEW r \in Robots, CheckInFromEntry(r) PROVE ZoneInv'
  BY <1>8, <1>9 DEF CheckInFromEntry
<1>10. ASSUME NEW r \in Robots, ServiceDone(r) PROVE ZoneInv'
  BY <1>8, <1>10 DEF ServiceDone
<1>11. QED
  BY <1>3, <1>4, <1>5, <1>6, <1>7, <1>9, <1>10, ReleaseKeepsZoneInv DEF Next

LEMMA ZoneInvHolds == Spec => []ZoneInv
<1>1. Init => ZoneInv  BY InitHasZoneInv
<1>2. ZoneInv /\ [Next]_vars => ZoneInv'  BY StepKeepsZoneInv
<1>3. QED  BY <1>1, <1>2, PTL DEF Spec

(* The zone, its slots and the robots' cells and statuses have their types. *)
THEOREM ZoneTypes == Spec => []TypeOK
<1>1. ZoneInv => TypeOK  BY DEF ZoneInv
<1>2. QED  BY <1>1, ZoneInvHolds, PTL

(* The slots and the floor agree (cascade, release_to_exit): no move loses  *)
(* a robot, whatever the shape of the zone.                                 *)
THEOREM SlotsMatchTheFloor == Spec => []SlotsMatchFloor
<1>1. ZoneInv => SlotsMatchFloor  BY DEF ZoneInv
<1>2. QED  BY <1>1, ZoneInvHolds, PTL

(* A cascade, a release or an arrival never puts two robots on one cell.    *)
THEOREM OneRobotPerZoneCell == Spec => []OneRobotPerCell
<1>1. ZoneInv => OneRobotPerCell  BY DEF ZoneInv
<1>2. QED  BY <1>1, ZoneInvHolds, PTL

(* _auto_layout lays out a zone robots can pass through, for every size of  *)
(* map, set of walls, station cell, queue and buffer length.                *)
THEOREM LayoutsArePassable == Spec => []LayoutIsPassable
<1>1. ZoneInv => LayoutIsPassable
  BY ZonesAreSound DEF ZoneInv, TypeOK, Sound, LayoutIsPassable
<1>2. QED  BY <1>1, ZoneInvHolds, PTL

(* The robot in the first queue slot is the next to be served.              *)
LEMMA StepServesTheFirst ==
    ASSUME ZoneInv, [Next]_vars, NEW r \in Robots,
           Len(zone.slots) > 1, slot[1] = r, status[r] = "queuing",
           slot'[0] # slot[0], slot'[0] # Nobody
    PROVE  slot'[0] = r
<1>1. Sound(zone) /\ slot \in [Slots -> Robots \cup {Nobody}]
  BY ZonesAreSound DEF ZoneInv, TypeOK
<1>2. /\ Len(zone.slots) \in Nat /\ Slots = 0 .. Len(zone.slots) - 1
      /\ 0 \in Slots /\ 1 \in Slots /\ Service = zone.slots[1]
      /\ Service \in Range(zone.slots) /\ Priority(Service) = 0
  BY <1>1, Places
<1>3. Cascade
  <2>1. slot' # slot  OBVIOUS
  <2>2. ASSUME NEW s \in Robots, ReleaseToExit(s) PROVE FALSE
    <3>1. slot'[0] = IF slot[0] = s THEN Nobody ELSE slot[0]
      BY <1>2, <2>2 DEF ReleaseToExit
    <3>2. QED  BY <3>1
  <2>3. QED
    BY <2>1, <2>2 DEF Next, vars, NextTick, Arrive, Visit, MoveOn, CheckInFromEntry, ServiceDone
<1>4. /\ zone' = zone
      /\ slot' \in [Slots -> Robots \cup {Nobody}]
      /\ \A p \in Slots : slot'[p] # Nobody => position'[slot'[p]] = zone.slots[p + 1]
      /\ \A s \in Robots : position'[s] \in Range(zone.slots) =>
                               slot'[Priority(position'[s])] = s
      /\ \A s, t \in Robots : position'[s] = position'[t] /\ position'[s] # Nowhere => s = t
      /\ \A s \in Robots \ Queuers : position'[s] = position[s]
      /\ \A s \in Queuers :
             /\ Stuck(s) => position'[s] = position[s]
             /\ Leader(s) => (Place(s) = 1 => position'[s] = Service)
  BY <1>3, CascadeIs
<1>5. r \in Queuers /\ r # Nobody  BY QueuersAre, RobotsAssumption
<1>6. position[r] = zone.slots[1 + 1]  BY <1>2, <1>5 DEF ZoneInv, SlotsMatchFloor
<1>7. Place(r) = 1  BY <1>1, <1>2, <1>6, Places DEF Place
<1>8. CASE slot[0] = Nobody
  <2>1. Leader(r)
    <3>1. ~Stuck(r)  BY <1>2, <1>7, <1>8 DEF Stuck
    <3>2. \A s \in Queuers : Place(r) <= Place(s)  BY <1>7, PlacesOfQueuers
    <3>3. QED  BY <1>5, <3>1, <3>2 DEF Leader
  <2>2. position'[r] = Service  BY <1>4, <1>5, <1>7, <2>1
  <2>3. QED  BY <1>2, <1>4, <2>2
<1>9. CASE slot[0] # Nobody
  <2> DEFINE s == slot[0]
  <2>1. s \in Robots  BY <1>1, <1>2, <1>9
  <2>2. position[s] = zone.slots[0 + 1]  BY <1>2, <1>9 DEF ZoneInv, SlotsMatchFloor
  <2>3. position[s] = Service  BY <1>2, <2>2
  <2>4. s \notin Queuers  BY <2>1, <2>3, QueuersAre
  <2>5. position'[s] = Service  BY <1>4, <2>1, <2>3, <2>4
  <2>6. slot'[0] = s  BY <1>2, <1>4, <2>1, <2>5
  <2>7. QED  BY <2>6
<1>10. QED  BY <1>8, <1>9

(* In a cascade, nobody but the robot in the first queue slot takes the      *)
(* service slot, and no other step fills it.                                *)
THEOREM FirstIsServedNext == Spec => FirstInQueueIsNext
<1>1. ZoneInv /\ [Next]_vars =>
          [\A r \in Robots :
             /\ Len(zone.slots) > 1 /\ slot[1] = r /\ status[r] = "queuing"
             /\ slot'[0] # slot[0] /\ slot'[0] # Nobody
             => slot'[0] = r]_vars
  BY StepServesTheFirst
<1>2. QED  BY <1>1, ZoneInvHolds, PTL DEF Spec, FirstInQueueIsNext

-----------------------------------------------------------------------------
(* The zone implements QueueLine: the place of a robot in the line is the    *)
(* priority of the cell it stands on.                                       *)
InLine == {"queuing", "delivering", "exiting"}
LinePlace == [r \in Robots |-> IF status[r] \in {"queuing", "delivering", "exiting"}
                               THEN Priority(position[r]) ELSE Nowhere]
LineState == <<Len(zone.slots), Straight, LinePlace>>

LEMMA LineFacts ==
    ASSUME ZoneInv
    PROVE  /\ Sound(zone) /\ Len(zone.slots) \in Nat \ {0} /\ Nowhere \notin Nat
           /\ \A r \in Robots :
                  /\ status[r] \in InLine =>
                         /\ position[r] \in ZoneCells
                         /\ LinePlace[r] = Priority(position[r])
                         /\ LinePlace[r] \in 0 .. Len(zone.slots)
                  /\ status[r] \notin InLine => LinePlace[r] = Nowhere
           /\ Line!Queuing = Queuers
<1>1. /\ Sound(zone) /\ Nowhere \notin Nat
      /\ Len(zone.slots) \in Nat \ {0} /\ Service \in ZoneCells /\ Priority(Service) = 0
      /\ Queuers = {r \in Robots : status[r] = "queuing"}
  BY QueuersAre, Places, ZoneFacts, NowhereAssumption
<1>2. ASSUME NEW r \in Robots
      PROVE  /\ status[r] \in InLine =>
                    /\ position[r] \in ZoneCells
                    /\ LinePlace[r] = Priority(position[r])
                    /\ LinePlace[r] \in 0 .. Len(zone.slots)
             /\ status[r] \notin InLine => LinePlace[r] = Nowhere
  <2>1. ASSUME status[r] \in InLine PROVE position[r] \in ZoneCells
    <3>1. CASE status[r] = "queuing"  BY <1>1, <3>1, PlacesOfQueuers
    <3>2. CASE status[r] \in {"delivering", "exiting"}
      BY <1>1, <3>2 DEF ZoneInv, SlotsMatchFloor
    <3>3. QED  BY <2>1, <3>1, <3>2 DEF InLine
  <2>2. QED  BY <1>1, <2>1, ZoneFacts DEF LinePlace, InLine
<1>3. ASSUME NEW r \in Robots PROVE LinePlace[r] \in 1 .. Len(zone.slots) <=> r \in Queuers
  <2>1. CASE r \in Queuers
    <3>1. LinePlace[r] = Priority(position[r])  BY <1>1, <1>2, <2>1 DEF InLine
    <3>2. QED  BY <2>1, <3>1, PlacesOfQueuers DEF Place
  <2>2. CASE status[r] \in {"delivering", "exiting"}
    <3>1. LinePlace[r] = 0
      BY <1>1, <1>2, <2>2 DEF InLine, ZoneInv, SlotsMatchFloor
    <3>2. QED  BY <1>1, <2>2, <3>1
  <2>3. CASE status[r] \notin InLine
    <3>1. LinePlace[r] = Nowhere  BY <1>2, <2>3
    <3>2. QED  BY <1>1, <2>3, <3>1 DEF InLine
  <2>4. QED  BY <1>1, <2>1, <2>2, <2>3 DEF InLine
<1>4. Line!Queuing = {r \in Robots : LinePlace[r] \in 1 .. Len(zone.slots)}
  BY DEF Line!Queuing, LinePlace
<1>5. Line!Queuing = Queuers  BY <1>1, <1>3, <1>4
<1>6. QED  BY <1>1, <1>2, <1>5

LEMMA CascadeIsAdvance ==
    ASSUME ZoneInv, Cascade
    PROVE  Line!Advance
<1> DEFINE n == Len(zone.slots)
           before == [r \in Queuers |-> LinePlace[r]]
           after  == [r \in Queuers |-> LinePlace'[r]]
           held   == {LinePlace[r] : r \in Robots} \cap {0}
<1>1. /\ Sound(zone) /\ n \in Nat \ {0} /\ Nowhere \notin Nat
      /\ \A r \in Robots :
             /\ status[r] \in InLine =>
                    /\ position[r] \in ZoneCells
                    /\ LinePlace[r] = Priority(position[r])
                    /\ LinePlace[r] \in 0 .. n
             /\ status[r] \notin InLine => LinePlace[r] = Nowhere
      /\ Line!Queuing = Queuers
  BY LineFacts
<1>2. /\ zone' = zone /\ Slots = 0 .. n - 1
      /\ \A r, s \in Robots : position'[r] = position'[s] /\ position'[r] # Nowhere => r = s
      /\ \A r \in Robots \ Queuers : position'[r] = position[r] /\ status'[r] = status[r]
      /\ \A r \in Queuers :
             /\ r \in Robots /\ status[r] = "queuing"
             /\ position'[r] \in ZoneCells
             /\ status'[r] = IF position'[r] = Service THEN "delivering" ELSE "queuing"
             /\ Stuck(r) => position'[r] = position[r]
             /\ Leader(r) => position'[r] # position[r]
             /\ Straight => Priority(position'[r]) \in {Place(r), Place(r) - 1}
  BY <1>1, CascadeIs, QueuersAre, Places
<1>3. Straight' = Straight /\ \A c : Priority(c)' = Priority(c)  BY <1>2, SameZone
<1>4. LinePlace' = [r \in Robots |-> IF status'[r] \in {"queuing", "delivering", "exiting"}
                                     THEN Priority(position'[r]) ELSE Nowhere]
  BY <1>3 DEF LinePlace
<1>5. \A r \in Queuers : /\ LinePlace'[r] = Priority(position'[r])
                         /\ LinePlace'[r] \in 0 .. n
  BY <1>1, <1>2, <1>4, ZoneFacts
<1>6. \A r \in Robots \ Queuers : LinePlace'[r] = LinePlace[r]
  BY <1>2, <1>4 DEF LinePlace
<1>7. LinePlace' \in [Robots -> {Nowhere} \cup 0 .. n]
  <2>1. \A r \in Robots : LinePlace'[r] \in {Nowhere} \cup 0 .. n
    BY <1>1, <1>5, <1>6
  <2>2. QED  BY <1>4, <2>1
<1>8. \A r \in Queuers : LinePlace[r] = Place(r) /\ Place(r) \in 1 .. n
                         /\ position[r] \in ZoneCells
  BY <1>1, <1>2, PlacesOfQueuers DEF Place, InLine
(* A place is taken exactly if its slot is.                                 *)
<1>9. ASSUME NEW p \in Slots
      PROVE  slot[p] # Nobody <=> p \in held \/ \E s \in Queuers : before[s] = p
  <2>1. p \in Nat /\ zone.slots[p + 1] \in Range(zone.slots) /\ Priority(zone.slots[p + 1]) = p
    BY <1>1, <1>2, Places
  <2>2. ASSUME slot[p] # Nobody PROVE p \in held \/ \E s \in Queuers : before[s] = p
    <3> DEFINE s == slot[p]
    <3>1. s \in Robots /\ position[s] = zone.slots[p + 1]
      BY <2>2 DEF ZoneInv, TypeOK, SlotsMatchFloor
    <3>2. Priority(position[s]) = p  BY <2>1, <3>1
    <3>3. status[s] \in InLine
      BY <2>1, <3>1 DEF ZoneInv, TypeOK, SlotsMatchFloor, InLine
    <3>4. LinePlace[s] = p  BY <1>1, <3>1, <3>2, <3>3
    <3>5. CASE s \in Queuers  BY <3>4, <3>5
    <3>6. CASE s \notin Queuers
      <4>1. position[s] = Service
        BY <3>1, <3>3, <3>6, QueuersAre DEF InLine, ZoneInv, SlotsMatchFloor
      <4>2. p = 0  BY <1>1, <3>2, <4>1, Places
      <4>3. QED  BY <3>1, <3>4, <4>2
    <3>7. QED  BY <3>5, <3>6
  <2>3. ASSUME NEW s \in Robots, LinePlace[s] = p PROVE slot[p] # Nobody
    <3>1. status[s] \in InLine  BY <1>1, <2>1, <2>3
    <3>2. position[s] \in ZoneCells /\ Priority(position[s]) = p  BY <1>1, <2>3, <3>1
    <3>3. zone.slots[p + 1] \in ZoneCells  BY <1>1, <2>1, ZoneFacts
    <3>4. position[s] = zone.slots[p + 1]  BY <1>1, <2>1, <3>2, <3>3, ZoneFacts
    <3>5. slot[p] = s  BY <2>1, <3>2, <3>4 DEF ZoneInv, SlotsMatchFloor
    <3>6. QED  BY <3>5, RobotsAssumption
  <2>4. QED  BY <1>2, <2>2, <2>3
<1> DEFINE FreeAhead(r) == \E p \in 0 .. before[r] - 1 :
                               p \notin held /\ \A s \in Queuers : before[s] # p
<1>10. ASSUME NEW r \in Queuers PROVE FreeAhead(r) <=> ~Stuck(r)
  <2>1. before[r] = Place(r) /\ Place(r) \in 1 .. n  BY <1>8
  <2>2. \A p : p \in 0 .. before[r] - 1 <=> p \in Slots /\ p < Place(r)
    BY <1>1, <1>2, <2>1
  <2> HIDE DEF before, held
  <2>3. QED  BY <1>9, <2>2 DEF Stuck
<1>11. ASSUME NEW r \in Queuers, FreeAhead(r),
              \A s \in Queuers : FreeAhead(s) => before[r] <= before[s]
       PROVE  Leader(r)
  <2>1. ~Stuck(r) /\ \A s \in Queuers : ~Stuck(s) => before[r] <= before[s]
    BY <1>10, <1>11
  <2>2. QED  BY <1>8, <2>1 DEF Leader
<1>12. ASSUME NEW r \in Queuers, position'[r] # position[r] PROVE after[r] # before[r]
  BY <1>1, <1>2, <1>5, <1>8, <1>12, ZoneFacts DEF Place
<1>13. ASSUME NEW r \in Queuers, after[r] \in held PROVE FALSE
  <2>1. PICK s \in Robots : LinePlace[s] = 0 /\ after[r] = 0  BY <1>13
  <2>2. s \notin Queuers /\ status[s] \in InLine  BY <1>1, <1>8, <2>1
  <2>3. LinePlace[s] = Priority(position[s]) /\ position[s] \in ZoneCells  BY <1>1, <2>2
  <2>4. Priority(position'[r]) = 0 /\ position'[r] \in ZoneCells  BY <1>2, <1>5, <2>1
  <2>5. position'[r] = position[s]  BY <1>1, <2>1, <2>3, <2>4, ZoneFacts
  <2>6. position'[r] = position'[s] /\ position'[r] # Nowhere
    BY <1>1, <1>2, <2>2, <2>4, <2>5, ZoneFacts
  <2>7. QED  BY <1>2, <2>2, <2>6
<1>14. ASSUME NEW r \in Queuers, NEW s \in Queuers, after[r] = after[s] PROVE r = s
  <2>1. Priority(position'[r]) = Priority(position'[s])  BY <1>5, <1>14
  <2>2. position'[r] = position'[s] /\ position'[r] # Nowhere
    BY <1>1, <1>2, <2>1, ZoneFacts
  <2>3. QED  BY <1>2, <2>2
<1>15. /\ \A r \in Queuers :
              /\ ~FreeAhead(r) => after[r] = before[r]
              /\ FreeAhead(r) /\ (\A s \in Queuers : FreeAhead(s) => before[r] <= before[s])
                     => after[r] # before[r]
              /\ after[r] # before[r] => after[r] \notin held
       /\ \A r, s \in Queuers : after[r] = after[s] => r = s
  <2>1. \A r \in Queuers : ~FreeAhead(r) => after[r] = before[r]
    <3> TAKE r \in Queuers
    <3>1. Stuck(r) => position'[r] = position[r]  BY <1>2
    <3>2. ~FreeAhead(r) => Stuck(r)  BY <1>10
    <3>3. position'[r] = position[r] => after[r] = before[r]  BY <1>5, <1>8 DEF Place
    <3>4. QED  BY <3>1, <3>2, <3>3
  <2>2. \A r \in Queuers : Leader(r) => after[r] # before[r]  BY <1>2, <1>12
  <2> HIDE DEF FreeAhead, before, after, held
  <2>3. QED  BY <1>11, <1>13, <1>14, <2>1, <2>2
<1>16. Line!Advances(before, after, held)
  <2>1. DOMAIN before = Queuers  OBVIOUS
  <2> HIDE DEF before, after, held
  <2>2. QED  BY <1>15, <2>1 DEF Line!Advances
<1>17. Straight => Line!StepsUp(before, after)
  <2>1. Straight => \A r \in Queuers : after[r] \in {before[r], before[r] - 1}
    BY <1>2, <1>5, <1>8
  <2>2. DOMAIN before = Queuers  OBVIOUS
  <2> HIDE DEF before, after
  <2>3. QED  BY <2>1, <2>2 DEF Line!StepsUp
<1>18. QED
  <2>1. Len(zone.slots)' = Len(zone.slots) /\ Straight' = Straight  BY <1>2, <1>3
  <2>2. Line!Advances([r \in Line!Queuing |-> LinePlace[r]], [r \in Line!Queuing |-> LinePlace'[r]], held)
    BY <1>1, <1>16
  <2>3. \A r \in Robots \ Line!Queuing : LinePlace'[r] = LinePlace[r]  BY <1>1, <1>6
  <2>4. Straight => Line!StepsUp([r \in Line!Queuing |-> LinePlace[r]],
                                 [r \in Line!Queuing |-> LinePlace'[r]])
    BY <1>1, <1>17
  <2>5. QED  BY <1>7, <2>1, <2>2, <2>3, <2>4 DEF Line!Advance, LinePlace

LEMMA CheckInEntersLine ==
    ASSUME ZoneInv, NEW r \in Robots, CheckInFromEntry(r)
    PROVE  Line!Enter(r)
<1> DEFINE n == Len(zone.slots)
<1>1. /\ Sound(zone) /\ n \in Nat \ {0} /\ Nowhere \notin Nat
      /\ \A s \in Robots :
             /\ status[s] \in InLine =>
                    /\ position[s] \in ZoneCells
                    /\ LinePlace[s] = Priority(position[s])
             /\ status[s] \notin InLine => LinePlace[s] = Nowhere
  BY LineFacts
<1>2. /\ status[r] = "arrived" /\ status' = [status EXCEPT ![r] = "queuing"]
      /\ zone' = zone /\ position' = position
      /\ status \in [Robots -> {"away", "arrived", "queuing", "delivering", "exiting", "exited"}]
  BY DEF CheckInFromEntry, ZoneInv, TypeOK
<1>3. position[r] = zone.entry /\ zone.entry \in ZoneCells /\ Priority(zone.entry) = n
  <2>1. position[r] = zone.entry /\ zone.entry # Nowhere  BY <1>2 DEF ZoneInv, ArrivalsStand
  <2>2. QED  BY <1>1, <2>1, ZoneFacts, Places
<1>4. ASSUME NEW s \in Robots PROVE LinePlace[s] # n
  <2>1. CASE status[s] \notin InLine  BY <1>1, <2>1
  <2>2. CASE status[s] \in InLine
    <3> SUFFICES ASSUME LinePlace[s] = n PROVE FALSE
      OBVIOUS
    <3>1. position[s] = position[r] /\ position[s] # Nowhere  BY <1>1, <1>3, <2>2, ZoneFacts
    <3>2. s = r  BY <3>1 DEF ZoneInv, OneRobotPerCell
    <3>3. QED  BY <1>2, <2>2, <3>2 DEF InLine
  <2>3. QED  BY <2>1, <2>2
<1>5. Straight' = Straight /\ \A c : Priority(c)' = Priority(c)  BY <1>2, SameZone
<1>6. LinePlace' = [LinePlace EXCEPT ![r] = n]
  <2>1. LinePlace' = [s \in Robots |-> IF status'[s] \in {"queuing", "delivering", "exiting"}
                                       THEN Priority(position[s]) ELSE Nowhere]
    BY <1>2, <1>5 DEF LinePlace
  <2>2. \A s \in Robots : LinePlace'[s] = IF s = r THEN n ELSE LinePlace[s]
    BY <1>2, <1>3, <2>1 DEF LinePlace
  <2>3. QED  BY <2>1, <2>2 DEF LinePlace
<1>7. LinePlace[r] = Nowhere  BY <1>1, <1>2 DEF InLine
<1>8. QED  BY <1>2, <1>4, <1>5, <1>6, <1>7 DEF Line!Enter, LinePlace

LEMMA ReleaseServesLine ==
    ASSUME ZoneInv, NEW r \in Robots, ReleaseToExit(r)
    PROVE  Line!Serve(r)
<1>1. /\ Sound(zone)
      /\ \A s \in Robots :
             /\ status[s] \in InLine => LinePlace[s] = Priority(position[s])
             /\ status[s] \notin InLine => LinePlace[s] = Nowhere
  BY LineFacts
<1>2. /\ status[r] = "exiting" /\ status' = [status EXCEPT ![r] = "exited"]
      /\ zone' = zone /\ position' = [position EXCEPT ![r] = zone.exit]
      /\ status \in [Robots -> {"away", "arrived", "queuing", "delivering", "exiting", "exited"}]
      /\ position \in [Robots -> Cells]
  BY DEF ReleaseToExit, ZoneInv, TypeOK
<1>3. LinePlace[r] = 0
  <2>1. position[r] = Service  BY <1>2 DEF ZoneInv, SlotsMatchFloor
  <2>2. QED  BY <1>1, <1>2, <2>1, Places DEF InLine
<1>4. Straight' = Straight /\ \A c : Priority(c)' = Priority(c)  BY <1>2, SameZone
<1>5. LinePlace' = [LinePlace EXCEPT ![r] = Nowhere]
  <2>1. LinePlace' = [s \in Robots |-> IF status'[s] \in {"queuing", "delivering", "exiting"}
                                       THEN Priority(position'[s]) ELSE Nowhere]
    BY <1>4 DEF LinePlace
  <2>2. \A s \in Robots : LinePlace'[s] = IF s = r THEN Nowhere ELSE LinePlace[s]
    BY <1>2, <2>1 DEF LinePlace
  <2>3. QED  BY <2>1, <2>2 DEF LinePlace
<1>6. QED  BY <1>2, <1>3, <1>4, <1>5 DEF Line!Serve, LinePlace

(* Whatever happens to a robot outside the line leaves the line alone.      *)
LEMMA LineStutters ==
    ASSUME ZoneInv, zone' = zone,
           NEW r \in Robots, NEW cell, NEW st,
           position' = [position EXCEPT ![r] = cell],
           status' = [status EXCEPT ![r] = st],
           (status[r] \notin InLine /\ st \notin InLine)
               \/ (status[r] \in InLine /\ st \in InLine /\ cell = position[r])
    PROVE  UNCHANGED LineState
<1>1. /\ status \in [Robots -> {"away", "arrived", "queuing", "delivering", "exiting", "exited"}]
      /\ position \in [Robots -> Cells]
  BY DEF ZoneInv, TypeOK
<1>2. Straight' = Straight /\ \A c : Priority(c)' = Priority(c)  BY SameZone
<1>3. LinePlace' = [s \in Robots |-> IF status'[s] \in {"queuing", "delivering", "exiting"}
                                     THEN Priority(position'[s]) ELSE Nowhere]
  BY <1>2 DEF LinePlace
<1>4. \A s \in Robots : LinePlace'[s] = LinePlace[s]  BY <1>1, <1>3 DEF LinePlace, InLine
<1>5. LinePlace' = LinePlace  BY <1>3, <1>4 DEF LinePlace
<1>6. QED  BY <1>2, <1>5 DEF LineState

LEMMA StepOfLine ==
    ASSUME ZoneInv, [Next]_vars
    PROVE  [Line!Next]_LineState
<1>1. /\ status \in [Robots -> {"away", "arrived", "queuing", "delivering", "exiting", "exited"}]
      /\ position \in [Robots -> Cells]
  BY DEF ZoneInv, TypeOK
<1>2. CASE Cascade  BY <1>2, CascadeIsAdvance DEF Line!Next
<1>3. CASE NextTick \/ UNCHANGED vars
  <2>1. zone' = zone /\ position' = position /\ status' = status  BY <1>3 DEF NextTick, vars
  <2>2. Straight' = Straight /\ \A c : Priority(c)' = Priority(c)  BY <2>1, SameZone
  <2>3. LinePlace' = LinePlace  BY <2>1, <2>2 DEF LinePlace
  <2>4. QED  BY <2>1, <2>2, <2>3 DEF LineState
<1>4. ASSUME NEW r \in Robots, Arrive(r) PROVE UNCHANGED LineState
  BY <1>1, <1>4, LineStutters DEF Arrive, InLine
<1>5. ASSUME NEW r \in Robots, Visit(r) PROVE UNCHANGED LineState
  <2>1. PICK cell : position' = [position EXCEPT ![r] = cell]  BY <1>5 DEF Visit
  <2>2. position[r] = Nowhere /\ zone' = zone /\ status' = [status EXCEPT ![r] = status[r]]
    BY <1>1, <1>5 DEF Visit
  <2>3. status[r] \notin InLine
    <3>1. Nowhere \notin ZoneCells  BY LineFacts, ZoneFacts
    <3>2. QED  BY <2>2, <3>1, LineFacts
  <2>4. QED  BY <2>1, <2>2, <2>3, LineStutters
<1>6. ASSUME NEW r \in Robots, MoveOn(r) PROVE UNCHANGED LineState
  BY <1>1, <1>6, LineStutters DEF MoveOn, InLine
<1>7. ASSUME NEW r \in Robots, ServiceDone(r) PROVE UNCHANGED LineState
  <2>1. position' = [position EXCEPT ![r] = position[r]]  BY <1>1, <1>7 DEF ServiceDone
  <2>2. QED  BY <1>1, <1>7, <2>1, LineStutters DEF ServiceDone, InLine
<1>8. ASSUME NEW r \in Robots, CheckInFromEntry(r) PROVE Line!Next
  BY <1>8, CheckInEntersLine DEF Line!Next
<1>9. ASSUME NEW r \in Robots, ReleaseToExit(r) PROVE Line!Next
  BY <1>9, ReleaseServesLine DEF Line!Next
<1>10. QED  BY <1>2, <1>3, <1>4, <1>5, <1>6, <1>7, <1>8, <1>9 DEF Next

(* The zone implements the line of places: robots enter at its end, advance  *)
(* in its order whatever the shape of the zone, skip or lose no place where   *)
(* the zone is straight, and leave from place 0.                             *)
THEOREM ZoneImplementsLine == Spec => LineSpec
<1>1. Init => Line!Init
  <2> SUFFICES ASSUME Init PROVE Line!Init
    OBVIOUS
  <2>1. LinePlace = [r \in Robots |-> Nowhere]  BY DEF Init, LinePlace
  <2>2. Len(zone.slots) \in Nat \ {0}  BY InitHasZoneInv, LineFacts
  <2>3. Straight \in BOOLEAN  BY DEF Straight
  <2>4. QED  BY <2>1, <2>2, <2>3 DEF Line!Init, LinePlace
<1>2. ZoneInv /\ [Next]_vars => [Line!Next]_LineState  BY StepOfLine
<1>3. ZoneInv /\ [Next]_vars => [Line!Next]_Line!vars  BY <1>2 DEF Line!vars, LineState, LinePlace
<1>4. QED  BY <1>1, <1>3, ZoneInvHolds, PTL DEF Spec, LineSpec, Line!Spec

=============================================================================
