----------------------------- MODULE StationZone -----------------------------
(***************************************************************************)
(* The zone of one station on the grid: where its cells lie                *)
(* (_auto_layout), how the queuing robots move through them each tick       *)
(* (StationQueueState.cascade and its breadth-first search), how robots     *)
(* check in at the entry and are released to the exit.                      *)
(*                                                                         *)
(* Abstracted: the token ledger (StationAdmission), the routes outside the  *)
(* zone, the phases of a tick (here arrivals, services and departures       *)
(* happen in any order between two cascades), the pods the robots carry     *)
(* (cascade and release_to_exit move them with the robot).                  *)
(***************************************************************************)
EXTENDS Integers, Sequences, FiniteSets, SequencesExt

CONSTANTS
    Robots,      \* robot ids
    Sites,       \* stations without an explicit layout: inputs of _auto_layout
    Explicit,    \* zones given explicitly in the configuration
    Nobody,      \* the content of a free slot
    Nowhere      \* no cell: a missing entry or exit, a robot far away

Grid == Int \X Int

ASSUME RobotsAssumption  == Robots \subseteq Nat /\ IsFiniteSet(Robots) /\ Nobody \notin Robots
ASSUME NowhereAssumption == Nowhere \notin Grid \cup Nat

VARIABLES
    zone,        \* the station's cells: [slots, entry, exit]
    position,    \* robot -> the cell it stands on
    status,      \* robot -> its AgentStatus, as far as the station sees it
    slot,        \* slot priority -> the robot that owns the slot
    due          \* whether the cascade of the current tick is still to come

vars == <<zone, position, status, slot, due>>

-----------------------------------------------------------------------------
(* _auto_layout. A site has the size of the map, the station's cell, the    *)
(* wanted lengths of queue and buffer, and the cells that are no longer     *)
(* FREE: walls (obstacles and pod homes) and stations.                      *)
Shift(cell, dir, n) == <<cell[1] + n * dir[1], cell[2] + n * dir[2]>>
Back(dir) == <<-dir[1], -dir[2]>>

Inwards(site) ==
    LET r == site.cell[1]
        c == site.cell[2]
    IN  IF r = 0 THEN <<1, 0>>
        ELSE IF r = site.rows - 1 THEN <<-1, 0>>
        ELSE IF c = 0 THEN <<0, 1>>
        ELSE IF c = site.cols - 1 THEN <<0, -1>>
        ELSE <<1, 0>>

Sideways(site) == IF Inwards(site)[1] # 0 THEN <<0, 1>> ELSE <<1, 0>>

OnMap(site, cell) == cell[1] \in 0 .. site.rows - 1 /\ cell[2] \in 0 .. site.cols - 1
IsValid(site, cell) == OnMap(site, cell) /\ cell \notin site.walls
IsFree(site, cell)  == IsValid(site, cell) /\ cell \notin site.stations

(* The first cells from "start" in one direction, up to an invalid one.     *)
Run(site, start, dir, length) ==
    LET cells == [i \in 1 .. length |-> Shift(start, dir, i)]
        bad   == {i \in 1 .. length : ~IsValid(site, cells[i])}
    IN  IF bad = {} THEN cells ELSE SubSeq(cells, 1, Min(bad) - 1)

FirstFreeAnywhere(site, candidates, taken) ==                    \* faulty
    LET good == {i \in DOMAIN candidates : IsFree(site, candidates[i])}
    IN  IF good = {} THEN Nowhere ELSE candidates[Min(good)]

FirstFree(site, candidates, taken) ==
    LET good == {i \in DOMAIN candidates :
                     IsFree(site, candidates[i]) /\ candidates[i] \notin taken}
    IN  IF good = {} THEN Nowhere ELSE candidates[Min(good)]

AutoLayout(site) ==
    LET dir     == Inwards(site)
        side    == Sideways(site)
        service == site.cell
        queue   == Run(site, service, dir, site.queue)
        tail    == IF queue = <<>> THEN service ELSE Last(queue)
        buffer  == Run(site, tail, side, site.buffer)
        anchor  == IF buffer = <<>> THEN tail ELSE Last(buffer)
        slots   == <<service>> \o queue \o buffer
        taken   == Range(slots)
    IN  [slots |-> slots,
         entry |-> FirstFree(site, <<Shift(anchor, side, 1), Shift(anchor, dir, 1),
                                     Shift(anchor, dir, -1)>>, taken),
         exit  |-> FirstFree(site, <<Shift(service, side, -1), Shift(service, side, 1)>>,
                             taken)]

Zones == Explicit \cup {AutoLayout(site) : site \in Sites}

Neighbors(cell) == << <<cell[1] - 1, cell[2]>>, <<cell[1] + 1, cell[2]>>,
                      <<cell[1], cell[2] - 1>>, <<cell[1], cell[2] + 1>> >>

(* A zone robots can pass through: distinct cells, each slot next to the    *)
(* one before it, the entry next to the last slot and the exit next to the  *)
(* service cell. Entry and exit are distinct cells too unless queue and     *)
(* buffer have been cut down to a single cell each or to none.              *)
IsPassable(z) ==
    LET slots == z.slots
        n     == Len(slots)
    IN  /\ \A i, j \in 1 .. n : slots[i] = slots[j] => i = j
        /\ \A i \in 2 .. n : slots[i] \in Range(Neighbors(slots[i - 1]))
        /\ {z.entry, z.exit} \cap Range(slots) = {}
        /\ z.entry # Nowhere => z.entry \in Range(Neighbors(slots[n]))
        /\ z.exit # Nowhere => z.exit \in Range(Neighbors(slots[1]))
        /\ z.entry = z.exit => z.entry = Nowhere \/ n \in {1, 3}

(* The code does not check a zone that is configured explicitly; it takes   *)
(* for granted what these assumptions say. Sites are stations on the map.   *)
ASSUME ExplicitAssumption ==
    \A z \in Explicit :
        /\ z.slots \in Seq(Grid) /\ z.slots # <<>>
        /\ z.entry \in Grid \cup {Nowhere} /\ z.exit \in Grid \cup {Nowhere}
        /\ IsPassable(z)
ASSUME SitesAssumption ==
    \A site \in Sites :
        /\ site.rows \in Nat /\ site.cols \in Nat
        /\ site.cell \in (0 .. site.rows - 1) \X (0 .. site.cols - 1)
        /\ site.queue \in Nat /\ site.buffer \in Nat

-----------------------------------------------------------------------------
Service   == zone.slots[1]
Priority(cell) == IF cell \in Range(zone.slots)
                  THEN (CHOOSE i \in DOMAIN zone.slots : zone.slots[i] = cell) - 1
                  ELSE Len(zone.slots)
Slots     == 0 .. Len(zone.slots) - 1
ZoneCells == Range(zone.slots) \cup ({zone.entry} \ {Nowhere})
Straight  == \A c, d \in ZoneCells :
                 d \in Range(Neighbors(c)) => Priority(d) - Priority(c) \in {-1, 1}
Occupied(where) == {where[r] : r \in Robots} \ {Nowhere}
HasSpace  == \E p \in Slots : slot[p] = Nobody

(* _bfs_next_step: the first step of a shortest path from start to goal     *)
(* through the zone's open cells; of several, the search takes the one      *)
(* whose first step comes first in the order of Neighbors. The goal itself  *)
(* may be blocked.                                                          *)
Beeline(start, goal, blocked) ==                                 \* faulty
    LET distance(c) == (c[1] - goal[1])^2 + (c[2] - goal[2])^2
        ahead == {c \in Range(Neighbors(start)) \ blocked : distance(c) < distance(start)}
    IN  IF ahead = {} THEN Nowhere ELSE CHOOSE c \in ahead : TRUE

Within(goal, open) ==
    LET within[k \in 0 .. Cardinality(ZoneCells)] ==
            IF k = 0 THEN {goal}
            ELSE LET near == within[k - 1]
                 IN  near \cup {c \in open : Range(Neighbors(c)) \cap near # {}}
    IN  within

NextStep(start, goal, blocked) ==
    LET within  == Within(goal, ZoneCells \ blocked)
        lengths == {k \in 0 .. Cardinality(ZoneCells) : start \in within[k]}
        closer  == within[Min(lengths) - 1]
    IN  IF lengths = {} THEN Nowhere
        ELSE Neighbors(start)[Min({i \in 1 .. 4 : Neighbors(start)[i] \in closer})]

(* One robot's turn in a cascade: it claims the free slot closest to the     *)
(* service slot among those ahead of it and takes one step towards it.      *)
Turn(now, r) ==
    LET here    == now.position[r]
        targets == {p \in Slots : /\ p < Priority(here)
                                  /\ now.slot[p] = Nobody /\ p \notin now.claimed}
        claimed == now.claimed \cup {Min(targets)}
        blocked == Occupied(now.position) \ {here}
        next    == NextStep(here, zone.slots[Min(targets) + 1], blocked)
        taken   == /\ next \in Occupied(now.position)
                   /\ \/ next \notin Range(zone.slots)
                      \/ now.slot[Priority(next)] # Nobody
    IN  IF here = Service \/ targets = {} THEN now
        ELSE IF next = Nowhere \/ taken THEN [now EXCEPT !.claimed = claimed]
        ELSE [now EXCEPT !.claimed = claimed,
                         !.position = [now.position EXCEPT ![r] = next],
                         !.slot = [p \in Slots |-> IF next = zone.slots[p + 1] THEN r
                                                   ELSE IF now.slot[p] = r THEN Nobody
                                                   ELSE now.slot[p]]]

ByRobotId(r, s) == r < s                                         \* faulty

Before(r, s) ==
    \/ Priority(position[r]) < Priority(position[s])
    \/ Priority(position[r]) = Priority(position[s]) /\ r < s

Queuers == {r \in Robots : /\ status[r] = "queuing"
                           /\ \/ \E p \in Slots : slot[p] = r
                              \/ position[r] = zone.entry}

(* Robots take their turns by the priority of their cell, then by id, as     *)
(* these were before the cascade.                                           *)
Foremost(left) == CHOOSE r \in left : \A s \in left \ {r} : Before(r, s)

(* After k turns: where the robots stand, who owns the slots, which of them  *)
(* are claimed and who is still to come.                                    *)
Turns[k \in 0 .. Cardinality(Queuers)] ==
    IF k = 0 THEN [position |-> position, slot |-> slot, claimed |-> {}, left |-> Queuers]
    ELSE LET now == Turns[k - 1]
             r   == Foremost(now.left)
         IN  [Turn(now, r) EXCEPT !.left = now.left \ {r}]

-----------------------------------------------------------------------------
Init ==
    /\ zone \in Zones
    /\ position = [r \in Robots |-> Nowhere]
    /\ status = [r \in Robots |-> "away"]
    /\ slot = [p \in Slots |-> Nobody]
    /\ due = TRUE

Cascade ==
    LET done == Turns[Cardinality(Queuers)]
    IN  /\ due /\ due' = FALSE
        /\ position' = done.position
        /\ slot' = done.slot
        /\ status' = [r \in Robots |-> IF /\ position[r] # Service
                                          /\ done.position[r] = Service
                                       THEN "delivering" ELSE status[r]]
        /\ UNCHANGED zone

NextTick == ~due /\ due' = TRUE /\ UNCHANGED <<zone, position, status, slot>>

(* A robot reaches the entry in a movement phase: to deliver, or, as any    *)
(* robot may on the entry and the exit cell, on its way elsewhere.          *)
Arrive(r) ==
    /\ status[r] = "away" /\ zone.entry # Nowhere
    /\ \/ position[r] = Nowhere /\ zone.entry \notin Occupied(position)
       \/ position[r] = zone.entry
    /\ position' = [position EXCEPT ![r] = zone.entry]
    /\ status' = [status EXCEPT ![r] = "arrived"]
    /\ UNCHANGED <<zone, slot, due>>

Visit(r) ==
    /\ position[r] = Nowhere
    /\ \E cell \in {zone.entry, zone.exit} \ (Occupied(position) \cup {Nowhere}) :
           position' = [position EXCEPT ![r] = cell]
    /\ UNCHANGED <<zone, status, slot, due>>

MoveOn(r) ==
    /\ status[r] \in {"away", "exited"} /\ position[r] # Nowhere
    /\ position' = [position EXCEPT ![r] = Nowhere]
    /\ status' = [status EXCEPT ![r] = "away"]
    /\ UNCHANGED <<zone, slot, due>>

CheckInFromEntry(r) ==
    /\ status[r] = "arrived" /\ HasSpace
    /\ status' = [status EXCEPT ![r] = "queuing"]
    /\ UNCHANGED <<zone, position, slot, due>>

ServiceDone(r) ==
    /\ status[r] = "delivering"
    /\ status' = [status EXCEPT ![r] = "exiting"]
    /\ UNCHANGED <<zone, position, slot, due>>

ReleaseKeepsSlot(r) ==                                           \* faulty
    /\ status[r] = "exiting"
    /\ zone.exit \notin Occupied(position) \cup {Nowhere}
    /\ position' = [position EXCEPT ![r] = zone.exit]
    /\ status' = [status EXCEPT ![r] = "exited"]
    /\ UNCHANGED <<zone, slot, due>>

ReleaseUnseen(r) ==                                              \* faulty
    /\ status[r] = "exiting" /\ zone.exit # Nowhere
    /\ slot' = [p \in Slots |-> IF slot[p] = r THEN Nobody ELSE slot[p]]
    /\ position' = [position EXCEPT ![r] = zone.exit]
    /\ status' = [status EXCEPT ![r] = "exited"]
    /\ UNCHANGED <<zone, due>>

ReleaseToExit(r) ==
    /\ status[r] = "exiting"
    /\ zone.exit \notin Occupied(position) \cup {Nowhere}
    /\ slot' = [p \in Slots |-> IF slot[p] = r THEN Nobody ELSE slot[p]]
    /\ position' = [position EXCEPT ![r] = zone.exit]
    /\ status' = [status EXCEPT ![r] = "exited"]
    /\ UNCHANGED <<zone, due>>

Next ==
    \/ Cascade
    \/ NextTick
    \/ \E r \in Robots : \/ Arrive(r) \/ Visit(r) \/ MoveOn(r)
                         \/ CheckInFromEntry(r)
                         \/ ServiceDone(r) \/ ReleaseToExit(r)

Spec == Init /\ [][Next]_vars

(* The tick loop runs on: the next cascade always comes, countdowns run     *)
(* out, a robot that is done at the station or only passes leaves, and one  *)
(* whose exit cell is free again and again gets its turn there.             *)
Fairness ==
    /\ WF_due(due' = ~due)
    /\ \A r \in Robots : /\ WF_vars(ServiceDone(r))
                         /\ WF_vars(MoveOn(r))
                         /\ SF_vars(ReleaseToExit(r))

FairSpec == Spec /\ Fairness

-----------------------------------------------------------------------------
Cells == Range(zone.slots) \cup {zone.entry, zone.exit, Nowhere}

TypeOK ==
    /\ zone \in Zones
    /\ position \in [Robots -> Cells]
    /\ status \in [Robots -> {"away", "arrived", "queuing", "delivering", "exiting", "exited"}]
    /\ slot \in [Slots -> Robots \cup {Nobody}]
    /\ due \in BOOLEAN

(* The slots agree with the floor: a slot belongs to the robot standing on   *)
(* its cell and nobody else ever stands there, queuing robots are in a slot *)
(* or on the entry, a robot is in the service slot from the start of its    *)
(* service to its release. A move that rewrites one of position and slot    *)
(* without the other, or overwrites a slot on the way, would lose a robot.  *)
SlotsMatchFloor ==
    /\ \A p \in Slots : slot[p] # Nobody => position[slot[p]] = zone.slots[p + 1]
    /\ \A r \in Robots :
           /\ position[r] \in Range(zone.slots) => slot[Priority(position[r])] = r
           /\ status[r] = "queuing" =>
                  position[r] \in (Range(zone.slots) \cup {zone.entry}) \ {Service}
           /\ status[r] \in {"delivering", "exiting"} => position[r] = Service
           /\ status[r] \in {"away", "arrived", "exited"} =>
                  position[r] \notin Range(zone.slots)

(* No two robots ever stand on one cell of the zone or of its handoff cells. *)
OneRobotPerCell ==
    \A r, s \in Robots : position[r] = position[s] /\ position[r] # Nowhere => r = s

(* _auto_layout yields a zone robots can pass through, whatever the edge,   *)
(* the walls and the truncation.                                            *)
LayoutIsPassable == IsPassable(zone)

(* A service slot that falls free is taken by nobody but the robot in the    *)
(* first queue slot: none from behind overtakes it, not even where the zone *)
(* folds back and the entry touches the service cell.                       *)
FirstInQueueIsNext ==
    [][\A r \in Robots :
          /\ Len(zone.slots) > 1 /\ slot[1] = r /\ status[r] = "queuing"
          /\ slot'[0] # slot[0] /\ slot'[0] # Nobody
          => slot'[0] = r]_vars

(* A queuing robot "never moves backward in the queue", says the docstring   *)
(* of cascade (station_state.py:1234-1237): no step leads to a cell of a     *)
(* later slot, or back to the entry. The search looks at the target slot     *)
(* only, not at the priorities of the cells on the way there.               *)
NeverMovesBackward ==
    [][\A r \in Robots : status[r] = "queuing" =>
           Priority(position'[r]) <= Priority(position[r])]_vars

(* A robot that has checked in is served eventually, in every zone that has *)
(* an exit cell of its own.                                                 *)
Served ==
    zone.exit \notin {Nowhere, zone.entry} =>
        \A r \in Robots : status[r] = "queuing" ~> status[r] = "delivering"

(* On the grid the zone is the line of places QueueLine describes: cascades  *)
(* move the first robot that can move and nobody without a free slot ahead, *)
(* and in a straight zone nobody loses a place or skips one.                *)
Line == INSTANCE QueueLine
    WITH capacity <- Len(zone.slots),
         straight <- Straight,
         Gone <- Nowhere,
         place <- [r \in Robots |->
                      IF status[r] \in {"queuing", "delivering", "exiting"}
                      THEN Priority(position[r]) ELSE Nowhere]
LineSpec == Line!Spec

=============================================================================
