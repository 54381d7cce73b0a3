------------------------------- MODULE Movement -------------------------------
(***************************************************************************)
(* The robots on the floor: who moves in a tick, whom the resolver of       *)
(* SimulationEngine._move_agents blocks, and what the robots travel for.    *)
(*                                                                         *)
(* The planners are left open here: a robot that is under way may intend    *)
(* any step (a path may be as old and as stale as it likes). JointPlanning  *)
(* adds the planner that decides the steps of a tick together.              *)
(*                                                                         *)
(* Abstracted: the inside of the station's zone (StationZone), which a      *)
(* robot enters from the entry cell and leaves onto the exit cell; which    *)
(* pod an order needs and which robot fetches it (Dispatch); countdowns.    *)
(***************************************************************************)
EXTENDS Integers, FiniteSets

CONSTANTS
    Robots,
    Pods,
    Cells,       \* walkable cells of the map
    Adjacent,    \* MapState.get_neighbors: cell -> cells next to it
    Home,        \* pod -> the cell it is stored on
    Entry,       \* handoff cells of the station
    Exit,
    Capacity,    \* admission tokens of the station
    Inside,      \* the position of a robot in the station's slots
    Nothing      \* no pod

ASSUME FloorAssumption ==
    /\ Adjacent \in [Cells -> SUBSET Cells]
    /\ Entry \in Cells /\ Exit \in Cells /\ Entry # Exit
    /\ Home \in [Pods -> Cells \ {Entry, Exit}]
    /\ Inside \notin Cells /\ Nothing \notin Pods
ASSUME RobotsAssumption == IsFiniteSet(Robots) /\ Capacity \in Nat

VARIABLES
    position,    \* robot -> the cell it stands on
    leg,         \* robot -> what it is doing
    load         \* robot -> the pod it fetches or carries

vars == <<position, leg, load>>

-----------------------------------------------------------------------------
(* AgentStatus with the status of the robot's DELIVER task.                 *)
Leg == {
    "idle",
    "fetch",      \* MOVING_TO_POD
    "loaded",     \* pod lifted, DELIVER not activated: waits where it is
    "deliver",    \* CARRYING, DELIVER in progress, on the way to the entry
    "inside",     \* QUEUING or DELIVERING
    "exiting",    \* EXITING, still in the service slot
    "exited",     \* EXITING on the exit cell
    "return"}     \* RETURNING

Carrying(r) == leg[r] \in Leg \ {"idle", "fetch"}

Goal(r) == IF leg[r] = "loaded" \/ leg[r] = "deliver" THEN Entry ELSE Home[load[r]]

Arrived(r) == leg[r] \in {"fetch", "deliver", "return"} /\ position[r] = Goal(r)

UnderWay == {r \in Robots : leg[r] \in {"fetch", "deliver", "return"}
                            /\ position[r] # Goal(r)}

Admitted == {r \in Robots : leg[r] \in {"deliver", "inside", "exiting"}}

(* What may be activated in a tick: the station has a token for each.       *)
Admissible ==
    {new \in SUBSET {r \in Robots : leg[r] = "loaded"} :
        Cardinality(Admitted \cup new) <= Capacity}

-----------------------------------------------------------------------------
(* _move_agents. "next" gives the step each robot with a path intends. A    *)
(* robot is blocked whose cell is wanted by another one, or taken by a      *)
(* robot that does not move, be it for lack of a path or because it is      *)
(* blocked itself: the least set closed under that rule.                    *)
BlocksAll(next, blocked) ==
    \A r \in DOMAIN next :
        \/ \E q \in DOMAIN next \ {r} : next[q] = next[r]
        \/ \E q \in (Robots \ DOMAIN next) \cup blocked : position[q] = next[r]
        => r \in blocked

OnlyContested(next) ==                                           \* faulty
    {r \in DOMAIN next :
        \/ \E q \in DOMAIN next \ {r} : next[q] = next[r]
        \/ \E q \in Robots \ DOMAIN next : position[q] = next[r]}

Blocked(next) ==
    LET closed == {blocked \in SUBSET DOMAIN next : BlocksAll(next, blocked)}
    IN  {r \in DOMAIN next : \A blocked \in closed : r \in blocked}

MoveAgents(next) ==
    LET moving == DOMAIN next \ Blocked(next)
    IN  position' = [r \in Robots |-> IF r \in moving THEN next[r] ELSE position[r]]

(* A tick's planning and movement: the robots under way and those that are  *)
(* activated have a path or not. A step of a path that waits in its cell is *)
(* as good as no path.                                                      *)
Tick(new, next) ==
    /\ MoveAgents(next)
    /\ leg' = [r \in Robots |-> IF r \in new THEN "deliver" ELSE leg[r]]
    /\ UNCHANGED load

AnyTick ==
    \E new \in Admissible : \E movable \in SUBSET (UnderWay \cup new) :
        \E next \in [movable -> Cells] :
            /\ \A r \in movable : next[r] \in Adjacent[position[r]]
            /\ Tick(new, next)

-----------------------------------------------------------------------------
(* An idle robot that stands on the pod's cell is the nearest to it.        *)
Assign(r, p) ==
    /\ leg[r] = "idle"
    /\ \A q \in Robots : load[q] # p
    /\ \A q \in Robots \ {r} : position[q] = Home[p] => leg[q] # "idle"
    /\ leg' = [leg EXCEPT ![r] = "fetch"]
    /\ load' = [load EXCEPT ![r] = p]
    /\ UNCHANGED position

PickUp(r) ==
    /\ leg[r] = "fetch" /\ Arrived(r)
    /\ leg' = [leg EXCEPT ![r] = "loaded"]
    /\ UNCHANGED <<position, load>>

(* The robot checks in on the entry and is taken into a slot.               *)
Absorb(r) ==
    /\ leg[r] = "deliver" /\ Arrived(r)
    /\ leg' = [leg EXCEPT ![r] = "inside"]
    /\ position' = [position EXCEPT ![r] = Inside]
    /\ UNCHANGED load

ServiceDone(r) ==
    /\ leg[r] = "inside" /\ \A q \in Robots : leg[q] # "exiting"
    /\ leg' = [leg EXCEPT ![r] = "exiting"]
    /\ UNCHANGED <<position, load>>

ReleaseUnseen(r) ==                                              \* faulty
    /\ leg[r] = "exiting"
    /\ leg' = [leg EXCEPT ![r] = "exited"]
    /\ position' = [position EXCEPT ![r] = Exit]
    /\ UNCHANGED load

Release(r) ==
    /\ leg[r] = "exiting"
    /\ \A q \in Robots : position[q] # Exit
    /\ leg' = [leg EXCEPT ![r] = "exited"]
    /\ position' = [position EXCEPT ![r] = Exit]
    /\ UNCHANGED load

Finalize(r) ==
    /\ leg[r] = "exited"
    /\ leg' = [leg EXCEPT ![r] = "return"]
    /\ UNCHANGED <<position, load>>

PutDown(r) ==
    /\ leg[r] = "return" /\ Arrived(r)
    /\ leg' = [leg EXCEPT ![r] = "idle"]
    /\ load' = [load EXCEPT ![r] = Nothing]
    /\ UNCHANGED position

Work(r) ==
    \/ \E p \in Pods : Assign(r, p)
    \/ PickUp(r)
    \/ Absorb(r)
    \/ ServiceDone(r)
    \/ Release(r)
    \/ Finalize(r)
    \/ PutDown(r)

Init ==
    /\ position \in [Robots -> Cells \ {Entry, Exit}]
    /\ \A r, q \in Robots : position[r] = position[q] => r = q
    /\ leg = [r \in Robots |-> "idle"]
    /\ load = [r \in Robots |-> Nothing]

Next == AnyTick \/ \E r \in Robots : Work(r)

Spec == Init /\ [][Next]_vars

-----------------------------------------------------------------------------
(* Types; a robot has a pod exactly while it is not idle, and is off the    *)
(* floor exactly while it is in a slot of the station.                      *)
TypeOK ==
    /\ position \in [Robots -> Cells \cup {Inside}]
    /\ leg \in [Robots -> Leg]
    /\ load \in [Robots -> Pods \cup {Nothing}]
    /\ \A r \in Robots : /\ load[r] = Nothing <=> leg[r] = "idle"
                         /\ position[r] = Inside <=> leg[r] \in {"inside", "exiting"}

(* Whatever the paths, and however they were planned, no two robots ever    *)
(* stand on one cell: the vertex conflicts _detect_conflicts looks for do   *)
(* not happen.                                                              *)
OneRobotPerCell ==
    \A r, q \in Robots : position[r] = position[q] /\ position[r] # Inside => r = q

=============================================================================
