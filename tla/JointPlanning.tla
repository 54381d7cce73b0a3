---------------------------- MODULE JointPlanning -----------------------------
(***************************************************************************)
(* The floor of Movement under either kind of planner. One that plans robot  *)
(* by robot leaves them with paths of any age, so any step may come. With   *)
(* PIBT each tick PIBTPlanner.plan_batch decides one step for every robot   *)
(* that is to move, by priority inheritance with backtracking, the engine's *)
(* batch path hands the steps to the resolver, and the priorities of robots *)
(* that have not arrived grow.                                             *)
(*                                                                         *)
(* The order in which equally good cells are tried is a random shuffle in   *)
(* the code and any order here. Priorities are compared only, so the        *)
(* positive ones are kept as ranks.                                         *)
(***************************************************************************)
EXTENDS Movement, Functions, TLC

CONSTANT InDemand    \* bound: the pods that orders ask for, under each kind of planner

Planners == {"pibt", "robot by robot"}

ASSUME PriorityAssumption == Robots \subseteq Nat       \* ties go to the higher id
ASSUME DemandAssumption   == InDemand \in [Planners -> SUBSET Pods]
(* The slots pods start on are distinct, and HomeReturnPlanner keeps them.   *)
ASSUME StorageAssumption  == \A p, q \in Pods : Home[p] = Home[q] => p = q

VARIABLES
    planner,     \* the kind of path planner, set before the run
    priority     \* _priorities

allVars == <<vars, planner, priority>>

-----------------------------------------------------------------------------
(* Seen before the activations: the handoff cells of an active station, and  *)
(* the pods on the floor, which a robot under a pod cannot pass.            *)
StationActive  == \E r \in Robots : leg[r] \in {"deliver", "exiting", "exited"}
RoutingBlocked == IF StationActive THEN {Entry, Exit} ELSE {}
StaticBlocked  == {Home[p] : p \in {x \in Pods : \A r \in Robots :
                                        load[r] = x => ~Carrying(r)}}

PodsInTheWay(r) == IF Carrying(r) THEN StaticBlocked \ {Goal(r)} ELSE {}
Barred(r)       == (RoutingBlocked \ {Goal(r)}) \cup PodsInTheWay(r)

Unreachable == Cardinality(Cells)

(* _bfs_distances: steps to the goal around the barred cells, by breadth.   *)
Distance(r) ==
    LET open == Cells \ Barred(r)
        within[k \in 0 .. Unreachable] ==
            IF k = 0 THEN Goal(r) :> 0
            ELSE LET near  == within[k - 1]
                     fresh == {c \in open \ DOMAIN near : Adjacent[c] \cap DOMAIN near # {}}
                 IN  near @@ [c \in fresh |-> k]
        reached == within[Unreachable]
    IN  reached @@ [c \in Cells \ DOMAIN reached |-> Unreachable]

(* The decisions, while some robots are free, and the calls of _pibt: robot  *)
(* r, pushed by "parent" or by nobody, on the steps decided so far.         *)
Decided(free) == [Robots \ free -> Cells \cup {Inside}]

Call(r, parent, decided) == [robot |-> r, parent |-> parent, decided |-> decided]
Calls(free) == [robot : free, parent : SUBSET Robots, decided : Decided(free)]

PushedBack(r, parent) ==                                         \* faulty
    (Adjacent[position[r]] \ Barred(r)) \cup {position[r]}

(* _decide, for good or until a rollback.                                   *)
Claimed(decided, r, c) ==
    [q \in DOMAIN decided \cup {r} |-> IF q = r THEN c ELSE decided[q]]

Wanted(r, parent) ==
    ((Adjacent[position[r]] \ Barred(r)) \cup ({position[r]} \ PodsInTheWay(r)))
        \ {position[p] : p \in parent}

(* What comes of claiming cell c: who stands on it undecided is pushed in    *)
(* turn ("push" gives the results), and when it cannot give way neither has *)
(* r got the cell.                                                          *)
Replies(r, c, decided, push) ==
    LET claimed == Claimed(decided, r, c)
        pushed  == {q \in Robots \ (DOMAIN decided \cup {r}) : position[q] = c}
    IN  IF c \in Range(decided) THEN {[ok |-> FALSE, steps |-> decided]}
        ELSE IF pushed = {} THEN {[ok |-> TRUE, steps |-> claimed]}
        ELSE UNION {push[Call(q, {r}, claimed)] : q \in pushed}

NeverFails(r, decided) == [ok |-> TRUE, steps |-> decided]       \* faulty

Stuck(r, decided) ==
    [ok    |-> FALSE,
     steps |-> IF position[r] \in Range(decided) THEN decided
               ELSE Claimed(decided, r, position[r])]

(* The cells are tried from the nearest to the goal on, equally near ones in *)
(* any order, until one is not refused: a cell can be the one when all the  *)
(* nearer ones may be refused, and r is stuck when all of them may be.      *)
Outcomes(r, parent, decided, far, push) ==
    LET cells   == Wanted(r, parent)
        answers == UNION {{c} \X Replies(r, c, decided, push) : c \in cells}
        refused == {a[1] : a \in {b \in answers : ~b[2].ok}}
        taken   == {b \in answers :
                       b[2].ok /\ \A c \in cells \ refused : far[r][b[1]] <= far[r][c]}
    IN  {a[2] : a \in taken} \cup (IF refused = cells THEN {Stuck(r, decided)} ELSE {})

(* _pibt: each call leaves one robot less to push.                          *)
Pushed(batch, far) ==
    LET push[free \in SUBSET batch] ==
            [call \in Calls(free) |->
                Outcomes(call.robot, call.parent, call.decided, far,
                         push[free \ {call.robot}])]
    IN  push

(* The planner's cache: each distance is computed once in a tick.           *)
Distances(batch) == <<>> @@ [r \in batch |-> Distance(r)]

(* _run_bulk_pibt: the robots outside the batch are pinned, those in it     *)
(* decide in the order of their priority unless they have been pushed       *)
(* before, and who is left without a step waits if its cell is free. The    *)
(* decisions are what the audit looks at.                                   *)
Ahead(r, q) == priority[r] > priority[q] \/ (priority[r] = priority[q] /\ r > q)

LastOf(done) == CHOOSE r \in done : \A q \in done \ {r} : Ahead(q, r)

Turn(r, decided, push) ==
    IF r \in DOMAIN decided THEN {decided}
    ELSE {x.steps : x \in push[Robots \ DOMAIN decided][Call(r, {}, decided)]}

Decisions(batch) ==
    LET push == Pushed(batch, Distances(batch))
        decide[done \in SUBSET batch] ==      \* the decisions once "done" have had their turn
            IF done = {} THEN {[r \in Robots \ batch |-> position[r]]}
            ELSE UNION {Turn(LastOf(done), d, push) : d \in decide[done \ {LastOf(done)}]}
    IN  {[r \in DOMAIN d \cup {q \in batch : position[q] \notin Range(d)} |->
             IF r \in DOMAIN d THEN d[r] ELSE position[r]] : d \in decide[batch]}

(* plan_batch                                                               *)
JointSteps(batch) ==
    {[r \in batch |-> IF r \in DOMAIN d THEN d[r] ELSE position[r]] : d \in Decisions(batch)}

Ranked(p) == [r \in Robots |-> IF p[r] <= 0 THEN p[r]
                               ELSE Cardinality({p[q] : q \in Robots} \cap 1 .. p[r])]

(* _update_priorities, with the goals of the tick.                          *)
NeverReset(steps) ==                                             \* faulty
    [r \in Robots |-> IF r \in DOMAIN steps THEN priority[r] + 1 ELSE priority[r]]

Aged(steps) ==
    Ranked([r \in Robots |-> IF r \notin DOMAIN steps THEN priority[r]
                             ELSE IF steps[r] = Goal(r) THEN -1
                             ELSE IF priority[r] < 0 THEN 1 ELSE priority[r] + 1])

(* _plan_and_activate_batch: as many of the waiting robots as there are      *)
(* tokens left are activated, none while a robot stands on the entry; those *)
(* that are not at their goal make up the batch.                            *)
EntryFree == \A r \in Robots : position[r] # Entry

Activations ==
    IF EntryFree
    THEN {new \in Admissible : \A more \in Admissible : Cardinality(more) <= Cardinality(new)}
    ELSE {{}}

Batches == {UnderWay \cup new : new \in Activations}

JointTick ==
    /\ planner = "pibt"
    /\ \E batch \in Batches : \E steps \in JointSteps(batch) :
           /\ Tick(batch \ UnderWay, steps)
           /\ priority' = Aged(steps)
    /\ UNCHANGED planner

(* _plan_and_activate and paths of its own for each robot.                  *)
PathTick == planner # "pibt" /\ AnyTick /\ UNCHANGED <<planner, priority>>

FloorWork ==
    /\ \E r \in Robots : Work(r)
    /\ \A r \in Robots : load'[r] \in InDemand[planner] \cup {Nothing}
    /\ UNCHANGED <<planner, priority>>

FloorInit == Init /\ planner \in Planners /\ priority = [r \in Robots |-> 0]

FloorNext == JointTick \/ PathTick \/ FloorWork

FloorSpec == FloorInit /\ [][FloorNext]_allVars

-----------------------------------------------------------------------------
(* The types of Movement; priorities are ranks, -1 on arrival.              *)
PlanningTypeOK ==
    /\ TypeOK
    /\ planner \in Planners
    /\ priority \in [Robots -> -1 .. Cardinality(Robots)]

(* _audit_decisions never raises: whatever is asked of the planner, and     *)
(* however the ties fall, it decides a step for every robot, to a cell next *)
(* to it that is not closed to it, no two robots to one cell, no two past   *)
(* each other; and the resolver has nothing to block.                       *)
AuditPasses ==
    planner = "pibt" => \A batch \in Batches : \A d \in Decisions(batch) :
        /\ DOMAIN d = Robots
        /\ \A r \in batch : /\ d[r] \in Adjacent[position[r]] \cup {position[r]}
                            /\ d[r] \in RoutingBlocked => d[r] \in {position[r], Goal(r)}
                            /\ d[r] \notin PodsInTheWay(r)
        /\ \A r, q \in Robots :
            r # q /\ d[r] = d[q] => position[r] = Inside /\ position[q] = Inside
        /\ \A r, q \in batch :
            d[r] = position[q] /\ d[q] = position[r] => r = q
        /\ Blocked([r \in batch |-> d[r]]) = {}

(* Robots never run through each other: of the conflicts _detect_conflicts  *)
(* counts, the swaps do not occur either once PIBT plans.                   *)
NoSwaps ==
    [][planner = "pibt" => \A r, q \in Robots :
            position'[r] = position[q] /\ position'[q] = position[r]
            /\ position[r] # Inside /\ position[r] # position'[r] => r = q]_allVars

=============================================================================
