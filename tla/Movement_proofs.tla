---------------------------- MODULE Movement_proofs ----------------------------
(***************************************************************************)
(* That no two robots ever stand on one cell, for any map, any number of    *)
(* robots and any paths.                                                    *)
(***************************************************************************)
EXTENDS Movement, TLAPS

(* The blocked robots are closed under the rule that blocks them: the       *)
(* intersection of the closed sets is closed.                               *)
LEMMA BlockedIsClosed ==
    ASSUME NEW next
    PROVE  BlocksAll(next, Blocked(next))
<1>1. SUFFICES ASSUME NEW r \in DOMAIN next,
                      \/ \E q \in DOMAIN next \ {r} : next[q] = next[r]
                      \/ \E q \in (Robots \ DOMAIN next) \cup Blocked(next) :
                             position[q] = next[r],
                      NEW blocked \in SUBSET DOMAIN next, BlocksAll(next, blocked)
               PROVE  r \in blocked
  BY DEF Blocked, BlocksAll
<1>2. Blocked(next) \subseteq blocked
  BY <1>1 DEF Blocked
<1>3. QED BY <1>1, <1>2 DEF BlocksAll

(* A move keeps robots that stood apart apart.                              *)
LEMMA MovesKeepApart ==
    ASSUME TypeOK, OneRobotPerCell,
           NEW next, DOMAIN next \subseteq Robots,
           \A r \in DOMAIN next : next[r] \in Cells,
           MoveAgents(next)
    PROVE  OneRobotPerCell'
<1> DEFINE moves == DOMAIN next \ Blocked(next)
<1>1. SUFFICES ASSUME NEW r \in Robots, NEW q \in Robots, r # q,
                      position'[r] = position'[q], position'[r] # Inside
               PROVE  FALSE
  BY DEF OneRobotPerCell
<1>2. \A x \in Robots : position'[x] = IF x \in moves THEN next[x] ELSE position[x]
  BY DEF MoveAgents
<1>3. \A x \in moves : \A y \in Robots \ {x} : position'[y] # next[x]
  <2>1. SUFFICES ASSUME NEW x \in moves, NEW y \in Robots \ {x}, position'[y] = next[x]
                 PROVE  FALSE
    OBVIOUS
  <2>2. /\ \A z \in DOMAIN next \ {x} : next[z] # next[x]
        /\ \A z \in (Robots \ DOMAIN next) \cup Blocked(next) : position[z] # next[x]
    BY BlockedIsClosed, <2>1 DEF BlocksAll
  <2>3. CASE y \in moves
    BY <2>1, <2>2, <2>3, <1>2
  <2>4. CASE y \notin moves
    BY <2>1, <2>2, <2>4, <1>2
  <2>5. QED BY <2>3, <2>4
<1>4. CASE r \in moves
  BY <1>1, <1>2, <1>3, <1>4
<1>5. CASE q \in moves
  BY <1>1, <1>2, <1>3, <1>5
<1>6. CASE r \notin moves /\ q \notin moves
  BY <1>1, <1>2, <1>6 DEF OneRobotPerCell
<1>7. QED BY <1>4, <1>5, <1>6

-----------------------------------------------------------------------------
LEMMA TypesInitially == Init => TypeOK
BY FloorAssumption DEF Init, TypeOK, Leg

LEMMA TypesAfterTick == TypeOK /\ AnyTick => TypeOK'
<1>1. SUFFICES ASSUME TypeOK, NEW new \in Admissible, NEW movable \in SUBSET (UnderWay \cup new),
                      NEW next \in [movable -> Cells], Tick(new, next)
               PROVE  TypeOK'
  BY DEF AnyTick
<1> USE <1>1
<1>2. new \subseteq {r \in Robots : leg[r] = "loaded"}
  BY DEF Admissible
<1>3. \A r \in movable : r \in Robots /\ leg[r] \in {"fetch", "loaded", "deliver", "return"}
  BY <1>2 DEF UnderWay
<1>4. \A r \in Robots : \/ position'[r] = position[r]
                        \/ r \in movable /\ position'[r] \in Cells
  BY DEF Tick, MoveAgents
<1>5. position' \in [Robots -> Cells \cup {Inside}]
  <2>1. \A r \in Robots : position[r] \in Cells \cup {Inside}
    BY DEF TypeOK
  <2>2. QED BY <2>1, <1>4 DEF Tick, MoveAgents
<1>6. /\ leg' \in [Robots -> Leg]
      /\ \A r \in Robots : leg'[r] = leg[r] \/ (leg[r] = "loaded" /\ leg'[r] = "deliver")
  BY <1>2 DEF Tick, TypeOK, Leg
<1>7. load' = load
  BY DEF Tick
<1>8. QED
  BY <1>3, <1>4, <1>5, <1>6, <1>7, FloorAssumption DEF TypeOK

LEMMA TypesAfterWork == TypeOK /\ (\E r \in Robots : Work(r)) => TypeOK'
<1>1. SUFFICES ASSUME TypeOK, NEW r \in Robots, Work(r)
               PROVE  TypeOK'
  OBVIOUS
<1> USE <1>1, FloorAssumption DEF TypeOK, Leg
<1>2. ASSUME NEW p \in Pods, Assign(r, p) PROVE TypeOK'
  BY <1>2 DEF Assign
<1>3. CASE PickUp(r)
  BY <1>3 DEF PickUp
<1>4. CASE Absorb(r)
  BY <1>4 DEF Absorb
<1>5. CASE ServiceDone(r)
  BY <1>5 DEF ServiceDone
<1>6. CASE Release(r)
  BY <1>6 DEF Release
<1>7. CASE Finalize(r)
  BY <1>7 DEF Finalize
<1>8. CASE PutDown(r)
  BY <1>8 DEF PutDown
<1>9. QED
  BY <1>2, <1>3, <1>4, <1>5, <1>6, <1>7, <1>8 DEF Work

(* The types of the floor: a robot holds a pod exactly while it is not      *)
(* idle, and is off the floor exactly while it is in a slot.                *)
THEOREM FloorTypes == Spec => []TypeOK
<1>1. TypeOK /\ [Next]_vars => TypeOK'
  <2>1. CASE UNCHANGED vars
    BY <2>1 DEF vars, TypeOK
  <2>2. QED
    BY <2>1, TypesAfterTick, TypesAfterWork DEF Next
<1>2. QED
  BY <1>1, TypesInitially, PTL DEF Spec

-----------------------------------------------------------------------------
LEMMA ApartAfterTick == TypeOK /\ OneRobotPerCell /\ AnyTick => OneRobotPerCell'
<1>1. SUFFICES ASSUME TypeOK, OneRobotPerCell,
                      NEW new \in Admissible, NEW movable \in SUBSET (UnderWay \cup new),
                      NEW next \in [movable -> Cells], Tick(new, next)
               PROVE  OneRobotPerCell'
  BY DEF AnyTick
<1>2. DOMAIN next \subseteq Robots
  BY DEF UnderWay, Admissible
<1>3. MoveAgents(next) /\ \A r \in DOMAIN next : next[r] \in Cells
  BY <1>1 DEF Tick
<1>4. QED BY <1>1, <1>2, <1>3, MovesKeepApart

(* Outside the ticks a robot changes place only into the station, and out   *)
(* of it onto an exit cell that is seen to be free.                         *)
LEMMA ApartAfterWork ==
    TypeOK /\ OneRobotPerCell /\ (\E r \in Robots : Work(r)) => OneRobotPerCell'
<1>1. SUFFICES ASSUME TypeOK, OneRobotPerCell, NEW r \in Robots, Work(r)
               PROVE  OneRobotPerCell'
  OBVIOUS
<1> USE <1>1 DEF OneRobotPerCell
<1>2. CASE UNCHANGED position
  BY <1>2
<1>3. CASE Absorb(r)
  BY <1>3 DEF Absorb, TypeOK
<1>4. CASE Release(r)
  BY <1>4 DEF Release, TypeOK
<1>5. QED
  BY <1>2, <1>3, <1>4 DEF Work, Assign, PickUp, ServiceDone, Finalize, PutDown

(* Whatever paths the robots follow, no two of them ever share a cell: the  *)
(* resolver of _move_agents keeps apart who moves, and the exit check of    *)
(* release_to_exit who comes out of a station.                              *)
THEOREM RobotsStayApart == Spec => []OneRobotPerCell
<1>1. Init => OneRobotPerCell
  BY DEF Init, OneRobotPerCell
<1>2. TypeOK /\ OneRobotPerCell /\ [Next]_vars => OneRobotPerCell'
  <2>1. CASE UNCHANGED vars
    BY <2>1 DEF vars, OneRobotPerCell
  <2>2. QED
    BY <2>1, ApartAfterTick, ApartAfterWork DEF Next
<1>3. QED
  BY <1>1, <1>2, FloorTypes, PTL DEF Spec

=============================================================================
