---------------------------- MODULE SerialDispatch ----------------------------
(***************************************************************************)
(* From an order to the pods that serve it, in the serial execution mode   *)
(* (GreedyTaskAssigner._assign_serial, the mode default_config.json sets): *)
(* one robot is given the chains of all the pods an order lists and works  *)
(* through them, or the order gets nothing.                                *)
(*                                                                         *)
(* The task list of a robot is modelled as its errands, pairs of a robot   *)
(* of the fleet and a place in its list: what Dispatch says of a robot and *)
(* its chain is said here of an errand and its chain, and the constant     *)
(* Robots holds the errands.  MaxList bounds the list of an order; it has  *)
(* no repetitions, so Cardinality(Pods) is enough.                         *)
(***************************************************************************)
EXTENDS Dispatch

CONSTANTS Fleet,    \* the robots
          MaxList   \* bound: the pods an order lists when it is sent

ASSUME ErrandsAssumption == /\ IsFiniteSet(Fleet)
                            /\ MaxList \in Nat
                            /\ Robots = Fleet \X (1 .. MaxList)
ASSUME HomesAssumption   == \A p, q \in Pods : Home[p] = Home[q] => p = q
ASSUME SerialAssumption  == Policies \subseteq {"greedy"} \X {"home", "nearest"}

VARIABLE unscanned   \* the pending orders this tick's scan has still to visit

serialVars == <<vars, unscanned>>

-----------------------------------------------------------------------------
IdleRobots == {f \in Fleet : \A e \in Busy : e[1] # f}

(* get_next_task_for_agent: the tasks of a robot are done in the order in   *)
(* which they were created.                                                 *)
InTurn(e) == \A d \in Busy : d[1] = e[1] => e[2] <= d[2]

OnTheFloor(p) == p \in Pods /\ carrier[p] = Nothing /\ p \notin Reserved

WantedNow(o) == {p \in Range(list[o]) \ Fulfilled(o) : OnTheFloor(p)}  \* faulty
Wanted(o) == Range(list[o]) \ Fulfilled(o)

AllAvailable(o) == \A p \in Wanted(o) : OnTheFloor(p)

Place(o, p) == Rank(list[o], p)

(* plan_return for the pods of a list in turn: each plan sees the RETURN    *)
(* tasks of those before it.                                                *)
PlannedAtOnce(o, back) == \A p \in Wanted(o) : back[p] = PlanReturn(p)  \* faulty
PlannedInTurn(o, back) ==
    \A p \in Wanted(o) :
        LET earlier == {q \in Wanted(o) : Place(o, q) < Place(o, p)}
        IN back[p] = NearestOutside(p, TakenSlots(p) \cup {back[q] : q \in earlier})

OldHomes(o, back) == home                                        \* faulty
NewHomes(o, back) == [p \in Pods |-> IF p \in Wanted(o) THEN back[p] ELSE home[p]]

Errand(o, p, back) == [order |-> o, pod |-> p, spot |-> position[p],
                       back |-> back[p], stage |-> "pick"]

-----------------------------------------------------------------------------
SerialInit == Init /\ unscanned = {}

Arrive(o) == NewOrder(o) /\ UNCHANGED unscanned

(* assign() fills the lists, then goes through the pending orders.          *)
Retrieve ==
    /\ step = "decide"
    /\ step' = "work"
    /\ list' = Listing
    /\ unscanned' = Pending
    /\ UNCHANGED <<status, demand, delivered, finished, chain, podVars, stock, policy, taken>>

Scan(o) ==
    /\ o \in unscanned
    /\ \A q \in unscanned : o <= q
    /\ unscanned' = unscanned \ {o}
    /\ UNCHANGED <<step, demand, delivered, finished, carrier, position, stock, policy, taken>>

(* A list with a pod that is away is dropped, to be retrieved anew.         *)
DropList(o) ==
    /\ Scan(o)
    /\ ~AllAvailable(o)
    /\ list' = [list EXCEPT ![o] = <<>>]
    /\ UNCHANGED <<status, chain, home>>

(* Nothing to fetch, or nobody to fetch it.                                 *)
PassOver(o) ==
    /\ Scan(o)
    /\ AllAvailable(o)
    /\ Wanted(o) = {} \/ IdleRobots = {}
    /\ status' = [status EXCEPT ![o] =
                    IF Wanted(o) = {} /\ Range(list[o]) # {} THEN "in_progress" ELSE @]
    /\ UNCHANGED <<list, chain, home>>

(* All the chains go to one idle robot and the order is IN_PROGRESS.        *)
SendWhole(o) ==
    /\ Scan(o)
    /\ AllAvailable(o)
    /\ Wanted(o) # {}
    /\ DOMAIN list[o] \subseteq 1 .. MaxList
    /\ \E f \in IdleRobots, back \in [Wanted(o) -> Slots] :
        /\ PlannedInTurn(o, back)
        /\ chain' = [e \in Robots |->
                        IF e[1] = f /\ \E p \in Wanted(o) : Place(o, p) = e[2]
                        THEN Errand(o, CHOOSE p \in Wanted(o) : Place(o, p) = e[2], back)
                        ELSE chain[e]]
        /\ home' = NewHomes(o, back)
    /\ status' = [status EXCEPT ![o] = "in_progress"]
    /\ UNCHANGED list

Work(e) == unscanned = {} /\ InTurn(e) /\ Act(e) /\ UNCHANGED unscanned

EndTick == unscanned = {} /\ CheckOrders /\ UNCHANGED unscanned

SerialNext ==
    \/ \E o \in Orders : Arrive(o)
    \/ Retrieve
    \/ \E o \in Orders : DropList(o) \/ PassOver(o) \/ SendWhole(o)
    \/ \E e \in Robots : Work(e)
    \/ EndTick

SerialSpec == SerialInit /\ [][SerialNext]_serialVars

(* As in Dispatch: ticks go on and a robot's next act comes.                *)
FairSerialSpec ==
    /\ SerialSpec
    /\ WF_serialVars(Retrieve)
    /\ \A o \in Orders : WF_serialVars(DropList(o) \/ PassOver(o) \/ SendWhole(o))
    /\ WF_serialVars(EndTick)
    /\ \A e \in Robots : SF_serialVars(Work(e))

-----------------------------------------------------------------------------
(* An order is served whole or not at all: while it is pending no pod has   *)
(* been sent for it, and one in progress is never set back to PENDING by    *)
(* _check_order_completion, so no list is dropped with a pod under way.     *)
AllOrNothing ==
    /\ \A o \in Pending : Fulfilled(o) = {} /\ UnderWay(o) = {}
    /\ \A o \in Settled : FullyDelivered(o)

(* An order is completed unless no pod has anything it demands: dropping    *)
(* its list again and again never keeps it from being served.               *)
Unservable(o) == \A p \in Pods, s \in Skus : demand[o][s] > 0 => stock[p][s] = 0
ServedUnlessSoldOut ==
    \A o \in Orders :
        o \in Pending ~> status[o] = "completed" \/ Unservable(o)

=============================================================================
