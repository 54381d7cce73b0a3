------------------------------- MODULE Dispatch -------------------------------
(***************************************************************************)
(* From an order to the pods that serve it, in the parallel execution mode.*)
(*                                                                         *)
(* Every tick SimulationEngine._tick lets orders arrive, calls assign() of *)
(* the task assigner once (retrieve pods, propose contexts, choose robots, *)
(* commit PICK/DELIVER/RETURN chains), lets the robots act, and at its end *)
(* reconciles the orders with the task ledger.                             *)
(*                                                                         *)
(* Abstracted: the grid (a position is a storage slot; travel, admission   *)
(* and countdowns only decide when a robot's next act happens), the robot  *)
(* an assigner prefers (it may be any idle one) and, for Hungarian, the    *)
(* pods its cost matrix prefers.  One station serves every order.          *)
(***************************************************************************)
EXTENDS Integers, Sequences, FiniteSets, Functions, FiniteSetsExt

CONSTANTS
    Orders,        \* order ids; orders arrive and are scanned in id order
    Pods,          \* pod ids
    Robots,
    Skus,
    Demands,       \* the sku_demands an arriving order may carry
    Stock,         \* initial sku_inventory of each pod
    Slots,         \* pod_home_positions
    Home,          \* initial home_position of each pod
    Distance,      \* slot -> its distance from the station's exit
    Policies,      \* the pairs of task assigner and pod return planner in use
    Nothing        \* no chain, no carrier

ASSUME OrdersAssumption   == Orders \subseteq Nat /\ IsFiniteSet(Orders)
ASSUME PodsAssumption     == Pods \subseteq Nat /\ IsFiniteSet(Pods)
ASSUME RobotsAssumption   == IsFiniteSet(Robots)
ASSUME SkusAssumption     == IsFiniteSet(Skus)
ASSUME DemandsAssumption  == Demands \subseteq [Skus -> Nat]
ASSUME StockAssumption    == Stock \in [Pods -> [Skus -> Nat]]
ASSUME HomeAssumption     == Slots \subseteq Nat /\ Home \in [Pods -> Slots]
ASSUME DistanceAssumption == Distance \in [Slots -> Nat]
ASSUME PoliciesAssumption ==
    Policies \subseteq {"greedy", "hungarian", "jsq"} \X {"home", "nearest"}
ASSUME NothingAssumption  ==
    /\ Nothing \notin Robots \cup (Orders \X Pods)
    /\ Nothing \notin [order : Orders, pod : Pods, spot : Slots, back : Slots,
                       stage : {"pick", "deliver", "exit", "return"}]

VARIABLES
    step,       \* "decide": orders arrive, assign() runs; "work": robots act
    status,     \* order -> OrderStatus, "absent" before it arrives
    demand,     \* order -> sku_demands
    list,       \* order -> pod_ids
    delivered,  \* order -> delivered_pod_ids
    finished,   \* order -> pods whose DELIVER task for it is COMPLETED
    chain,      \* robot -> the live PICK/DELIVER/RETURN chain it executes
    carrier,    \* pod -> carried_by
    position,   \* pod -> current_position
    home,       \* pod -> home_position
    stock,      \* pod -> sku_inventory
    policy,     \* the assigner and the return planner, set before the run
    taken       \* history: items each order was given, per sku

orderVars == <<status, demand, list>>
podVars   == <<carrier, position, home>>
vars == <<step, orderVars, delivered, finished, chain, podVars, stock, policy, taken>>

-----------------------------------------------------------------------------
Assigner     == policy[1]
ReturnPolicy == policy[2]

(* Hungarian replaces lists; JSQ plans the return of pods it does not send. *)
KeepsLists        == Assigner # "hungarian"
CommitsItsReturns == Assigner # "jsq" \/ ReturnPolicy = "home"

OrderStatus == {"pending", "in_progress", "completed"}

(* Where a chain is.  "exit" is a DELIVER that has been serviced and is not *)
(* COMPLETED yet: the robot still holds its station slot.                   *)
ChainStage == {"pick", "deliver", "exit", "return"}

Chain == [order : Orders, pod : Pods, spot : Slots, back : Slots,
          stage : ChainStage]

Busy == {r \in Robots : chain[r] # Nothing}
Idle == Robots \ Busy

ReservedOnceLifted ==                                            \* faulty
    {chain[r].pod : r \in {q \in Busy : chain[q].stage # "pick"}}
Reserved == {chain[r].pod : r \in Busy}

Available == {p \in Pods : carrier[p] = Nothing /\ position[p] = home[p]}

FulfilledNever(o) == {}                                          \* faulty
Fulfilled(o) == delivered[o] \cup finished[o]

Pending    == {o \in Orders : status[o] = "pending"}
InProgress == {o \in Orders : status[o] = "in_progress"}

UnderWay(o) == {chain[r].pod : r \in {q \in Busy : chain[q].order = o}}

-----------------------------------------------------------------------------
(* DefaultPodRetriever: the pod covering most of what is still needed, then *)
(* the next, until nothing is needed or no pod helps.                       *)
Lesser(a, b) == IF a < b THEN a ELSE b
Difference(need, have) == need - have                            \* faulty
Shortage(need, have) == IF need > have THEN need - have ELSE 0

StillNeeded(o, chosen) ==
    [s \in Skus |->
        Shortage(demand[o][s], SumFunctionOnSet([p \in Pods |-> stock[p][s]], chosen))]

Score(o, chosen, p) ==
    SumFunctionOnSet([s \in Skus |-> Lesser(StillNeeded(o, chosen)[s], stock[p][s])], Skus)

Candidates(o) == Available \ (Reserved \cup delivered[o])

Useful(o, chosen) == {p \in Candidates(o) \ chosen : Score(o, chosen, p) > 0}

Best(o, chosen) == CHOOSE p \in Useful(o, chosen) :
    \A q \in Useful(o, chosen) \ {p} :
        \/ Score(o, chosen, p) > Score(o, chosen, q)
        \/ Score(o, chosen, p) = Score(o, chosen, q) /\ p < q

Retrieved(o) ==
    LET pick[chosen \in SUBSET Candidates(o)] ==
            IF Useful(o, chosen) = {} THEN <<>>
            ELSE <<Best(o, chosen)>> \o pick[chosen \cup {Best(o, chosen)}]
    IN  pick[{}]

(* The assigners retrieve for an order without a list; Hungarian also       *)
(* replaces a list none of whose pods is on the floor and to be fulfilled.  *)
MustRetrieve(o) ==
    /\ o \in Pending
    /\ \/ list[o] = <<>>
       \/ /\ Assigner = "hungarian"
          /\ \A p \in Range(list[o]) :
                carrier[p] # Nothing \/ p \in Fulfilled(o)

Listing == [o \in Orders |-> IF MustRetrieve(o) THEN Retrieved(o) ELSE list[o]]

-----------------------------------------------------------------------------
(* The contexts of this tick: each dispatchable pod, for the first order    *)
(* that lists it, scanned by order id and list position.                    *)
Dispatchable(lists, o, p) ==
    /\ o \in Pending
    /\ p \in Range(lists[o]) \ Fulfilled(o)
    /\ carrier[p] = Nothing
    /\ p \notin Reserved

Contexts(lists) ==
    {c \in Orders \X Pods :
        /\ Dispatchable(lists, c[1], c[2])
        /\ \A o \in Orders : o < c[1] => ~Dispatchable(lists, o, c[2])}

Rank(seq, p) == CHOOSE i \in DOMAIN seq : seq[i] = p

Precedes(lists, c, d) ==
    \/ c[1] < d[1]
    \/ /\ c[1] = d[1]
       /\ Rank(lists[c[1]], c[2]) < Rank(lists[c[1]], d[2])

(* What assign() may commit: greedy the first contexts, one per idle robot; *)
(* Hungarian a maximum matching of contexts and idle robots; JSQ as many,   *)
(* by the load of their stations.                                           *)
Batches(lists) ==
    LET contexts == Contexts(lists)
        ahead(c) == {d \in contexts : Precedes(lists, d, c)}
    IN IF Assigner = "greedy"
       THEN {{c \in contexts : Cardinality(ahead(c)) < Cardinality(Idle)}}
       ELSE kSubset(Lesser(Cardinality(contexts), Cardinality(Idle)), contexts)

(* plan_return(pod): NearestSlotPlanner takes the first nearest slot that   *)
(* is neither under another grounded pod nor the destination of another     *)
(* pod's RETURN task, if it is nearer than the pod's own home.              *)
TakenSlots(p) ==
    {position[q] : q \in {x \in Pods \ {p} : carrier[x] = Nothing}}
    \cup {chain[r].back : r \in {x \in Busy : chain[x].pod # p}}

NearestOutside(p, occupied) ==
    LET nearer == {s \in Slots \ occupied : Distance[s] < Distance[home[p]]}
    IN IF ReturnPolicy = "home" \/ nearer = {} THEN home[p]
       ELSE CHOOSE s \in nearer : \A t \in nearer \ {s} :
                Distance[s] < Distance[t] \/ (Distance[s] = Distance[t] /\ s < t)

PlanReturn(p) == NearestOutside(p, TakenSlots(p))

(* The pods whose return is planned: those sent, and under JSQ every pod an *)
(* order still waits for, even one that is carried for another order.       *)
Planned(batch, lists) ==
    IF Assigner = "jsq"
    THEN UNION {Range(lists[o]) \ (Fulfilled(o) \cup UnderWay(o)) : o \in Pending}
    ELSE {c[2] : c \in batch}

HomeAfterNoPlanning(batch, lists) == home                        \* faulty
HomeAfterPlanning(batch, lists) ==
    [p \in Pods |-> IF p \in Planned(batch, lists) THEN PlanReturn(p) ELSE home[p]]

NewChain(c) == [order |-> c[1], pod |-> c[2], spot |-> position[c[2]],
                back |-> PlanReturn(c[2]), stage |-> "pick"]

CoveredByAnyChain(o, batch, lists) == TRUE                       \* faulty
CoveredByChains(o, batch, lists) ==                              \* faulty
    \A p \in Range(lists[o]) : p \in UnderWay(o) \/ <<o, p>> \in batch
Covered(o, batch, lists) ==
    \A p \in Range(lists[o]) :
        p \in UnderWay(o) \cup Fulfilled(o) \/ <<o, p>> \in batch

-----------------------------------------------------------------------------
Init ==
    /\ step = "decide"
    /\ status = [o \in Orders |-> "absent"]
    /\ demand = [o \in Orders |-> [s \in Skus |-> 0]]
    /\ list = [o \in Orders |-> <<>>]
    /\ delivered = [o \in Orders |-> {}]
    /\ finished = [o \in Orders |-> {}]
    /\ chain = [r \in Robots |-> Nothing]
    /\ carrier = [p \in Pods |-> Nothing]
    /\ position = Home
    /\ home = Home
    /\ stock = Stock
    /\ policy \in Policies
    /\ taken = [o \in Orders |-> [s \in Skus |-> 0]]

(* An order asks only for skus some available pod has at that moment.       *)
NewOrder(o) ==
    /\ step = "decide"
    /\ status[o] = "absent"
    /\ \A q \in Orders : q < o => status[q] # "absent"
    /\ \E d \in Demands :
        /\ \A s \in Skus : d[s] > 0 => \E p \in Available : stock[p][s] > 0
        /\ demand' = [demand EXCEPT ![o] = d]
    /\ status' = [status EXCEPT ![o] = "pending"]
    /\ UNCHANGED <<step, list, delivered, finished, chain, podVars, stock, policy, taken>>

(* assign(): the lists are filled, return cells planned (which moves the    *)
(* pods' home_position under "nearest"), the chains created, and an order   *)
(* that got one becomes IN_PROGRESS once its whole list is covered.         *)
Assign ==
    /\ step = "decide"
    /\ step' = "work"
    /\ list' = Listing
    /\ \E batch \in Batches(Listing) : \E robot \in Injection(batch, Idle) :
        /\ home' = HomeAfterPlanning(batch, Listing)
        /\ chain' = [r \in Robots |->
                        IF \E c \in batch : robot[c] = r
                        THEN NewChain(CHOOSE c \in batch : robot[c] = r)
                        ELSE chain[r]]
        /\ status' = [o \in Orders |->
                        IF /\ \E p \in Pods : <<o, p>> \in batch
                           /\ Covered(o, batch, Listing)
                        THEN "in_progress" ELSE status[o]]
    /\ UNCHANGED <<demand, delivered, finished, carrier, position, stock, policy, taken>>

Advance(r, from, to) ==
    /\ step = "work"
    /\ r \in Busy
    /\ chain[r].stage = from
    /\ chain' = [chain EXCEPT ![r].stage = to]

PodWaits(r) == /\ carrier[chain[r].pod] = Nothing
               /\ position[chain[r].pod] = chain[r].spot

PickDone(r) ==
    /\ Advance(r, "pick", "deliver")
    /\ PodWaits(r)
    /\ carrier' = [carrier EXCEPT ![chain[r].pod] = r]
    /\ UNCHANGED <<step, orderVars, delivered, finished, position, home, stock, policy, taken>>

(* Every sku the order demands is debited in full from the pod, as far as   *)
(* the pod has it; the pod is marked delivered if the order still lists it. *)
ServiceDoneUnmarked(r) ==                                        \* faulty
    /\ Advance(r, "deliver", "exit")
    /\ UNCHANGED <<step, orderVars, delivered, finished, podVars, stock, policy, taken>>
ServiceDone(r) ==
    LET o == chain[r].order
        p == chain[r].pod
    IN  /\ Advance(r, "deliver", "exit")
        /\ stock' = [stock EXCEPT ![p] =
                        [s \in Skus |-> Shortage(stock[p][s], demand[o][s])]]
        /\ taken' = [taken EXCEPT ![o] =
                        [s \in Skus |-> taken[o][s] + stock[p][s] - stock'[p][s]]]
        /\ delivered' = IF p \in Range(list[o])
                        THEN [delivered EXCEPT ![o] = @ \cup {p}] ELSE delivered
        /\ UNCHANGED <<step, orderVars, finished, podVars, policy>>

ExitDone(r) ==
    /\ Advance(r, "exit", "return")
    /\ finished' = [finished EXCEPT ![chain[r].order] = @ \cup {chain[r].pod}]
    /\ UNCHANGED <<step, orderVars, delivered, podVars, stock, policy, taken>>

ReturnDone(r) ==
    /\ step = "work"
    /\ r \in Busy
    /\ chain[r].stage = "return"
    /\ carrier' = [carrier EXCEPT ![chain[r].pod] = Nothing]
    /\ position' = [position EXCEPT ![chain[r].pod] = chain[r].back]
    /\ chain' = [chain EXCEPT ![r] = Nothing]
    /\ UNCHANGED <<step, orderVars, delivered, finished, home, stock, policy, taken>>

Act(r) == PickDone(r) \/ ServiceDone(r) \/ ExitDone(r) \/ ReturnDone(r)

(* The end of the tick: an order in progress with no live task is completed *)
(* if its whole list was delivered, and otherwise goes back to PENDING with *)
(* an empty list.                                                           *)
FullyDelivered(o) == Range(list[o]) # {} /\ Range(list[o]) \subseteq delivered[o]

Settled == {o \in InProgress : UnderWay(o) = {}}

CheckOrders ==
    /\ step = "work"
    /\ step' = "decide"
    /\ status' = [o \in Orders |->
                    IF o \notin Settled THEN status[o]
                    ELSE IF FullyDelivered(o) THEN "completed" ELSE "pending"]
    /\ list' = [o \in Orders |->
                    IF o \in Settled /\ ~FullyDelivered(o) THEN <<>> ELSE list[o]]
    /\ UNCHANGED <<demand, delivered, finished, chain, podVars, stock, policy, taken>>

Next ==
    \/ \E o \in Orders : NewOrder(o)
    \/ Assign
    \/ \E r \in Robots : Act(r)
    \/ CheckOrders

Spec == Init /\ [][Next]_vars

(* The tick loop never stops, and a robot that can act is not overtaken for *)
(* ever by the end of the tick: routes, admission and countdowns end.       *)
TickOn == \/ step = "decide" /\ step' = "work"
          \/ step = "work" /\ step' = "decide"

FairSpec == /\ Spec
            /\ WF_step(TickOn)
            /\ \A r \in Robots : SF_vars(Act(r))

-----------------------------------------------------------------------------
(* The variables have their types.                                          *)
TypeOK ==
    /\ step \in {"decide", "work"}
    /\ status \in [Orders -> OrderStatus \cup {"absent"}]
    /\ demand \in [Orders -> [Skus -> Nat]]
    /\ \A o \in Orders : list[o] \in Seq(Pods)
    /\ delivered \in [Orders -> SUBSET Pods]
    /\ finished \in [Orders -> SUBSET Pods]
    /\ chain \in [Robots -> Chain \cup {Nothing}]
    /\ carrier \in [Pods -> Robots \cup {Nothing}]
    /\ position \in [Pods -> Slots]
    /\ home \in [Pods -> Slots]
    /\ stock \in [Pods -> [Skus -> Nat]]
    /\ policy \in Policies
    /\ taken \in [Orders -> [Skus -> Nat]]

(* A pod is on one live chain at most; it is carried exactly by the robot   *)
(* whose chain has picked it; and until then it stands where the PICK task  *)
(* sends the robot, so _handle_pod_unavailable has nothing to handle.       *)
PodsMatchChains ==
    /\ \A q, r \in Busy : chain[q].pod = chain[r].pod => q = r
    /\ \A p \in Pods, r \in Robots :
        carrier[p] = r <=> r \in Busy /\ chain[r].pod = p /\ chain[r].stage # "pick"
    /\ \A r \in Busy : chain[r].stage = "pick" => PodWaits(r)

(* An order in progress has every pod it lists fulfilled or under way for   *)
(* it; a completed one has them all delivered and no live chain.            *)
InProgressCovered ==
    \A o \in Orders :
        /\ o \in InProgress =>
              Range(list[o]) \subseteq Fulfilled(o) \cup UnderWay(o)
        /\ status[o] = "completed" =>
              UnderWay(o) = {} /\ Range(list[o]) \subseteq delivered[o]

(* Unless lists are replaced, a pending order whose list is not empty lists *)
(* a pod that is still to be sent for it: none is left behind with a list   *)
(* the assigner passes over for ever and that is never cleared.             *)
NoOrderStranded ==
    KeepsLists /\ step = "decide" => \A o \in Pending :
        list[o] # <<>> => ~(Range(list[o]) \subseteq Fulfilled(o) \cup UnderWay(o))

(* Unless lists are replaced, delivered_pod_ids, "the lifecycle source of    *)
(* truth" (base_task_assigner.py:24), misses no completed DELIVER.          *)
DeliveredLedgerComplete == KeepsLists => \A o \in Orders : finished[o] \subseteq delivered[o]

(* A pod that no chain reserves is at its home_position, so it is available *)
(* to the retriever again; where returns are planned for pods that are not  *)
(* sent it may be away, and then a pending order still lists it, so that it *)
(* will be sent for, which needs no retriever, from where it stands.        *)
UnreservedPodIsHome ==
    \A p \in Pods \ Reserved :
        \/ p \in Available
        \/ /\ ~CommitsItsReturns
           /\ \E o \in Pending : p \in Range(list[o]) \ Fulfilled(o)

(* No two pods end up on, or are sent back to, the same slot.               *)
SlotsNotShared ==
    /\ \A p, q \in Pods :
        position[p] = position[q] /\ carrier[p] = Nothing /\ carrier[q] = Nothing => p = q
    /\ \A q, r \in Busy : chain[q].back = chain[r].back => q = r

(* No order is given more of a sku than it demands.                         *)
TakesOnlyWhatIsDemanded ==
    \A o \in Orders, s \in Skus : taken[o][s] <= demand[o][s]

(* Unless lists are replaced, an order that has pods to wait for is          *)
(* completed, whoever else wants them.                                      *)
OrdersComplete ==
    \A o \in Orders :
        KeepsLists /\ o \in Pending /\ list[o] # <<>> ~> status[o] = "completed"

(* Dispatching implements the abstract contract. A pair counts as served    *)
(* from the service on, which the task ledger shows at the exit only.       *)
Open   == Pending \cup InProgress
Closed == {o \in Orders : status[o] = "completed"}
Loans  == [r \in Robots |->
              IF r \in Busy THEN <<chain[r].order, chain[r].pod>> ELSE Nothing]
ServedPairs ==
    {c \in Orders \X Pods : c[2] \in finished[c[1]]}
    \cup {Loans[r] : r \in {q \in Busy : chain[q].stage = "exit"}}

Fulfilment == INSTANCE OrderFulfilment WITH
    open <- Open, closed <- Closed, loan <- Loans, served <- ServedPairs
FulfilmentSpec == Fulfilment!Spec

=============================================================================
