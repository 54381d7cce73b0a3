------------------------ MODULE SerialDispatch_proofs ------------------------
(***************************************************************************)
(* Machine-checked theorems about the serial mode, for any fleet, orders   *)
(* and pods, and with either return planner.  What the robots do is Act of *)
(* Dispatch, so its invariant and its lemmas carry over; what is new is    *)
(* who is sent, and how return cells are planned.                          *)
(***************************************************************************)
EXTENDS SerialDispatch, Dispatch_proofs

(* Before an order is in progress nothing has been sent for it, and then    *)
(* there is something to deliver.                                           *)
SentWhole ==
    /\ \A o \in Orders : status[o] \in {"absent", "pending"} =>
          Fulfilled(o) = {} /\ UnderWay(o) = {}
    /\ \A o \in InProgress : Range(list[o]) # {}

(* Pods stand apart, go back to different slots, and nobody stands where    *)
(* another pod is going back to.                                            *)
SlotsApart ==
    /\ SlotsNotShared
    /\ \A e \in Busy, p \in Pods :
          carrier[p] = Nothing /\ position[p] = chain[e].back => p = chain[e].pod

(* The inductive invariant.                                                 *)
SerialInv == /\ IndInv
             /\ policy \in Policies
             /\ unscanned \subseteq Pending
             /\ SentWhole
             /\ SlotsApart

-----------------------------------------------------------------------------
(* In the serial mode lists are kept and every planned return is made.      *)
LEMMA GreedyOnly ==
    ASSUME policy \in Policies
    PROVE  KeepsLists /\ CommitsItsReturns
<1>1. policy[1] = "greedy"  BY SerialAssumption
<1>2. QED  BY <1>1 DEF KeepsLists, CommitsItsReturns, Assigner

LEMMA SerialInitInv == SerialInit => SerialInv
<1> SUFFICES ASSUME SerialInit PROVE SerialInv
  OBVIOUS
<1>1. Init /\ unscanned = {}  BY DEF SerialInit
<1>2. IndInv  BY <1>1, InitInv
<1>3. Busy = {}  BY <1>1 DEF Init, Busy
<1>4. SentWhole
  BY <1>1, <1>3 DEF Init, SentWhole, Fulfilled, UnderWay, InProgress
<1>5. SlotsApart
  BY <1>1, <1>3, HomesAssumption, HomeAssumption DEF Init, SlotsApart, SlotsNotShared
<1>6. QED  BY <1>1, <1>2, <1>4, <1>5 DEF Init, SerialInv

(* An arrival touches nothing another order or a pod depends on.            *)
LEMMA ArriveInv ==
    ASSUME SerialInv, NEW o \in Orders, Arrive(o)
    PROVE  SerialInv'
<1>1. /\ NewOrder(o) /\ unscanned' = unscanned /\ IndInv
      /\ status[o] = "absent" /\ status' = [status EXCEPT ![o] = "pending"]
      /\ UNCHANGED <<list, delivered, finished, chain, carrier, position, policy>>
  BY DEF Arrive, NewOrder, podVars, SerialInv
<1>2. IndInv'  BY <1>1, NewOrderInv
<1>3. status \in [Orders -> OrderStatus \cup {"absent"}]  BY <1>1 DEF IndInv, LedgerTypes
<1>4. Busy' = Busy /\ \A q \in Orders : UnderWay(q)' = UnderWay(q) /\ Fulfilled(q)' = Fulfilled(q)
  BY <1>1 DEF Busy, UnderWay, Fulfilled
<1>5. unscanned' \subseteq Pending'  BY <1>1, <1>3 DEF SerialInv, Pending
<1>6. SentWhole'  BY <1>1, <1>3, <1>4 DEF SerialInv, SentWhole, InProgress
<1>7. SlotsApart'  BY <1>1, <1>4 DEF SerialInv, SlotsApart, SlotsNotShared
<1>8. QED  BY <1>1, <1>2, <1>5, <1>6, <1>7 DEF SerialInv

(* Refilling or dropping the lists of pending orders disturbs nothing: no   *)
(* chain is under way for them.                                             *)
LEMMA ListChangeInv ==
    ASSUME SerialInv,
           \A o \in Orders \ Pending : list'[o] = list[o],
           UNCHANGED <<status, delivered, finished, chain, carrier, position, home, policy>>
    PROVE  IndInv' /\ policy' \in Policies /\ SentWhole' /\ SlotsApart'
<1>1. IndInv /\ LedgerTypes  BY DEF SerialInv, IndInv
<1>2. /\ Busy' = Busy /\ Reserved' = Reserved
      /\ \A o \in Orders : UnderWay(o)' = UnderWay(o) /\ Fulfilled(o)' = Fulfilled(o)
  BY DEF Busy, Reserved, UnderWay, Fulfilled
<1>3. ASSUME NEW e \in Busy PROVE list'[chain[e].order] = list[chain[e].order]
  <2>1. chain[e].order \in Orders  BY <1>1, BusyTypes
  <2>2. UnderWay(chain[e].order) # {}  BY DEF UnderWay
  <2>3. status[chain[e].order] # "pending"  BY <2>1, <2>2 DEF SerialInv, SentWhole
  <2>4. QED  BY <2>1, <2>3 DEF Pending
<1>policy. KeepsLists' = KeepsLists /\ CommitsItsReturns' = CommitsItsReturns
  BY SamePolicy
<1>4. LedgerTypes' /\ PodsGoHome'
  BY <1>1, <1>2, <1>policy DEF IndInv, LedgerTypes, PodsGoHome
<1>5. PodsMatchChains'  BY <1>1, <1>2 DEF IndInv, PodsMatchChains, PodWaits
<1>6. FinishedOnReturn' /\ MarksBacked'
  BY <1>1, <1>2 DEF IndInv, FinishedOnReturn, MarksBacked
<1>7. ListsKept'
  BY <1>1, <1>2, <1>3, <1>policy DEF IndInv, ListsKept, DeliveredLedgerComplete
<1>8. InProgressCovered'
  BY <1>1, <1>2 DEF IndInv, InProgressCovered, InProgress, Pending
<1>9. SentWhole'  BY <1>2 DEF SerialInv, SentWhole, InProgress, Pending
<1>10. SlotsApart'  BY <1>2 DEF SerialInv, SlotsApart, SlotsNotShared
<1>11. QED  BY <1>4, <1>5, <1>6, <1>7, <1>8, <1>9, <1>10 DEF IndInv, SerialInv

LEMMA RetrieveInv ==
    ASSUME SerialInv, Retrieve
    PROVE  SerialInv'
<1>1. /\ list' = Listing /\ unscanned' = Pending
      /\ UNCHANGED <<status, delivered, finished, chain, carrier, position, home, policy>>
  BY DEF Retrieve, podVars
<1>2. \A o \in Orders \ Pending : list'[o] = list[o]
  BY <1>1 DEF Listing, MustRetrieve
<1>3. IndInv' /\ policy' \in Policies /\ SentWhole' /\ SlotsApart'
  BY <1>1, <1>2, ListChangeInv
<1>4. unscanned' \subseteq Pending'  BY <1>1 DEF Pending
<1>5. QED  BY <1>3, <1>4 DEF SerialInv

LEMMA DropListInv ==
    ASSUME SerialInv, NEW o \in Orders, DropList(o)
    PROVE  SerialInv'
<1>1. /\ o \in unscanned /\ unscanned' = unscanned \ {o}
      /\ list' = [list EXCEPT ![o] = <<>>]
      /\ UNCHANGED <<status, delivered, finished, chain, carrier, position, home, policy>>
  BY DEF DropList, Scan
<1>2. o \in Pending  BY <1>1 DEF SerialInv
<1>3. \A q \in Orders \ Pending : list'[q] = list[q]  BY <1>1, <1>2
<1>4. IndInv' /\ policy' \in Policies /\ SentWhole' /\ SlotsApart'
  BY <1>1, <1>3, ListChangeInv
<1>5. unscanned' \subseteq Pending'  BY <1>1 DEF SerialInv, Pending
<1>6. QED  BY <1>4, <1>5 DEF SerialInv

(* Nothing has been sent for a pending order, so one with nothing left to   *)
(* fetch has an empty list: being passed over changes nothing.              *)
LEMMA PassOverInv ==
    ASSUME SerialInv, NEW o \in Orders, PassOver(o)
    PROVE  SerialInv' /\ status' = status
<1>1. /\ o \in unscanned /\ unscanned' = unscanned \ {o}
      /\ status' = [status EXCEPT ![o] =
                      IF Wanted(o) = {} /\ Range(list[o]) # {} THEN "in_progress" ELSE @]
      /\ UNCHANGED <<list, delivered, finished, chain, carrier, position, home, policy>>
  BY DEF PassOver, Scan
<1>2. o \in Pending  BY <1>1 DEF SerialInv
<1>3. Fulfilled(o) = {}  BY <1>2 DEF SerialInv, SentWhole, Pending
<1>4. ~(Wanted(o) = {} /\ Range(list[o]) # {})  BY <1>3 DEF Wanted
<1>5. status' = status
  <2>1. status \in [Orders -> OrderStatus \cup {"absent"}]
    BY DEF SerialInv, IndInv, LedgerTypes
  <2>2. QED  BY <1>1, <1>4, <2>1
<1>6. IndInv' /\ policy' \in Policies /\ SentWhole' /\ SlotsApart'
  BY <1>1, <1>5, ListChangeInv
<1>7. unscanned' \subseteq Pending'  BY <1>1, <1>5 DEF SerialInv, Pending
<1>8. QED  BY <1>5, <1>6, <1>7 DEF SerialInv

-----------------------------------------------------------------------------
(* The errand on which robot f fetches pod p for order o.                   *)
For(o, f, p) == <<f, Place(o, p)>>

(* What sending an order whole does: each pod it waits for gets an errand   *)
(* of its own, all of one robot that had none; the rest stays as it was.    *)
SentOut(o, f, back) ==
    /\ PlannedInTurn(o, back)
    /\ home' = NewHomes(o, back)
    /\ \A p \in Wanted(o) :
          /\ p \in Pods /\ p \in Range(list[o]) /\ carrier[p] = Nothing
          /\ p \notin Reserved
          /\ For(o, f, p) \in Robots \ Busy
          /\ chain'[For(o, f, p)] = Errand(o, p, back)
          /\ Errand(o, p, back) \in Chain
    /\ \A p, q \in Wanted(o) : For(o, f, p) = For(o, f, q) => p = q
    /\ chain' \in [Robots -> Chain \cup {Nothing}]
    /\ \A e \in Busy : e \in Busy' /\ chain'[e] = chain[e]
    /\ Busy' = Busy \cup {For(o, f, p) : p \in Wanted(o)}

LEMMA SendFacts ==
    ASSUME SerialInv, NEW o \in Orders, SendWhole(o)
    PROVE  \E f \in IdleRobots, back \in [Wanted(o) -> Slots] : SentOut(o, f, back)
<1>1. PICK f \in IdleRobots, back \in [Wanted(o) -> Slots] :
        /\ PlannedInTurn(o, back)
        /\ chain' = [e \in Robots |->
                        IF e[1] = f /\ \E p \in Wanted(o) : Place(o, p) = e[2]
                        THEN Errand(o, CHOOSE p \in Wanted(o) : Place(o, p) = e[2], back)
                        ELSE chain[e]]
        /\ home' = NewHomes(o, back)
  BY DEF SendWhole
<1>2. LedgerTypes  BY DEF SerialInv, IndInv
<1>3. ASSUME NEW p \in Wanted(o)
      PROVE  /\ p \in Pods /\ p \in Range(list[o]) /\ carrier[p] = Nothing
             /\ p \notin Reserved
             /\ Place(o, p) \in 1 .. MaxList /\ list[o][Place(o, p)] = p
  <2>1. p \in Range(list[o])  BY DEF Wanted
  <2>2. \E i \in DOMAIN list[o] : list[o][i] = p  BY <2>1 DEF Range
  <2>3. Place(o, p) \in DOMAIN list[o] /\ list[o][Place(o, p)] = p
    BY <2>2 DEF Place, Rank
  <2>4. OnTheFloor(p) /\ DOMAIN list[o] \subseteq 1 .. MaxList
    BY DEF SendWhole, AllAvailable
  <2>5. QED  BY <2>1, <2>3, <2>4 DEF OnTheFloor
<1>4. ASSUME NEW p \in Wanted(o)
      PROVE  For(o, f, p) \in Robots \ Busy
  <2>1. For(o, f, p) \in Robots  BY <1>3, ErrandsAssumption DEF For, IdleRobots
  <2>2. For(o, f, p)[1] = f  BY DEF For
  <2>3. QED  BY <2>1, <2>2 DEF IdleRobots
<1>5. \A p, q \in Wanted(o) : Place(o, p) = Place(o, q) => p = q  BY <1>3
<1>6. ASSUME NEW p \in Wanted(o) PROVE chain'[For(o, f, p)] = Errand(o, p, back)
  <2>1. For(o, f, p)[1] = f /\ For(o, f, p)[2] = Place(o, p)  BY DEF For
  <2>2. (CHOOSE q \in Wanted(o) : Place(o, q) = Place(o, p)) = p  BY <1>5
  <2>3. QED  BY <1>1, <1>4, <2>1, <2>2
<1>7. ASSUME NEW p \in Wanted(o)
      PROVE  Errand(o, p, back) \in Chain /\ Errand(o, p, back) # Nothing
  <2>1. position[p] \in Slots /\ back[p] \in Slots /\ p \in Pods
    BY <1>2, <1>3 DEF LedgerTypes
  <2>2. Errand(o, p, back) \in Chain  BY <2>1 DEF Errand, Chain, ChainStage
  <2>3. QED  BY <2>2, NothingAssumption DEF Chain, ChainStage
<1>8. ASSUME NEW e \in Robots, \A p \in Wanted(o) : For(o, f, p) # e
      PROVE  chain'[e] = chain[e]
  <2>1. e = <<e[1], e[2]>>  BY ErrandsAssumption
  <2>2. ~(e[1] = f /\ \E p \in Wanted(o) : Place(o, p) = e[2])
    BY <1>8, <2>1 DEF For
  <2>3. QED  BY <1>1, <2>2
<1>9. ASSUME NEW e \in Robots PROVE chain'[e] \in Chain \cup {Nothing}
  <2>1. CASE \E p \in Wanted(o) : For(o, f, p) = e  BY <1>6, <1>7, <2>1
  <2>2. CASE \A p \in Wanted(o) : For(o, f, p) # e
    BY <1>2, <1>8, <2>2 DEF LedgerTypes
  <2>3. QED  BY <2>1, <2>2
<1>10. chain' \in [Robots -> Chain \cup {Nothing}]
  <2>1. chain' = [e \in Robots |-> chain'[e]]  BY <1>1
  <2>2. QED  BY <1>9, <2>1
<1>11. \A e \in Busy : e \in Busy' /\ chain'[e] = chain[e]
  BY <1>4, <1>8 DEF Busy
<1>12. Busy' = Busy \cup {For(o, f, p) : p \in Wanted(o)}
  <2>1. ASSUME NEW e \in Robots
        PROVE  chain'[e] # Nothing <=> e \in Busy \/ \E p \in Wanted(o) : For(o, f, p) = e
    <3>1. CASE \E p \in Wanted(o) : For(o, f, p) = e  BY <1>6, <1>7, <3>1
    <3>2. CASE \A p \in Wanted(o) : For(o, f, p) # e  BY <1>8, <3>2 DEF Busy
    <3>3. QED  BY <3>1, <3>2
  <2>2. QED  BY <1>4, <2>1 DEF Busy
<1>13. \A p, q \in Wanted(o) : For(o, f, p) = For(o, f, q) => p = q
  BY <1>5 DEF For
<1>14. SentOut(o, f, back)
  BY <1>1, <1>3, <1>4, <1>6, <1>7, <1>10, <1>11, <1>12, <1>13 DEF SentOut
<1>15. QED  BY <1>14

(* Where the pods of an order are sent back to: each to its home, or to a   *)
(* slot nobody stands on or goes back to; and no two to the same.           *)
LEMMA PlansApart ==
    ASSUME SerialInv, NEW o \in Orders, SendWhole(o),
           NEW f \in IdleRobots, NEW back \in [Wanted(o) -> Slots], SentOut(o, f, back)
    PROVE  /\ \A p \in Wanted(o), q \in Pods :
                carrier[q] = Nothing /\ position[q] = back[p] => q = p
           /\ \A p \in Wanted(o), e \in Busy : back[p] # chain[e].back
           /\ \A p, q \in Wanted(o) : back[p] = back[q] => p = q
<1>1. LedgerTypes /\ IndInv /\ CommitsItsReturns
  BY GreedyOnly DEF SerialInv, IndInv
<1> DEFINE earlier(p) == {q \in Wanted(o) : Place(o, q) < Place(o, p)}
           occupied(p) == TakenSlots(p) \cup {back[q] : q \in earlier(p)}
<1>2. ASSUME NEW p \in Wanted(o)
      PROVE  /\ p \in Pods /\ carrier[p] = Nothing /\ p \notin Reserved
             /\ position[p] = home[p]
             /\ back[p] = home[p] \/ back[p] \notin occupied(p)
  <2>1. p \in Pods /\ carrier[p] = Nothing /\ p \notin Reserved  BY DEF SentOut
  <2>2. position[p] = home[p]  BY <1>1, <2>1 DEF IndInv, PodsGoHome
  <2>3. back[p] = NearestOutside(p, occupied(p))  BY DEF SentOut, PlannedInTurn
  <2> HIDE DEF occupied
  <2>4. QED  BY <1>1, <2>1, <2>2, <2>3, NearestIsSlot
<1>3. ASSUME NEW p \in Wanted(o), NEW q \in Pods, carrier[q] = Nothing,
             position[q] = back[p]
      PROVE  q = p
  <2>1. CASE back[p] = home[p]
    BY <1>2, <1>3, <2>1 DEF SerialInv, SlotsApart, SlotsNotShared
  <2>2. CASE back[p] \notin TakenSlots(p)  BY <1>3, <2>2 DEF TakenSlots
  <2>3. QED  BY <1>2, <2>1, <2>2
<1>4. ASSUME NEW p \in Wanted(o), NEW e \in Busy PROVE back[p] # chain[e].back
  <2>1. chain[e].pod # p  BY <1>2 DEF Reserved
  <2>2. CASE back[p] = home[p]
    BY <1>2, <2>1, <2>2 DEF SerialInv, SlotsApart
  <2>3. CASE back[p] \notin TakenSlots(p)  BY <2>1, <2>3 DEF TakenSlots
  <2>4. QED  BY <1>2, <2>2, <2>3
<1>5. \A p, q \in Wanted(o) : /\ Place(o, p) \in Int
                              /\ Place(o, p) = Place(o, q) => p = q
  <2>1. ASSUME NEW p \in Wanted(o) PROVE Place(o, p) \in Int
    <3>1. <<f, Place(o, p)>> \in Fleet \X (1 .. MaxList)
      BY ErrandsAssumption DEF SentOut, For
    <3>2. QED  BY <3>1
  <2>2. \A p, q \in Wanted(o) : Place(o, p) = Place(o, q) => p = q
    BY DEF SentOut, For
  <2>3. QED  BY <2>1, <2>2
<1>6. ASSUME NEW p \in Wanted(o), NEW q \in Wanted(o), Place(o, q) < Place(o, p)
      PROVE  back[p] # back[q]
  <2>1. p # q  BY <1>5, <1>6
  <2>2. CASE back[p] = home[p]
    <3>1. position[p] = back[p] /\ p \in Pods /\ carrier[p] = Nothing  BY <1>2, <2>2
    <3>2. QED  BY <1>3, <2>1, <3>1
  <2>3. CASE back[p] \notin occupied(p)  BY <1>6, <2>3
  <2>4. QED  BY <1>2, <2>2, <2>3
<1>7. ASSUME NEW p \in Wanted(o), NEW q \in Wanted(o), back[p] = back[q]
      PROVE  p = q
  <2>1. ~(Place(o, q) < Place(o, p)) /\ ~(Place(o, p) < Place(o, q))  BY <1>6, <1>7
  <2>2. Place(o, p) = Place(o, q)  BY <1>5, <2>1
  <2>3. QED  BY <1>5, <2>2
<1>8. QED  BY <1>3, <1>4, <1>7

(* Sending an order whole keeps the invariant of Dispatch ...               *)
LEMMA SendWholeInv ==
    ASSUME SerialInv, NEW o \in Orders, SendWhole(o)
    PROVE  IndInv'
<1>1. PICK f \in IdleRobots, back \in [Wanted(o) -> Slots] : SentOut(o, f, back)
  BY SendFacts
<1>2. /\ IndInv /\ LedgerTypes /\ o \in Pending
      /\ status' = [status EXCEPT ![o] = "in_progress"]
      /\ UNCHANGED <<list, delivered, finished, carrier, position>>
      /\ KeepsLists /\ CommitsItsReturns
      /\ KeepsLists' = KeepsLists /\ CommitsItsReturns' = CommitsItsReturns
  BY GreedyOnly, SamePolicy DEF SerialInv, IndInv, SendWhole, Scan
<1>3. /\ home' = NewHomes(o, back)
      /\ \A p \in Wanted(o) :
            /\ p \in Pods /\ p \in Range(list[o]) /\ carrier[p] = Nothing
            /\ p \notin Reserved
            /\ For(o, f, p) \in Robots \ Busy
            /\ chain'[For(o, f, p)] = Errand(o, p, back)
      /\ \A p, q \in Wanted(o) : For(o, f, p) = For(o, f, q) => p = q
      /\ chain' \in [Robots -> Chain \cup {Nothing}]
      /\ \A e \in Busy : e \in Busy' /\ chain'[e] = chain[e]
      /\ Busy' = Busy \cup {For(o, f, p) : p \in Wanted(o)}
  BY <1>1 DEF SentOut
<1>4. \A p \in Wanted(o) :
        /\ chain'[For(o, f, p)].order = o /\ chain'[For(o, f, p)].pod = p
        /\ chain'[For(o, f, p)].spot = position[p]
        /\ chain'[For(o, f, p)].back = back[p]
        /\ chain'[For(o, f, p)].stage = "pick"
        /\ p \notin Fulfilled(o)
  <2>1. ASSUME NEW p \in Wanted(o)
        PROVE  /\ Errand(o, p, back).order = o /\ Errand(o, p, back).pod = p
               /\ Errand(o, p, back).spot = position[p]
               /\ Errand(o, p, back).back = back[p]
               /\ Errand(o, p, back).stage = "pick"
    BY DEF Errand
  <2>2. \A p \in Wanted(o) : p \notin Fulfilled(o)  BY DEF Wanted
  <2>3. QED  BY <1>3, <2>1, <2>2
<1>5. \A e \in Busy' : e \in Busy \/ \E p \in Wanted(o) : e = For(o, f, p)
  BY <1>3
<1>6. Reserved' = Reserved \cup Wanted(o)
  <2>1. ASSUME NEW e \in Busy' PROVE chain'[e].pod \in Reserved \cup Wanted(o)
    BY <1>3, <1>4, <1>5 DEF Reserved
  <2>2. \A e \in Busy : chain[e].pod \in Reserved'  BY <1>3 DEF Reserved
  <2>3. \A p \in Wanted(o) : p \in Reserved'
    <3>1. \A p \in Wanted(o) : For(o, f, p) \in Busy'  BY <1>3
    <3>2. QED  BY <1>4, <3>1 DEF Reserved
  <2>4. QED  BY <2>1, <2>2, <2>3 DEF Reserved
<1>7. /\ home' \in [Pods -> Slots]
      /\ \A p \in Wanted(o) : home'[p] = back[p]
      /\ \A p \in Pods \ Wanted(o) : home'[p] = home[p]
  <2>1. home \in [Pods -> Slots]  BY <1>2 DEF LedgerTypes
  <2>2. QED  BY <1>3, <2>1 DEF NewHomes
<1>8. LedgerTypes'
  BY <1>2, <1>3, <1>7 DEF LedgerTypes, OrderStatus
<1>9. PodsMatchChains'
  <2>1. ASSUME NEW d \in Busy', NEW e \in Busy', chain'[d].pod = chain'[e].pod
        PROVE  d = e
    <3>1. CASE d \in Busy /\ e \in Busy
      BY <1>2, <1>3, <2>1, <3>1 DEF IndInv, PodsMatchChains
    <3>2. \A x \in Busy, p \in Wanted(o) : chain'[x].pod # chain'[For(o, f, p)].pod
      <4>1. \A x \in Busy : chain'[x].pod \in Reserved  BY <1>3 DEF Reserved
      <4>2. QED  BY <1>3, <1>4, <4>1
    <3>3. \A p, q \in Wanted(o) : chain'[For(o, f, p)].pod = chain'[For(o, f, q)].pod => p = q
      BY <1>4
    <3>4. QED  BY <1>5, <2>1, <3>1, <3>2, <3>3
  <2>2. ASSUME NEW x \in Pods, NEW e \in Robots
        PROVE  carrier'[x] = e <=>
                  e \in Busy' /\ chain'[e].pod = x /\ chain'[e].stage # "pick"
    <3>1. carrier[x] = e <=> e \in Busy /\ chain[e].pod = x /\ chain[e].stage # "pick"
      BY <1>2 DEF IndInv, PodsMatchChains
    <3>2. CASE e \in Busy  BY <1>2, <1>3, <3>1, <3>2
    <3>3. CASE e \notin Busy
      <4>1. e \in Busy' => chain'[e].stage = "pick"  BY <1>4, <1>5, <3>3
      <4>2. QED  BY <1>2, <3>1, <3>3, <4>1
    <3>4. QED  BY <3>2, <3>3
  <2>3. ASSUME NEW e \in Busy', chain'[e].stage = "pick" PROVE PodWaits(e)'
    <3>1. CASE e \in Busy
      <4>1. PodWaits(e)  BY <1>2, <1>3, <2>3, <3>1 DEF IndInv, PodsMatchChains
      <4>2. QED  BY <1>2, <1>3, <3>1, <4>1 DEF PodWaits
    <3>2. ASSUME NEW p \in Wanted(o), e = For(o, f, p) PROVE PodWaits(e)'
      BY <1>2, <1>3, <1>4, <3>2 DEF PodWaits
    <3>3. QED  BY <1>5, <3>1, <3>2
  <2>4. QED  BY <2>1, <2>2, <2>3 DEF PodsMatchChains
<1>10. FinishedOnReturn'
  <2>1. ASSUME NEW e \in Busy'
        PROVE  chain'[e].pod \in finished'[chain'[e].order] <=> chain'[e].stage = "return"
    <3>1. CASE e \in Busy  BY <1>2, <1>3, <3>1 DEF IndInv, FinishedOnReturn
    <3>2. ASSUME NEW p \in Wanted(o), e = For(o, f, p)
          PROVE  chain'[e].pod \notin finished'[chain'[e].order] /\ chain'[e].stage # "return"
      BY <1>2, <1>4, <3>2 DEF Fulfilled
    <3>3. QED  BY <1>5, <3>1, <3>2
  <2>2. QED  BY <2>1 DEF FinishedOnReturn
<1>11. MarksBacked'  BY <1>2, <1>3 DEF IndInv, MarksBacked
<1>12. PodsGoHome'
  <2>1. ASSUME NEW e \in Busy' PROVE chain'[e].back = home'[chain'[e].pod]
    <3>1. CASE e \in Busy
      <4>1. chain[e].pod \in Pods /\ chain[e].pod \notin Wanted(o)
        BY <1>2, <1>3, <3>1, BusyTypes DEF Reserved
      <4>2. QED  BY <1>2, <1>3, <1>7, <3>1, <4>1 DEF IndInv, PodsGoHome
    <3>2. ASSUME NEW p \in Wanted(o), e = For(o, f, p)
          PROVE  chain'[e].back = home'[chain'[e].pod]
      BY <1>4, <1>7, <3>2
    <3>3. QED  BY <1>5, <3>1, <3>2
  <2>2. \A x \in Pods \ Reserved' : position'[x] = home'[x]
    BY <1>2, <1>6, <1>7 DEF IndInv, PodsGoHome
  <2>3. QED  BY <2>1, <2>2 DEF PodsGoHome
<1>13. ListsKept'
  <2>1. ASSUME NEW e \in Busy'
        PROVE  /\ chain'[e].pod \in Range(list'[chain'[e].order])
               /\ chain'[e].stage = "exit" => chain'[e].pod \in delivered'[chain'[e].order]
    <3>1. CASE e \in Busy  BY <1>2, <1>3, <3>1 DEF IndInv, ListsKept
    <3>2. ASSUME NEW p \in Wanted(o), e = For(o, f, p)
          PROVE  /\ chain'[e].pod \in Range(list'[chain'[e].order])
                 /\ chain'[e].stage # "exit"
      BY <1>2, <1>3, <1>4, <3>2
    <3>3. QED  BY <1>5, <3>1, <3>2
  <2>2. QED  BY <1>2, <2>1 DEF IndInv, ListsKept, DeliveredLedgerComplete
<1>14. InProgressCovered'
  <2>1. ASSUME NEW x \in Orders \ {o} PROVE UnderWay(x)' = UnderWay(x)
    <3>1. \A e \in Busy' : chain'[e].order = x => e \in Busy  BY <1>4, <1>5
    <3>2. QED  BY <1>3, <3>1 DEF UnderWay
  <2>2. Wanted(o) \subseteq UnderWay(o)'
    <3>1. \A p \in Wanted(o) : For(o, f, p) \in Busy'  BY <1>3
    <3>2. QED  BY <1>4, <3>1 DEF UnderWay
  <2>3. Range(list'[o]) \subseteq Fulfilled(o)' \cup UnderWay(o)'
    BY <1>2, <2>2 DEF Wanted, Fulfilled
  <2>4. status'[o] = "in_progress" /\ \A x \in Orders \ {o} : status'[x] = status[x]
    BY <1>2 DEF LedgerTypes
  <2>5. QED
    BY <1>2, <2>1, <2>3, <2>4 DEF IndInv, InProgressCovered, InProgress, Fulfilled
<1>15. QED
  BY <1>8, <1>9, <1>10, <1>11, <1>12, <1>13, <1>14 DEF IndInv

(* ... and the rest of the serial one.                                      *)
LEMMA SendWholeSerialInv ==
    ASSUME SerialInv, NEW o \in Orders, SendWhole(o)
    PROVE  SerialInv'
<1>1. PICK f \in IdleRobots, back \in [Wanted(o) -> Slots] : SentOut(o, f, back)
  BY SendFacts
<1>2. /\ o \in Pending /\ unscanned' = unscanned \ {o} /\ Wanted(o) # {}
      /\ status' = [status EXCEPT ![o] = "in_progress"]
      /\ UNCHANGED <<list, delivered, finished, carrier, position, policy>>
      /\ status \in [Orders -> OrderStatus \cup {"absent"}]
  BY DEF SerialInv, IndInv, LedgerTypes, SendWhole, Scan
<1>3. /\ \A p \in Wanted(o) : chain'[For(o, f, p)] = Errand(o, p, back)
      /\ \A e \in Busy : e \in Busy' /\ chain'[e] = chain[e]
      /\ Busy' = Busy \cup {For(o, f, p) : p \in Wanted(o)}
  BY <1>1 DEF SentOut
<1>4. \A p \in Wanted(o) : /\ chain'[For(o, f, p)].order = o
                           /\ chain'[For(o, f, p)].pod = p
                           /\ chain'[For(o, f, p)].back = back[p]
  <2>1. ASSUME NEW p \in Wanted(o)
        PROVE  /\ Errand(o, p, back).order = o /\ Errand(o, p, back).pod = p
               /\ Errand(o, p, back).back = back[p]
    BY DEF Errand
  <2>2. QED  BY <1>3, <2>1
<1>5. \A e \in Busy' : e \in Busy \/ \E p \in Wanted(o) : e = For(o, f, p)
  BY <1>3
<1>6. unscanned' \subseteq Pending'  BY <1>2 DEF SerialInv, Pending
<1>7. SentWhole'
  <2>1. ASSUME NEW x \in Orders \ {o} PROVE UnderWay(x)' = UnderWay(x)
    <3>1. \A e \in Busy' : chain'[e].order = x => e \in Busy  BY <1>4, <1>5
    <3>2. QED  BY <1>3, <3>1 DEF UnderWay
  <2>2. Range(list[o]) # {}  BY <1>2 DEF Wanted
  <2>3. QED  BY <1>2, <2>1, <2>2 DEF SerialInv, SentWhole, Fulfilled, InProgress
<1>8. SlotsApart'
  <2>1. /\ \A p \in Wanted(o), q \in Pods :
              carrier[q] = Nothing /\ position[q] = back[p] => q = p
        /\ \A p \in Wanted(o), e \in Busy : back[p] # chain[e].back
        /\ \A p, q \in Wanted(o) : back[p] = back[q] => p = q
    BY <1>1, PlansApart
  <2>2. ASSUME NEW d \in Busy', NEW e \in Busy', chain'[d].back = chain'[e].back
        PROVE  d = e
    <3>1. CASE d \in Busy /\ e \in Busy
      BY <1>3, <2>2, <3>1 DEF SerialInv, SlotsApart, SlotsNotShared
    <3>2. \A x \in Busy, p \in Wanted(o) : chain'[x].back # chain'[For(o, f, p)].back
      BY <1>3, <1>4, <2>1
    <3>3. \A p, q \in Wanted(o) :
              chain'[For(o, f, p)].back = chain'[For(o, f, q)].back => p = q
      BY <1>4, <2>1
    <3>4. QED  BY <1>5, <2>2, <3>1, <3>2, <3>3
  <2>3. ASSUME NEW e \in Busy', NEW p \in Pods,
               carrier'[p] = Nothing, position'[p] = chain'[e].back
        PROVE  p = chain'[e].pod
    <3>1. CASE e \in Busy  BY <1>2, <1>3, <2>3, <3>1 DEF SerialInv, SlotsApart
    <3>2. ASSUME NEW q \in Wanted(o), e = For(o, f, q) PROVE p = chain'[e].pod
      BY <1>2, <1>4, <2>1, <2>3, <3>2
    <3>3. QED  BY <1>5, <3>1, <3>2
  <2>4. SlotsNotShared'  BY <1>2, <2>2 DEF SerialInv, SlotsApart, SlotsNotShared
  <2>5. QED  BY <2>3, <2>4 DEF SlotsApart
<1>9. IndInv'  BY SendWholeInv
<1>10. QED  BY <1>2, <1>6, <1>7, <1>8, <1>9 DEF SerialInv

-----------------------------------------------------------------------------
(* The order of a busy errand is past pending.                              *)
LEMMA SentFor ==
    ASSUME SerialInv, NEW e \in Busy
    PROVE  /\ chain[e].order \in Orders
           /\ status[chain[e].order] \notin {"absent", "pending"}
<1>1. chain[e].order \in Orders  BY BusyTypes DEF SerialInv, IndInv
<1>2. UnderWay(chain[e].order) # {}  BY DEF UnderWay
<1>3. QED  BY <1>1, <1>2 DEF SerialInv, SentWhole

(* Advancing an errand moves no pod to a slot.                              *)
LEMMA AdvanceSerial ==
    ASSUME SerialInv, NEW e \in Robots, NEW from \in ChainStage, NEW to \in ChainStage,
           Advance(e, from, to), UNCHANGED <<status, list, position, policy, unscanned>>,
           \A p \in Pods : carrier'[p] = Nothing => carrier[p] = Nothing,
           \A o \in Orders : o # chain[e].order =>
                delivered'[o] = delivered[o] /\ finished'[o] = finished[o],
           IndInv'
    PROVE  SerialInv'
<1>1. LedgerTypes  BY DEF SerialInv, IndInv
<1>2. /\ e \in Busy /\ Busy' = Busy
      /\ \A d \in Busy : /\ chain'[d].pod = chain[d].pod
                         /\ chain'[d].back = chain[d].back
      /\ \A o \in Orders : UnderWay(o)' = UnderWay(o)
  BY <1>1, AdvanceFacts
<1>3. SentWhole'
  <2>1. chain[e].order \in Orders
        /\ status[chain[e].order] \notin {"absent", "pending"}
    BY <1>2, SentFor
  <2>2. \A o \in Orders : status[o] \in {"absent", "pending"} =>
            Fulfilled(o)' = Fulfilled(o)
    BY <2>1 DEF Fulfilled
  <2>3. QED  BY <1>2, <2>2 DEF SerialInv, SentWhole, InProgress
<1>4. SlotsApart'  BY <1>2 DEF SerialInv, SlotsApart, SlotsNotShared
<1>5. QED  BY <1>3, <1>4 DEF SerialInv, Pending

LEMMA ReturnSerial ==
    ASSUME SerialInv, NEW e \in Robots, ReturnDone(e), unscanned' = unscanned
    PROVE  SerialInv'
<1>1. /\ e \in Busy /\ chain[e].stage = "return"
      /\ carrier' = [carrier EXCEPT ![chain[e].pod] = Nothing]
      /\ position' = [position EXCEPT ![chain[e].pod] = chain[e].back]
      /\ chain' = [chain EXCEPT ![e] = Nothing]
      /\ UNCHANGED <<status, list, delivered, finished, policy>>
  BY DEF ReturnDone, orderVars
<1>2. LedgerTypes /\ IndInv /\ IndInv'
  BY ReturnDoneInv DEF SerialInv, IndInv
<1>3. chain[e].pod \in Pods  BY <1>1, <1>2, BusyTypes
<1>4. /\ Busy' = Busy \ {e}
      /\ \A d \in Busy' : d \in Busy /\ d # e /\ chain'[d] = chain[d]
  BY <1>1, <1>2 DEF LedgerTypes, Busy
<1>5. /\ position'[chain[e].pod] = chain[e].back
      /\ \A p \in Pods \ {chain[e].pod} :
            position'[p] = position[p] /\ carrier'[p] = carrier[p]
  BY <1>1, <1>2, <1>3 DEF LedgerTypes
<1>6. SentWhole'
  <2>1. \A o \in Orders : UnderWay(o)' \subseteq UnderWay(o)  BY <1>4 DEF UnderWay
  <2>2. QED  BY <1>1, <2>1 DEF SerialInv, SentWhole, Fulfilled, InProgress
<1>7. SlotsApart'
  <2>1. ASSUME NEW p \in Pods, NEW q \in Pods, position'[p] = position'[q],
               carrier'[p] = Nothing, carrier'[q] = Nothing
        PROVE  p = q
    <3>1. CASE p = chain[e].pod
      BY <1>1, <1>5, <2>1, <3>1 DEF SerialInv, SlotsApart
    <3>2. CASE q = chain[e].pod
      BY <1>1, <1>5, <2>1, <3>2 DEF SerialInv, SlotsApart
    <3>3. CASE p # chain[e].pod /\ q # chain[e].pod
      BY <1>5, <2>1, <3>3 DEF SerialInv, SlotsApart, SlotsNotShared
    <3>4. QED  BY <3>1, <3>2, <3>3
  <2>2. \A c, d \in Busy' : chain'[c].back = chain'[d].back => c = d
    BY <1>4 DEF SerialInv, SlotsApart, SlotsNotShared
  <2>3. ASSUME NEW d \in Busy', NEW p \in Pods,
               carrier'[p] = Nothing, position'[p] = chain'[d].back
        PROVE  p = chain'[d].pod
    <3>1. CASE p = chain[e].pod
      <4>1. chain[e].back = chain[d].back  BY <1>4, <1>5, <2>3, <3>1
      <4>2. d = e  BY <1>1, <1>4, <4>1 DEF SerialInv, SlotsApart, SlotsNotShared
      <4>3. QED  BY <1>4, <4>2
    <3>2. CASE p # chain[e].pod
      BY <1>4, <1>5, <2>3, <3>2 DEF SerialInv, SlotsApart
    <3>3. QED  BY <3>1, <3>2
  <2>4. QED  BY <2>1, <2>2, <2>3 DEF SlotsApart, SlotsNotShared
<1>8. QED  BY <1>1, <1>2, <1>6, <1>7 DEF SerialInv, Pending

LEMMA WorkInv ==
    ASSUME SerialInv, NEW e \in Robots, Work(e)
    PROVE  SerialInv'
<1>1. unscanned' = unscanned /\ IndInv /\ LedgerTypes
  BY DEF Work, SerialInv, IndInv
<1>2. CASE PickDone(e)
  <2>1. /\ Advance(e, "pick", "deliver")
        /\ UNCHANGED <<status, list, delivered, finished, position, policy>>
        /\ carrier' = [carrier EXCEPT ![chain[e].pod] = e]
    BY <1>2 DEF PickDone, orderVars
  <2>2. \A p \in Pods : carrier'[p] = Nothing => carrier[p] = Nothing
    BY <1>1, <2>1, NothingAssumption DEF LedgerTypes
  <2>3. IndInv'  BY <1>1, <1>2, PickDoneInv
  <2>4. QED  BY <1>1, <2>1, <2>2, <2>3, AdvanceSerial DEF ChainStage
<1>3. CASE ServiceDone(e)
  <2>1. /\ Advance(e, "deliver", "exit") /\ e \in Busy
        /\ UNCHANGED <<status, list, finished, carrier, position, policy>>
        /\ delivered' = IF chain[e].pod \in Range(list[chain[e].order])
                        THEN [delivered EXCEPT ![chain[e].order] = @ \cup {chain[e].pod}]
                        ELSE delivered
    BY <1>3 DEF ServiceDone, Advance, orderVars, podVars
  <2>2. \A o \in Orders : o # chain[e].order => delivered'[o] = delivered[o]
    BY <1>1, <2>1 DEF LedgerTypes
  <2>3. IndInv'  BY <1>1, <1>3, ServiceDoneInv
  <2>4. QED  BY <1>1, <2>1, <2>2, <2>3, AdvanceSerial DEF ChainStage
<1>4. CASE ExitDone(e)
  <2>1. /\ Advance(e, "exit", "return")
        /\ UNCHANGED <<status, list, delivered, carrier, position, policy>>
        /\ finished' = [finished EXCEPT ![chain[e].order] = @ \cup {chain[e].pod}]
    BY <1>4 DEF ExitDone, orderVars, podVars
  <2>2. \A o \in Orders : o # chain[e].order => finished'[o] = finished[o]
    BY <1>1, <2>1 DEF LedgerTypes
  <2>3. IndInv'  BY <1>1, <1>4, ExitDoneInv
  <2>4. QED  BY <1>1, <2>1, <2>2, <2>3, AdvanceSerial DEF ChainStage
<1>5. CASE ReturnDone(e)  BY <1>1, <1>5, ReturnSerial
<1>6. QED  BY <1>2, <1>3, <1>4, <1>5 DEF Work, Act

(* Whatever was sent whole is delivered when its last chain ends.           *)
LEMMA SettledDelivered ==
    ASSUME SerialInv, NEW o \in Settled
    PROVE  FullyDelivered(o)
<1>1. o \in InProgress /\ o \in Orders /\ UnderWay(o) = {}  BY DEF Settled, InProgress
<1>2. Range(list[o]) # {}  BY <1>1 DEF SerialInv, SentWhole
<1>3. Range(list[o]) \subseteq delivered[o] \cup finished[o]
  BY <1>1 DEF SerialInv, IndInv, InProgressCovered, Fulfilled
<1>4. finished[o] \subseteq delivered[o]
  BY <1>1, GreedyOnly DEF SerialInv, IndInv, ListsKept, DeliveredLedgerComplete
<1>5. QED  BY <1>2, <1>3, <1>4 DEF FullyDelivered

LEMMA EndTickInv ==
    ASSUME SerialInv, EndTick
    PROVE  SerialInv'
<1>1. /\ CheckOrders /\ unscanned = {} /\ unscanned' = {}
      /\ UNCHANGED <<delivered, finished, chain, carrier, position, policy>>
      /\ status' = [o \in Orders |->
                      IF o \notin Settled THEN status[o]
                      ELSE IF FullyDelivered(o) THEN "completed" ELSE "pending"]
      /\ list' = [o \in Orders |->
                    IF o \in Settled /\ ~FullyDelivered(o) THEN <<>> ELSE list[o]]
  BY DEF EndTick, CheckOrders, podVars
<1>2. IndInv'  BY <1>1, CheckOrdersInv DEF SerialInv
<1>3. \A o \in Orders : /\ status'[o] = status[o] \/ status'[o] = "completed"
                        /\ list'[o] = list[o]
  BY <1>1, SettledDelivered
<1>4. Busy' = Busy /\ \A o \in Orders : UnderWay(o)' = UnderWay(o) /\ Fulfilled(o)' = Fulfilled(o)
  BY <1>1 DEF Busy, UnderWay, Fulfilled
<1>5. SentWhole'  BY <1>3, <1>4 DEF SerialInv, SentWhole, InProgress
<1>6. SlotsApart'  BY <1>1, <1>4 DEF SerialInv, SlotsApart, SlotsNotShared
<1>7. QED  BY <1>1, <1>2, <1>5, <1>6 DEF SerialInv

LEMMA SerialNextInv == SerialInv /\ [SerialNext]_serialVars => SerialInv'
<1> SUFFICES ASSUME SerialInv, [SerialNext]_serialVars PROVE SerialInv'
  OBVIOUS
<1>1. ASSUME NEW o \in Orders, Arrive(o) PROVE SerialInv'  BY <1>1, ArriveInv
<1>2. CASE Retrieve  BY <1>2, RetrieveInv
<1>3. ASSUME NEW o \in Orders, DropList(o) \/ PassOver(o) \/ SendWhole(o)
      PROVE  SerialInv'
  BY <1>3, DropListInv, PassOverInv, SendWholeSerialInv
<1>4. ASSUME NEW e \in Robots, Work(e) PROVE SerialInv'  BY <1>4, WorkInv
<1>5. CASE EndTick  BY <1>5, EndTickInv
<1>6. CASE UNCHANGED serialVars
  <2>1. UNCHANGED vars /\ unscanned' = unscanned
        /\ UNCHANGED <<status, list, delivered, finished, chain, carrier, position, policy>>
    BY <1>6 DEF serialVars, vars, orderVars, podVars
  <2>2. IndInv'  BY <2>1, StutterInv DEF SerialInv
  <2>3. Busy' = Busy /\ \A o \in Orders : UnderWay(o)' = UnderWay(o) /\ Fulfilled(o)' = Fulfilled(o)
    BY <2>1 DEF Busy, UnderWay, Fulfilled
  <2>4. SentWhole'  BY <2>1, <2>3 DEF SerialInv, SentWhole, InProgress
  <2>5. SlotsApart'  BY <2>1, <2>3 DEF SerialInv, SlotsApart, SlotsNotShared
  <2>6. QED  BY <2>1, <2>2, <2>4, <2>5 DEF SerialInv, Pending
<1>7. QED  BY <1>1, <1>2, <1>3, <1>4, <1>5, <1>6 DEF SerialNext

LEMMA SerialInductive == SerialSpec => []SerialInv
BY SerialInitInv, SerialNextInv, PTL DEF SerialSpec

(* In the serial mode too a pod waits where its PICK task says until its    *)
(* turn comes, however long the robot's task list: the retry for an         *)
(* unavailable pod is never entered.                                        *)
THEOREM QueuedPodsExclusive == SerialSpec => []PodsMatchChains
<1>1. SerialInv => PodsMatchChains  BY DEF SerialInv, IndInv
<1>2. QED  BY <1>1, SerialInductive, PTL

(* An order is served whole or not at all, and never set back to PENDING.   *)
THEOREM ServedWhole == SerialSpec => []AllOrNothing
<1>1. SerialInv => AllOrNothing
  <2>1. SerialInv => \A o \in Pending : Fulfilled(o) = {} /\ UnderWay(o) = {}
    BY DEF SerialInv, SentWhole, Pending
  <2>2. SerialInv => \A o \in Settled : FullyDelivered(o)  BY SettledDelivered
  <2>3. QED  BY <2>1, <2>2 DEF AllOrNothing
<1>2. QED  BY <1>1, SerialInductive, PTL

(* NearestSlotPlanner double-books no slot when chains are planned one      *)
(* after another, as the serial mode does (the parallel mode does not).     *)
THEOREM SlotsKeptApart == SerialSpec => []SlotsNotShared
<1>1. SerialInv => SlotsNotShared  BY DEF SerialInv, SlotsApart
<1>2. QED  BY <1>1, SerialInductive, PTL

-----------------------------------------------------------------------------
(* A step that leaves orders and chains alone is a stutter.                 *)
LEMMA QuietStep ==
    ASSUME UNCHANGED <<status, finished, chain>>
    PROVE  UNCHANGED <<Open, Closed, Loans, ServedPairs>>
<1>1. Busy' = Busy  BY DEF Busy
<1>2. Loans' = Loans /\ ServedPairs' = ServedPairs
  BY <1>1 DEF Loans, ServedPairs
<1>3. QED  BY <1>2, SameOrders

(* Sending an order whole lends its pods to errands that had none.          *)
LEMMA SendFulfils ==
    ASSUME SerialInv, NEW o \in Orders, SendWhole(o)
    PROVE  Fulfilment!Lend
<1>1. PICK f \in IdleRobots, back \in [Wanted(o) -> Slots] : SentOut(o, f, back)
  BY SendFacts
<1>2. /\ status[o] = "pending" /\ status' = [status EXCEPT ![o] = "in_progress"]
      /\ finished' = finished /\ IndInv /\ IndInv' /\ LedgerTypes /\ LedgerTypes'
  BY SendWholeInv DEF SerialInv, IndInv, SendWhole, Scan, Pending
<1>3. /\ \A p \in Wanted(o) :
            /\ p \in Pods /\ p \notin Reserved /\ For(o, f, p) \in Robots \ Busy
            /\ chain'[For(o, f, p)] = Errand(o, p, back)
      /\ \A e \in Busy : e \in Busy' /\ chain'[e] = chain[e]
      /\ Busy' = Busy \cup {For(o, f, p) : p \in Wanted(o)}
  BY <1>1 DEF SentOut
<1>4. \A p \in Wanted(o) : /\ chain'[For(o, f, p)].order = o
                           /\ chain'[For(o, f, p)].pod = p
                           /\ chain'[For(o, f, p)].stage = "pick"
                           /\ p \notin finished[o]
  <2>1. ASSUME NEW p \in Wanted(o)
        PROVE  /\ Errand(o, p, back).order = o /\ Errand(o, p, back).pod = p
               /\ Errand(o, p, back).stage = "pick"
    BY DEF Errand
  <2>2. \A p \in Wanted(o) : p \notin finished[o]  BY DEF Wanted, Fulfilled
  <2>3. QED  BY <1>3, <2>1, <2>2
<1>5. Open' = Open /\ Closed' = Closed
  <2>1. status \in [Orders -> OrderStatus \cup {"absent"}]  BY <1>2 DEF LedgerTypes
  <2>2. ASSUME NEW x \in Orders
        PROVE  \/ status'[x] = status[x]
               \/ status[x] = "pending" /\ status'[x] = "in_progress"
    BY <1>2, <2>1
  <2>3. QED  BY <2>2 DEF Open, Closed, Pending, InProgress
<1>6. \A e \in Busy : e \in Robots /\ Loans'[e] = Loans[e]
  BY <1>3 DEF Loans, Busy
<1>7. ServedPairs' = ServedPairs
  <2>1. \A e \in Busy' : chain'[e].stage = "exit" => e \in Busy
    BY <1>3, <1>4
  <2>2. {Loans'[e] : e \in {d \in Busy' : chain'[d].stage = "exit"}}
          = {Loans[e] : e \in {d \in Busy : chain[d].stage = "exit"}}
    BY <1>3, <1>6, <2>1
  <2>3. QED  BY <1>2, <2>2 DEF ServedPairs
<1>8. Loans' \in [Robots -> (Orders \X Pods) \cup {Nothing}]
  <2>1. ASSUME NEW e \in Robots PROVE Loans'[e] \in (Orders \X Pods) \cup {Nothing}
    <3>1. CASE e \in Busy'
      <4>1. chain'[e].order \in Orders /\ chain'[e].pod \in Pods
        BY <1>2, <3>1 DEF LedgerTypes, Busy, Chain
      <4>2. QED  BY <3>1, <4>1 DEF Loans
    <3>2. CASE e \notin Busy'  BY <3>2 DEF Loans
    <3>3. QED  BY <3>1, <3>2
  <2>2. QED  BY <2>1 DEF Loans
<1>9. ASSUME NEW e \in Robots, Loans[e] # Nothing PROVE Loans'[e] = Loans[e]
  <2>1. e \in Busy  BY <1>9 DEF Loans
  <2>2. QED  BY <1>6, <2>1
<1>10. ASSUME NEW e \in Robots, Loans'[e] # Loans[e]
       PROVE  /\ Loans'[e][1] \in Open
              /\ Loans'[e] \notin ServedPairs
              /\ \A d \in Robots \ {e} : Loans'[d] # Nothing => Loans'[d][2] # Loans'[e][2]
  <2>1. e \in Busy' /\ e \notin Busy
    <3>1. e \notin Busy /\ e \notin Busy' => Loans'[e] = Loans[e]  BY DEF Loans
    <3>2. QED  BY <1>6, <1>10, <3>1
  <2>2. PICK p \in Wanted(o) : e = For(o, f, p)  BY <1>3, <2>1
  <2>3. chain'[e].order = o /\ chain'[e].pod = p  BY <1>4, <2>2
  <2>4. Loans'[e] = <<o, p>>  BY <2>1, <2>3 DEF Loans
  <2>5. Loans'[e][1] \in Open  BY <1>2, <2>4 DEF Open, Pending
  <2>6. Loans'[e] \notin ServedPairs
    <3>1. <<o, p>> \notin {d \in Orders \X Pods : d[2] \in finished[d[1]]}
      BY <1>4
    <3>2. ASSUME NEW d \in Busy PROVE Loans[d] # <<o, p>>
      <4>1. Loans[d] = <<chain[d].order, chain[d].pod>>  BY <1>2, LoanFacts
      <4>2. chain[d].pod \in Reserved  BY DEF Reserved
      <4>3. QED  BY <1>3, <4>1, <4>2
    <3>3. QED  BY <2>4, <3>1, <3>2 DEF ServedPairs
  <2>7. ASSUME NEW d \in Robots \ {e}, Loans'[d] # Nothing
        PROVE  Loans'[d][2] # Loans'[e][2]
    <3>1. d \in Busy'  BY <2>7 DEF Loans
    <3>2. Loans'[d] = <<chain'[d].order, chain'[d].pod>>  BY <3>1 DEF Loans
    <3>3. chain'[d].pod # chain'[e].pod
      BY <1>2, <2>1, <2>7, <3>1 DEF IndInv, PodsMatchChains
    <3>4. QED  BY <2>3, <2>4, <3>2, <3>3
  <2>8. QED  BY <2>5, <2>6, <2>7
<1>11. QED  BY <1>5, <1>7, <1>8, <1>9, <1>10 DEF Fulfilment!Lend

LEMMA SerialStepFulfils ==
    ASSUME SerialInv, [SerialNext]_serialVars
    PROVE  [Fulfilment!Next]_<<Open, Closed, Loans, ServedPairs>>
<1>inv. IndInv  BY DEF SerialInv
<1>1. ASSUME NEW o \in Orders, Arrive(o) PROVE Fulfilment!Next
  BY <1>1, <1>inv, NewOrderFulfils DEF Arrive, Fulfilment!Next
<1>2. CASE Retrieve  BY <1>2, QuietStep DEF Retrieve
<1>3. ASSUME NEW o \in Orders, DropList(o) \/ PassOver(o) \/ SendWhole(o)
      PROVE  [Fulfilment!Next]_<<Open, Closed, Loans, ServedPairs>>
  <2>1. CASE DropList(o)  BY <2>1, QuietStep DEF DropList, Scan
  <2>2. CASE PassOver(o)  BY <2>2, PassOverInv, QuietStep DEF PassOver, Scan
  <2>3. CASE SendWhole(o)  BY <2>3, SendFulfils DEF Fulfilment!Next
  <2>4. QED  BY <1>3, <2>1, <2>2, <2>3
<1>4. ASSUME NEW e \in Robots, Work(e)
      PROVE  [Fulfilment!Next]_<<Open, Closed, Loans, ServedPairs>>
  <2>1. CASE PickDone(e)  BY <1>inv, <2>1, PickDoneFulfils
  <2>2. CASE ServiceDone(e)  BY <1>inv, <2>2, ServiceDoneFulfils DEF Fulfilment!Next
  <2>3. CASE ExitDone(e)  BY <1>inv, <2>3, ExitDoneFulfils
  <2>4. CASE ReturnDone(e)  BY <1>inv, <2>4, ReturnDoneFulfils DEF Fulfilment!Next
  <2>5. QED  BY <1>4, <2>1, <2>2, <2>3, <2>4 DEF Work, Act
<1>5. CASE EndTick  BY <1>5, <1>inv, CheckOrdersFulfils DEF EndTick, Fulfilment!Next
<1>6. CASE UNCHANGED serialVars
  BY <1>6, QuietStep DEF serialVars, vars, orderVars
<1>7. QED  BY <1>1, <1>2, <1>3, <1>4, <1>5, <1>6 DEF SerialNext

(* The serial mode implements OrderFulfilment as the parallel one does; its *)
(* loans are the errands, those still waiting for their turn included.      *)
THEOREM SerialFulfils == SerialSpec => FulfilmentSpec
<1>1. SerialInit => Fulfilment!Init  BY InitFulfils DEF SerialInit
<1>2. SerialInv /\ [SerialNext]_serialVars
        => [Fulfilment!Next]_<<Open, Closed, Loans, ServedPairs>>
  BY SerialStepFulfils
<1>3. QED
  BY <1>1, <1>2, SerialInductive, PTL DEF SerialSpec, FulfilmentSpec, Fulfilment!Spec

=============================================================================
