--------------------------- MODULE Dispatch_proofs ---------------------------
(***************************************************************************)
(* Machine-checked theorems about Dispatch, for any number of orders, pods *)
(* and robots, every assigner and either return planner.                  *)
(***************************************************************************)
EXTENDS Dispatch, FiniteSetTheorems, WellFoundedInduction, TLAPS

(* The part of TypeOK the proofs rest on: everything but the lists (which a *)
(* recursive retrieval computes) and the item counts.                       *)
LedgerTypes ==
    /\ status \in [Orders -> OrderStatus \cup {"absent"}]
    /\ delivered \in [Orders -> SUBSET Pods]
    /\ finished \in [Orders -> SUBSET Pods]
    /\ chain \in [Robots -> Chain \cup {Nothing}]
    /\ carrier \in [Pods -> Robots \cup {Nothing}]
    /\ position \in [Pods -> Slots]
    /\ home \in [Pods -> Slots]

(* A chain's pod is on the ledger of finished deliveries exactly once the   *)
(* chain is on its return: no chain carries a pod its order has had.        *)
FinishedOnReturn ==
    \A r \in Busy :
        chain[r].pod \in finished[chain[r].order] <=> chain[r].stage = "return"

(* A delivery mark is backed by a serviced chain.                           *)
MarksBacked ==
    \A o \in Orders : \A p \in delivered[o] :
        \/ p \in finished[o]
        \/ \E r \in Busy : /\ chain[r].order = o /\ chain[r].pod = p
                           /\ chain[r].stage = "exit"

(* A pod on loan goes back to what has become its home; the others are home.*)
PodsGoHome ==
    CommitsItsReturns =>
        /\ \A r \in Busy : chain[r].back = home[chain[r].pod]
        /\ \A p \in Pods \ Reserved : position[p] = home[p]

(* Unless lists are replaced an order keeps listing the pods that are under way for it,  *)
(* so every service is marked.                                              *)
ListsKept ==
    KeepsLists =>
        /\ \A r \in Busy :
            /\ chain[r].pod \in Range(list[chain[r].order])
            /\ chain[r].stage = "exit" => chain[r].pod \in delivered[chain[r].order]
        /\ DeliveredLedgerComplete

(* The inductive invariant.                                                 *)
IndInv == /\ LedgerTypes
          /\ PodsMatchChains
          /\ FinishedOnReturn
          /\ MarksBacked
          /\ PodsGoHome
          /\ ListsKept
          /\ InProgressCovered

-----------------------------------------------------------------------------
(* Every non-empty set of natural numbers has a least element.              *)
LEMMA LeastNatural ==
    ASSUME NEW T, T \subseteq Nat, T # {}
    PROVE  \E x \in T : \A y \in T : x <= y
<1> DEFINE R == OpToRel(<, Nat)
<1>1. IsWellFoundedOn(R, Nat)  BY NatLessThanWellFounded
<1>2. \A x, y \in Nat : x < y => <<x, y>> \in R  BY DEF OpToRel
<1> HIDE DEF R
<1>3. PICK x \in T : \A y \in T : ~ (<<y, x>> \in R)  BY <1>1, WFMin
<1>4. ASSUME NEW y \in T PROVE x <= y
  <2>1. ~ (<<y, x>> \in R)  BY <1>3
  <2>2. x \in Nat /\ y \in Nat  OBVIOUS
  <2>3. ~ (y < x)  BY <2>1, <2>2, <1>2
  <2>4. QED  BY <2>2, <2>3
<1>5. QED  BY <1>3, <1>4

(* plan_return yields the pod's home or a slot that is not occupied: among  *)
(* the nearer free ones there is a nearest, and a first one among those.    *)
LEMMA NearestIsSlot ==
    ASSUME LedgerTypes, NEW p \in Pods, NEW occupied
    PROVE  /\ NearestOutside(p, occupied) \in Slots
           /\ NearestOutside(p, occupied) = home[p] \/ NearestOutside(p, occupied) \notin occupied
<1> DEFINE nearer == {s \in Slots \ occupied : Distance[s] < Distance[home[p]]}
           first(s) == \A t \in nearer \ {s} :
               Distance[s] < Distance[t] \/ (Distance[s] = Distance[t] /\ s < t)
<1>1. CASE ReturnPolicy = "home" \/ nearer = {}
  <2>1. NearestOutside(p, occupied) = home[p]  BY <1>1 DEF NearestOutside
  <2>2. QED  BY <2>1 DEF LedgerTypes
<1>2. CASE ~(ReturnPolicy = "home" \/ nearer = {})
  <2>1. Slots \subseteq Nat /\ Distance \in [Slots -> Nat]
    BY HomeAssumption, DistanceAssumption
  <2>2. nearer \subseteq Slots \ occupied /\ nearer # {}  BY <1>2
  <2> DEFINE gaps == {Distance[s] : s \in nearer}
  <2>3. gaps \subseteq Nat /\ gaps # {}  BY <2>1, <2>2
  <2>4. PICK d \in gaps : \A e \in gaps : d <= e  BY <2>3, LeastNatural
  <2> DEFINE nearest == {s \in nearer : Distance[s] = d}
  <2>5. nearest \subseteq Nat /\ nearest # {}  BY <2>1, <2>2, <2>4
  <2>6. PICK s \in nearest : \A t \in nearest : s <= t  BY <2>5, LeastNatural
  <2>7. s \in nearer /\ first(s)
    <3>1. s \in nearer /\ Distance[s] = d  OBVIOUS
    <3>2. ASSUME NEW t \in nearer \ {s}
          PROVE  Distance[s] < Distance[t] \/ (Distance[s] = Distance[t] /\ s < t)
      <4>1. d <= Distance[t] /\ Distance[t] \in Nat /\ d \in Nat
        BY <2>1, <2>2, <2>3, <2>4
      <4>2. CASE Distance[t] = d
        <5>1. t \in nearest  BY <4>2
        <5>2. s <= t /\ s # t /\ s \in Nat /\ t \in Nat  BY <5>1, <2>5, <2>6
        <5>3. QED  BY <5>2, <4>2, <3>1
      <4>3. CASE Distance[t] # d  BY <4>1, <4>3, <3>1
      <4>4. QED  BY <4>2, <4>3
    <3>3. QED  BY <3>1, <3>2
  <2>8. NearestOutside(p, occupied) = CHOOSE x \in nearer : first(x)  BY <1>2 DEF NearestOutside
  <2> HIDE DEF nearer, first
  <2>9. (CHOOSE x \in nearer : first(x)) \in nearer  BY <2>7
  <2>10. QED  BY <2>2, <2>8, <2>9
<1>3. QED  BY <1>1, <1>2

LEMMA PlanReturnIsSlot ==
    ASSUME LedgerTypes, NEW p \in Pods
    PROVE  PlanReturn(p) \in Slots
BY NearestIsSlot DEF PlanReturn

(* Nothing changes the policies.                                            *)
LEMMA SamePolicy ==
    ASSUME UNCHANGED policy
    PROVE  KeepsLists' = KeepsLists /\ CommitsItsReturns' = CommitsItsReturns
BY DEF KeepsLists, CommitsItsReturns, Assigner, ReturnPolicy

-----------------------------------------------------------------------------
LEMMA InitInv == Init => IndInv
<1> SUFFICES ASSUME Init PROVE IndInv
  OBVIOUS
<1> USE DEF Init
<1>1. Busy = {} /\ Reserved = {}  BY DEF Busy, Reserved
<1>2. LedgerTypes  BY HomeAssumption DEF LedgerTypes
<1>3. PodsMatchChains  BY <1>1, NothingAssumption DEF PodsMatchChains
<1>4. FinishedOnReturn /\ MarksBacked  BY <1>1 DEF FinishedOnReturn, MarksBacked
<1>5. PodsGoHome  BY <1>1 DEF PodsGoHome
<1>6. ListsKept  BY <1>1 DEF ListsKept, DeliveredLedgerComplete
<1>7. InProgressCovered  BY DEF InProgressCovered, InProgress
<1>8. QED  BY <1>2, <1>3, <1>4, <1>5, <1>6, <1>7 DEF IndInv

(* What advancing a chain changes: its stage, and nothing about who is busy *)
(* with what.                                                               *)
LEMMA AdvanceFacts ==
    ASSUME LedgerTypes, NEW r \in Robots, NEW from \in ChainStage, NEW to \in ChainStage,
           Advance(r, from, to)
    PROVE  /\ r \in Busy /\ chain[r].stage = from
           /\ chain' \in [Robots -> Chain \cup {Nothing}]
           /\ Busy' = Busy
           /\ chain'[r].stage = to
           /\ \A q \in Robots \ {r} : chain'[q] = chain[q]
           /\ \A q \in Busy : /\ chain'[q].order = chain[q].order
                              /\ chain'[q].pod = chain[q].pod
                              /\ chain'[q].spot = chain[q].spot
                              /\ chain'[q].back = chain[q].back
                              /\ chain[q] \in Chain
           /\ Reserved' = Reserved
           /\ \A o \in Orders : UnderWay(o)' = UnderWay(o)
<1>1. /\ r \in Busy /\ chain[r].stage = from
      /\ chain' = [chain EXCEPT ![r].stage = to]
  BY DEF Advance
<1>2. chain[r] \in Chain  BY <1>1 DEF Busy, LedgerTypes
<1>3. /\ [chain[r] EXCEPT !.stage = to] \in Chain
      /\ chain'[r] = [chain[r] EXCEPT !.stage = to]
  BY <1>1, <1>2 DEF Chain, LedgerTypes
<1>4. \A q \in Robots \ {r} : chain'[q] = chain[q]  BY <1>1 DEF LedgerTypes
<1>5. chain' \in [Robots -> Chain \cup {Nothing}]  BY <1>1, <1>3 DEF LedgerTypes
<1>6. chain'[r] # Nothing  BY <1>3, NothingAssumption DEF Chain, ChainStage
<1>7. Busy' = Busy  BY <1>1, <1>4, <1>6 DEF Busy
<1>8. \A q \in Busy : chain[q] \in Chain  BY DEF Busy, LedgerTypes
<1>9. /\ chain'[r].stage = to
      /\ chain'[r].order = chain[r].order /\ chain'[r].pod = chain[r].pod
      /\ chain'[r].spot = chain[r].spot /\ chain'[r].back = chain[r].back
  BY <1>2, <1>3 DEF Chain
<1>10. \A q \in Busy : /\ chain'[q].order = chain[q].order
                       /\ chain'[q].pod = chain[q].pod
                       /\ chain'[q].spot = chain[q].spot
                       /\ chain'[q].back = chain[q].back
  BY <1>4, <1>9 DEF Busy
<1>11. Reserved' = Reserved  BY <1>7, <1>10 DEF Reserved
<1>12. \A o \in Orders : UnderWay(o)' = UnderWay(o)  BY <1>7, <1>10 DEF UnderWay
<1>13. QED  BY <1>1, <1>4, <1>5, <1>7, <1>8, <1>9, <1>10, <1>11, <1>12

(* Robots, orders and pods of busy chains.                                  *)
LEMMA BusyTypes ==
    ASSUME LedgerTypes, NEW r \in Busy
    PROVE  /\ r \in Robots /\ chain[r] \in Chain
           /\ chain[r].order \in Orders /\ chain[r].pod \in Pods
           /\ chain[r].back \in Slots /\ chain[r].stage \in ChainStage
BY DEF LedgerTypes, Busy, Chain

LEMMA NewOrderInv ==
    ASSUME IndInv, NEW o \in Orders, NewOrder(o)
    PROVE  IndInv'
<1> USE DEF IndInv, NewOrder, podVars
<1>policy. KeepsLists' = KeepsLists /\ CommitsItsReturns' = CommitsItsReturns
  BY SamePolicy
<1>1. Busy' = Busy /\ Reserved' = Reserved /\ \A q \in Orders : UnderWay(q)' = UnderWay(q)
  BY DEF Busy, Reserved, UnderWay
<1>2. LedgerTypes'  BY DEF LedgerTypes, OrderStatus
<1>3. PodsMatchChains'  BY <1>1 DEF PodsMatchChains, PodWaits
<1>4. FinishedOnReturn' /\ MarksBacked'  BY <1>1 DEF FinishedOnReturn, MarksBacked
<1>5. PodsGoHome'  BY <1>1, <1>policy DEF PodsGoHome
<1>6. ListsKept'  BY <1>1, <1>policy DEF ListsKept, DeliveredLedgerComplete
<1>7. InProgressCovered'
  BY <1>1 DEF InProgressCovered, InProgress, Fulfilled, LedgerTypes
<1>8. QED  BY <1>2, <1>3, <1>4, <1>5, <1>6, <1>7

LEMMA PickDoneInv ==
    ASSUME IndInv, NEW r \in Robots, PickDone(r)
    PROVE  IndInv'
<1> DEFINE p == chain[r].pod
<1>1. /\ Advance(r, "pick", "deliver") /\ carrier' = [carrier EXCEPT ![p] = r]
      /\ UNCHANGED <<status, list, delivered, finished, position, home>>
      /\ KeepsLists' = KeepsLists /\ CommitsItsReturns' = CommitsItsReturns
  BY SamePolicy DEF PickDone, orderVars
<1>2. LedgerTypes  BY DEF IndInv
<1>3. /\ r \in Busy /\ chain[r].stage = "pick"
      /\ chain' \in [Robots -> Chain \cup {Nothing}]
      /\ Busy' = Busy /\ Reserved' = Reserved
      /\ chain'[r].stage = "deliver"
      /\ \A q \in Robots \ {r} : chain'[q] = chain[q]
      /\ \A q \in Busy : /\ chain'[q].order = chain[q].order
                         /\ chain'[q].pod = chain[q].pod
                         /\ chain'[q].spot = chain[q].spot
                         /\ chain'[q].back = chain[q].back
      /\ \A o \in Orders : UnderWay(o)' = UnderWay(o)
  BY <1>1, <1>2, AdvanceFacts DEF ChainStage
<1>4. p \in Pods  BY <1>2, <1>3, BusyTypes
<1>5. LedgerTypes'  BY <1>1, <1>2, <1>3, <1>4 DEF LedgerTypes
<1>6. PodsMatchChains'
  <2>1. \A q, s \in Busy : chain[q].pod = chain[s].pod => q = s
    BY DEF IndInv, PodsMatchChains
  <2>2. ASSUME NEW x \in Pods, NEW q \in Robots
        PROVE  carrier'[x] = q <=>
                  q \in Busy' /\ chain'[q].pod = x /\ chain'[q].stage # "pick"
    <3>1. carrier[x] = q <=> q \in Busy /\ chain[q].pod = x /\ chain[q].stage # "pick"
      BY DEF IndInv, PodsMatchChains
    <3>2. CASE x = p
      <4>1. carrier'[x] = r  BY <1>1, <1>2, <1>4, <3>2 DEF LedgerTypes
      <4>2. q \in Busy /\ chain[q].pod = x => q = r  BY <1>3, <2>1, <3>2
      <4>3. QED  BY <1>3, <3>2, <4>1, <4>2
    <3>3. CASE x # p
      <4>1. carrier'[x] = carrier[x]  BY <1>1, <1>2, <3>3 DEF LedgerTypes
      <4>2. CASE q = r  BY <1>3, <3>1, <3>3, <4>1, <4>2
      <4>3. CASE q # r  BY <1>3, <3>1, <4>1, <4>3
      <4>4. QED  BY <4>2, <4>3
    <3>4. QED  BY <3>2, <3>3
  <2>3. ASSUME NEW q \in Busy', chain'[q].stage = "pick" PROVE PodWaits(q)'
    <3>1. q \in Busy /\ q # r /\ q \in Robots /\ chain'[q] = chain[q]
      BY <1>3, <2>3 DEF Busy
    <3>2. PodWaits(q)  BY <2>3, <3>1 DEF IndInv, PodsMatchChains
    <3>3. chain[q].pod # p /\ chain[q].pod \in Pods
      BY <1>2, <1>3, <2>1, <3>1, BusyTypes
    <3>4. carrier'[chain[q].pod] = carrier[chain[q].pod]
      BY <1>1, <1>2, <3>3 DEF LedgerTypes
    <3>5. QED  BY <1>1, <3>1, <3>2, <3>4 DEF PodWaits
  <2>4. \A q, s \in Busy' : chain'[q].pod = chain'[s].pod => q = s  BY <1>3, <2>1
  <2>5. QED  BY <2>2, <2>3, <2>4 DEF PodsMatchChains
<1>7. FinishedOnReturn'
  BY <1>1, <1>3 DEF IndInv, FinishedOnReturn, Busy
<1>8. MarksBacked'
  <2>1. \A q \in Busy : chain[q].stage = "exit" =>
            chain'[q].stage = "exit" /\ q \in Busy'
    BY <1>3 DEF Busy
  <2>2. QED  BY <1>1, <1>3, <2>1 DEF IndInv, MarksBacked
<1>9. PodsGoHome'  BY <1>1, <1>3 DEF IndInv, PodsGoHome
<1>10. ListsKept'
  <2>1. \A q \in Busy : chain'[q].stage = "exit" => chain[q].stage = "exit"
    BY <1>3 DEF Busy
  <2>2. QED  BY <1>1, <1>3, <2>1 DEF IndInv, ListsKept, DeliveredLedgerComplete
<1>11. InProgressCovered'
  BY <1>1, <1>3 DEF IndInv, InProgressCovered, InProgress, Fulfilled
<1>12. QED  BY <1>5, <1>6, <1>7, <1>8, <1>9, <1>10, <1>11 DEF IndInv

(* Past the pick, advancing a chain disturbs no pod.                        *)
LEMMA AdvanceKeepsPods ==
    ASSUME LedgerTypes, PodsMatchChains, PodsGoHome,
           NEW r \in Robots, NEW from \in ChainStage, NEW to \in ChainStage,
           from # "pick", to # "pick", Advance(r, from, to),
           UNCHANGED podVars, UNCHANGED status, CommitsItsReturns' = CommitsItsReturns,
           delivered' \in [Orders -> SUBSET Pods], finished' \in [Orders -> SUBSET Pods]
    PROVE  LedgerTypes' /\ PodsMatchChains' /\ PodsGoHome'
<1>1. /\ r \in Busy /\ chain[r].stage = from
      /\ chain' \in [Robots -> Chain \cup {Nothing}]
      /\ Busy' = Busy /\ Reserved' = Reserved
      /\ chain'[r].stage = to
      /\ \A q \in Robots \ {r} : chain'[q] = chain[q]
      /\ \A q \in Busy : /\ chain'[q].order = chain[q].order
                         /\ chain'[q].pod = chain[q].pod
                         /\ chain'[q].spot = chain[q].spot
                         /\ chain'[q].back = chain[q].back
  BY AdvanceFacts
<1>2. LedgerTypes'  BY <1>1 DEF LedgerTypes, podVars
<1>3. \A q \in Busy : chain'[q].stage = "pick" <=> chain[q].stage = "pick"
  BY <1>1 DEF Busy
<1>4. \A q \in Busy : PodWaits(q)' <=> PodWaits(q)
  BY <1>1 DEF PodWaits, podVars
<1>5. PodsMatchChains'  BY <1>1, <1>3, <1>4 DEF PodsMatchChains, podVars
<1>6. PodsGoHome'  BY <1>1 DEF PodsGoHome, podVars
<1>7. QED  BY <1>2, <1>5, <1>6

LEMMA ServiceDoneInv ==
    ASSUME IndInv, NEW r \in Robots, ServiceDone(r)
    PROVE  IndInv'
<1> DEFINE o == chain[r].order
           p == chain[r].pod
<1>1. /\ Advance(r, "deliver", "exit")
      /\ delivered' = IF p \in Range(list[o])
                      THEN [delivered EXCEPT ![o] = @ \cup {p}] ELSE delivered
      /\ UNCHANGED <<status, list, finished>> /\ UNCHANGED podVars
      /\ KeepsLists' = KeepsLists /\ CommitsItsReturns' = CommitsItsReturns
  BY SamePolicy DEF ServiceDone, orderVars
<1>2. LedgerTypes  BY DEF IndInv
<1>3. /\ r \in Busy /\ chain[r].stage = "deliver"
      /\ Busy' = Busy /\ Reserved' = Reserved
      /\ chain'[r].stage = "exit"
      /\ \A q \in Robots \ {r} : chain'[q] = chain[q]
      /\ \A q \in Busy : /\ chain'[q].order = chain[q].order
                         /\ chain'[q].pod = chain[q].pod
      /\ \A x \in Orders : UnderWay(x)' = UnderWay(x)
  BY <1>1, <1>2, AdvanceFacts DEF ChainStage
<1>4. o \in Orders /\ p \in Pods  BY <1>2, <1>3, BusyTypes
<1>5. delivered' \in [Orders -> SUBSET Pods]  BY <1>1, <1>2, <1>4 DEF LedgerTypes
<1>6. LedgerTypes' /\ PodsMatchChains' /\ PodsGoHome'
  BY <1>1, <1>2, <1>5, AdvanceKeepsPods DEF IndInv, LedgerTypes, ChainStage
<1>7. FinishedOnReturn'  BY <1>1, <1>3 DEF IndInv, FinishedOnReturn, Busy
<1>8. \A x \in Orders : \A y \in delivered'[x] : y \in delivered[x] \/ (x = o /\ y = p)
  BY <1>1, <1>2, <1>4 DEF LedgerTypes
<1>9. \A x \in Orders : delivered[x] \subseteq delivered'[x]
  BY <1>1, <1>2, <1>4 DEF LedgerTypes
<1>10. MarksBacked'
  <2>1. ASSUME NEW x \in Orders, NEW y \in delivered'[x]
        PROVE  y \in finished'[x] \/ \E q \in Busy' : /\ chain'[q].order = x
                                                      /\ chain'[q].pod = y
                                                      /\ chain'[q].stage = "exit"
    <3>1. CASE x = o /\ y = p  BY <1>3, <3>1
    <3>2. CASE y \in delivered[x]
      <4>1. CASE y \in finished[x]  BY <1>1, <4>1
      <4>2. CASE \E q \in Busy : /\ chain[q].order = x /\ chain[q].pod = y
                                 /\ chain[q].stage = "exit"
        <5>1. PICK q \in Busy : /\ chain[q].order = x /\ chain[q].pod = y
                                /\ chain[q].stage = "exit"
          BY <4>2
        <5>2. q # r /\ q \in Robots /\ chain'[q] = chain[q]  BY <1>3, <5>1 DEF Busy
        <5>3. QED  BY <1>3, <5>1, <5>2
      <4>3. QED  BY <3>2, <4>1, <4>2 DEF IndInv, MarksBacked
    <3>3. QED  BY <1>8, <2>1, <3>1, <3>2
  <2>2. QED  BY <2>1 DEF MarksBacked
<1>11. ListsKept'
  <2>1. SUFFICES ASSUME KeepsLists
                 PROVE  /\ \A q \in Busy' :
                            /\ chain'[q].pod \in Range(list'[chain'[q].order])
                            /\ chain'[q].stage = "exit" =>
                                  chain'[q].pod \in delivered'[chain'[q].order]
                        /\ DeliveredLedgerComplete'
    BY <1>1 DEF ListsKept
  <2>2. /\ \A q \in Busy : /\ chain[q].pod \in Range(list[chain[q].order])
                           /\ chain[q].stage = "exit" =>
                                 chain[q].pod \in delivered[chain[q].order]
        /\ DeliveredLedgerComplete
    BY <2>1 DEF IndInv, ListsKept
  <2>3. \A q \in Busy' : chain'[q].pod \in Range(list'[chain'[q].order])
    BY <1>1, <1>3, <2>2
  <2>4. p \in delivered'[o]  BY <1>1, <1>2, <1>3, <1>4, <2>2 DEF LedgerTypes
  <2>5. ASSUME NEW q \in Busy', chain'[q].stage = "exit"
        PROVE  chain'[q].pod \in delivered'[chain'[q].order]
    <3>1. CASE q = r  BY <1>3, <2>4, <3>1
    <3>2. CASE q # r
      <4>1. q \in Busy /\ chain'[q] = chain[q]  BY <1>3, <3>2 DEF Busy
      <4>2. chain[q].pod \in delivered[chain[q].order]  BY <2>2, <2>5, <4>1
      <4>3. chain[q].order \in Orders  BY <1>2, <4>1, BusyTypes
      <4>4. QED  BY <1>9, <4>1, <4>2, <4>3
    <3>3. QED  BY <3>1, <3>2
  <2>6. DeliveredLedgerComplete'  BY <1>1, <1>9, <2>2 DEF DeliveredLedgerComplete
  <2>7. QED  BY <2>3, <2>5, <2>6
<1>12. InProgressCovered'
  BY <1>1, <1>3, <1>9 DEF IndInv, InProgressCovered, InProgress, Fulfilled
<1>13. QED  BY <1>6, <1>7, <1>10, <1>11, <1>12 DEF IndInv

LEMMA ExitDoneInv ==
    ASSUME IndInv, NEW r \in Robots, ExitDone(r)
    PROVE  IndInv'
<1> DEFINE o == chain[r].order
           p == chain[r].pod
<1>1. /\ Advance(r, "exit", "return")
      /\ finished' = [finished EXCEPT ![o] = @ \cup {p}]
      /\ UNCHANGED <<status, list, delivered>> /\ UNCHANGED podVars
      /\ KeepsLists' = KeepsLists /\ CommitsItsReturns' = CommitsItsReturns
  BY SamePolicy DEF ExitDone, orderVars
<1>2. LedgerTypes  BY DEF IndInv
<1>3. /\ r \in Busy /\ chain[r].stage = "exit"
      /\ Busy' = Busy /\ Reserved' = Reserved
      /\ chain'[r].stage = "return"
      /\ \A q \in Robots \ {r} : chain'[q] = chain[q]
      /\ \A q \in Busy : /\ chain'[q].order = chain[q].order
                         /\ chain'[q].pod = chain[q].pod
      /\ \A x \in Orders : UnderWay(x)' = UnderWay(x)
  BY <1>1, <1>2, AdvanceFacts DEF ChainStage
<1>4. o \in Orders /\ p \in Pods  BY <1>2, <1>3, BusyTypes
<1>5. /\ finished' \in [Orders -> SUBSET Pods]
      /\ finished'[o] = finished[o] \cup {p}
      /\ \A x \in Orders : finished[x] \subseteq finished'[x]
      /\ \A x \in Orders : \A y \in finished'[x] : y \in finished[x] \/ (x = o /\ y = p)
  BY <1>1, <1>2, <1>4 DEF LedgerTypes
<1>6. LedgerTypes' /\ PodsMatchChains' /\ PodsGoHome'
  BY <1>1, <1>2, <1>5, AdvanceKeepsPods DEF IndInv, LedgerTypes, ChainStage
<1>7. FinishedOnReturn'
  <2>1. ASSUME NEW q \in Busy
        PROVE  chain'[q].pod \in finished'[chain'[q].order] <=> chain'[q].stage = "return"
    <3>1. CASE q = r  BY <1>3, <1>5, <3>1
    <3>2. CASE q # r
      <4>1. chain'[q] = chain[q]  BY <1>3, <3>2 DEF Busy
      <4>2. chain[q].pod # p  BY <1>3, <3>2 DEF IndInv, PodsMatchChains
      <4>3. chain[q].order \in Orders  BY <1>2, BusyTypes
      <4>4. chain[q].pod \in finished'[chain[q].order]
               <=> chain[q].pod \in finished[chain[q].order]
        BY <1>5, <4>2, <4>3
      <4>5. QED  BY <4>1, <4>4 DEF IndInv, FinishedOnReturn
    <3>3. QED  BY <3>1, <3>2
  <2>2. QED  BY <1>3, <2>1 DEF FinishedOnReturn
<1>8. MarksBacked'
  <2>1. ASSUME NEW x \in Orders, NEW y \in delivered[x]
        PROVE  y \in finished'[x] \/ \E q \in Busy' : /\ chain'[q].order = x
                                                      /\ chain'[q].pod = y
                                                      /\ chain'[q].stage = "exit"
    <3>1. CASE y \in finished[x]  BY <1>5, <3>1
    <3>2. CASE \E q \in Busy : /\ chain[q].order = x /\ chain[q].pod = y
                               /\ chain[q].stage = "exit"
      <4>1. PICK q \in Busy : /\ chain[q].order = x /\ chain[q].pod = y
                              /\ chain[q].stage = "exit"
        BY <3>2
      <4>2. CASE q = r  BY <1>5, <4>1, <4>2
      <4>3. CASE q # r
        <5>1. chain'[q] = chain[q]  BY <1>3, <4>3 DEF Busy
        <5>2. QED  BY <1>3, <4>1, <5>1
      <4>4. QED  BY <4>2, <4>3
    <3>3. QED  BY <3>1, <3>2 DEF IndInv, MarksBacked
  <2>2. QED  BY <1>1, <2>1 DEF MarksBacked
<1>9. ListsKept'
  <2>1. \A q \in Busy : chain'[q].stage = "exit" => chain[q].stage = "exit"
    BY <1>3 DEF Busy
  <2>2. KeepsLists => p \in delivered[o]
    BY <1>3 DEF IndInv, ListsKept
  <2>3. KeepsLists => DeliveredLedgerComplete'
    BY <1>1, <1>5, <2>2 DEF IndInv, ListsKept, DeliveredLedgerComplete
  <2>4. QED  BY <1>1, <1>3, <2>1, <2>3 DEF IndInv, ListsKept
<1>10. InProgressCovered'
  BY <1>1, <1>3, <1>5 DEF IndInv, InProgressCovered, InProgress, Fulfilled
<1>11. QED  BY <1>6, <1>7, <1>8, <1>9, <1>10 DEF IndInv

LEMMA ReturnDoneInv ==
    ASSUME IndInv, NEW r \in Robots, ReturnDone(r)
    PROVE  IndInv'
<1> DEFINE p == chain[r].pod
<1>1. /\ r \in Busy /\ chain[r].stage = "return"
      /\ carrier' = [carrier EXCEPT ![p] = Nothing]
      /\ position' = [position EXCEPT ![p] = chain[r].back]
      /\ chain' = [chain EXCEPT ![r] = Nothing]
      /\ UNCHANGED <<status, list, delivered, finished, home>>
      /\ KeepsLists' = KeepsLists /\ CommitsItsReturns' = CommitsItsReturns
  BY SamePolicy DEF ReturnDone, orderVars
<1>2. LedgerTypes  BY DEF IndInv
<1>3. p \in Pods /\ chain[r].back \in Slots /\ chain[r].order \in Orders
  BY <1>1, <1>2, BusyTypes
<1>4. /\ chain'[r] = Nothing
      /\ \A q \in Robots \ {r} : chain'[q] = chain[q]
      /\ Busy' = Busy \ {r}
  BY <1>1, <1>2 DEF LedgerTypes, Busy
<1>5. \A q \in Busy' : q \in Busy /\ q # r /\ chain'[q] = chain[q]
  BY <1>4 DEF Busy
<1>6. \A q, s \in Busy : chain[q].pod = chain[s].pod => q = s
  BY DEF IndInv, PodsMatchChains
<1>7. \A q \in Busy' : chain[q].pod # p /\ chain[q].pod \in Pods
  BY <1>1, <1>2, <1>5, <1>6, BusyTypes
<1>8. Reserved' = Reserved \ {p}
  <2>1. Reserved' = {chain[q].pod : q \in Busy'}  BY <1>5 DEF Reserved
  <2>2. QED  BY <2>1, <1>1, <1>4, <1>7 DEF Reserved
<1>9. LedgerTypes'
  <2>1. chain' \in [Robots -> Chain \cup {Nothing}]
    BY <1>1, <1>2 DEF LedgerTypes
  <2>2. QED  BY <1>1, <1>2, <1>3, <2>1 DEF LedgerTypes
<1>10. PodsMatchChains'
  <2>1. ASSUME NEW x \in Pods, NEW q \in Robots
        PROVE  carrier'[x] = q <=>
                  q \in Busy' /\ chain'[q].pod = x /\ chain'[q].stage # "pick"
    <3>1. carrier[x] = q <=> q \in Busy /\ chain[q].pod = x /\ chain[q].stage # "pick"
      BY DEF IndInv, PodsMatchChains
    <3>2. CASE x = p
      <4>1. carrier'[x] = Nothing  BY <1>1, <1>2, <3>2 DEF LedgerTypes
      <4>2. carrier'[x] # q  BY <4>1, NothingAssumption
      <4>3. QED  BY <1>5, <1>7, <3>2, <4>2
    <3>3. CASE x # p
      <4>1. carrier'[x] = carrier[x]  BY <1>1, <1>2, <3>3 DEF LedgerTypes
      <4>2. QED  BY <1>4, <1>5, <3>1, <3>3, <4>1
    <3>4. QED  BY <3>2, <3>3
  <2>2. ASSUME NEW q \in Busy', chain'[q].stage = "pick" PROVE PodWaits(q)'
    <3>1. PodWaits(q)  BY <1>5, <2>2 DEF IndInv, PodsMatchChains
    <3>2. /\ carrier'[chain[q].pod] = carrier[chain[q].pod]
          /\ position'[chain[q].pod] = position[chain[q].pod]
      BY <1>1, <1>2, <1>7 DEF LedgerTypes
    <3>3. QED  BY <1>5, <3>1, <3>2 DEF PodWaits
  <2>3. QED  BY <1>5, <1>6, <2>1, <2>2 DEF PodsMatchChains
<1>11. FinishedOnReturn'  BY <1>1, <1>5 DEF IndInv, FinishedOnReturn
<1>12. MarksBacked'
  <2>1. \A q \in Busy : chain[q].stage = "exit" => q \in Busy'
    BY <1>1, <1>4
  <2>2. QED  BY <1>1, <1>5, <2>1 DEF IndInv, MarksBacked
<1>13. PodsGoHome'
  <2>1. CommitsItsReturns => position'[p] = home[p]
    BY <1>1, <1>2, <1>3 DEF IndInv, PodsGoHome, LedgerTypes
  <2>2. \A x \in Pods \ {p} : position'[x] = position[x]
    BY <1>1, <1>2 DEF LedgerTypes
  <2>3. CommitsItsReturns => \A x \in Pods \ Reserved' : position'[x] = home'[x]
    BY <1>1, <1>8, <2>1, <2>2 DEF IndInv, PodsGoHome
  <2>4. QED  BY <1>1, <1>5, <2>3 DEF IndInv, PodsGoHome
<1>14. ListsKept'
  BY <1>1, <1>5 DEF IndInv, ListsKept, DeliveredLedgerComplete
<1>15. InProgressCovered'
  <2>1. ASSUME NEW x \in Orders
        PROVE  UnderWay(x)' \subseteq UnderWay(x)
               /\ UnderWay(x) \subseteq UnderWay(x)' \cup finished[x]
    <3>1. UnderWay(x)' \subseteq UnderWay(x)  BY <1>5 DEF UnderWay
    <3>2. ASSUME NEW q \in Busy, chain[q].order = x
          PROVE  chain[q].pod \in UnderWay(x)' \cup finished[x]
      <4>1. CASE q = r  BY <1>1, <3>2, <4>1 DEF IndInv, FinishedOnReturn
      <4>2. CASE q # r  BY <1>4, <1>5, <3>2, <4>2 DEF UnderWay
      <4>3. QED  BY <4>1, <4>2
    <3>3. QED  BY <3>1, <3>2 DEF UnderWay
  <2>2. QED
    BY <1>1, <2>1 DEF IndInv, InProgressCovered, InProgress, Fulfilled
<1>16. QED
  BY <1>9, <1>10, <1>11, <1>12, <1>13, <1>14, <1>15 DEF IndInv

LEMMA CheckOrdersInv ==
    ASSUME IndInv, CheckOrders
    PROVE  IndInv'
<1> USE DEF CheckOrders, podVars
<1>policy. KeepsLists' = KeepsLists /\ CommitsItsReturns' = CommitsItsReturns
  BY SamePolicy
<1>1. Busy' = Busy /\ Reserved' = Reserved /\ \A o \in Orders : UnderWay(o)' = UnderWay(o)
  BY DEF Busy, Reserved, UnderWay
<1>2. LedgerTypes'  BY DEF IndInv, LedgerTypes, OrderStatus
<1>3. PodsMatchChains'  BY <1>1 DEF IndInv, PodsMatchChains, PodWaits
<1>4. FinishedOnReturn' /\ MarksBacked'
  BY <1>1 DEF IndInv, FinishedOnReturn, MarksBacked
<1>5. PodsGoHome'  BY <1>1, <1>policy DEF IndInv, PodsGoHome
<1>6. ListsKept'
  <2>1. ASSUME NEW r \in Busy PROVE list'[chain[r].order] = list[chain[r].order]
    <3>1. chain[r].order \in Orders  BY BusyTypes DEF IndInv
    <3>2. chain[r].order \notin Settled  BY DEF Settled, UnderWay
    <3>3. QED  BY <3>1, <3>2
  <2>2. QED  BY <1>1, <1>policy, <2>1 DEF IndInv, ListsKept, DeliveredLedgerComplete
<1>7. InProgressCovered'
  <2>1. SUFFICES ASSUME NEW o \in Orders
        PROVE  /\ status'[o] = "in_progress" =>
                     Range(list'[o]) \subseteq Fulfilled(o)' \cup UnderWay(o)'
               /\ status'[o] = "completed" =>
                     UnderWay(o)' = {} /\ Range(list'[o]) \subseteq delivered'[o]
    BY DEF InProgressCovered, InProgress
  <2>2. CASE o \notin Settled
    BY <1>1, <2>2 DEF IndInv, InProgressCovered, InProgress, Fulfilled
  <2>3. CASE o \in Settled
    BY <1>1, <2>3 DEF Settled, FullyDelivered
  <2>4. QED  BY <2>2, <2>3
<1>8. QED  BY <1>2, <1>3, <1>4, <1>5, <1>6, <1>7 DEF IndInv

-----------------------------------------------------------------------------
(* A proposed context: its order is pending and lists the pod, and the pod  *)
(* is free and new to the order; two contexts never share a pod.            *)
LEMMA ContextFacts ==
    ASSUME NEW lists, NEW c \in Contexts(lists)
    PROVE  /\ c \in Orders \X Pods
           /\ c[1] \in Orders /\ status[c[1]] = "pending"
           /\ c[2] \in Pods /\ c[2] \in Range(lists[c[1]])
           /\ c[2] \notin Fulfilled(c[1])
           /\ carrier[c[2]] = Nothing
           /\ c[2] \notin Reserved
           /\ \A d \in Contexts(lists) : d[2] = c[2] => d = c
<1>1. /\ c \in Orders \X Pods
      /\ Dispatchable(lists, c[1], c[2])
      /\ \A o \in Orders : o < c[1] => ~Dispatchable(lists, o, c[2])
  BY DEF Contexts
<1>2. ASSUME NEW d \in Contexts(lists), d[2] = c[2] PROVE d = c
  <2>1. /\ d \in Orders \X Pods
        /\ Dispatchable(lists, d[1], d[2])
        /\ \A o \in Orders : o < d[1] => ~Dispatchable(lists, o, d[2])
    BY DEF Contexts
  <2>2. ~(d[1] < c[1]) /\ ~(c[1] < d[1])  BY <1>1, <1>2, <2>1
  <2>3. c[1] \in Nat /\ d[1] \in Nat  BY <1>1, <2>1, OrdersAssumption
  <2>4. d[1] = c[1]  BY <2>2, <2>3
  <2>5. QED  BY <1>1, <1>2, <2>1, <2>4
<1>3. QED  BY <1>1, <1>2 DEF Dispatchable, Pending

(* Whichever assigner runs, it commits contexts only.                       *)
LEMMA BatchFacts ==
    ASSUME NEW lists, NEW batch \in Batches(lists)
    PROVE  batch \subseteq Contexts(lists)
BY DEF Batches, kSubset

LEMMA NewChainIsChain ==
    ASSUME LedgerTypes, NEW c \in Orders \X Pods
    PROVE  NewChain(c) \in Chain /\ NewChain(c) # Nothing
<1>1. c[1] \in Orders /\ c[2] \in Pods  OBVIOUS
<1>2. position[c[2]] \in Slots /\ PlanReturn(c[2]) \in Slots
  BY <1>1, PlanReturnIsSlot DEF LedgerTypes
<1>3. NewChain(c) \in Chain  BY <1>1, <1>2 DEF NewChain, Chain, ChainStage
<1>4. QED  BY <1>3, NothingAssumption DEF Chain, ChainStage

(* What assign() does to the robots: a batch of contexts, each to a robot   *)
(* of its own that was idle; the others keep what they had.                 *)
LEMMA AssignFacts ==
    ASSUME LedgerTypes, Assign
    PROVE  \E batch \in SUBSET Contexts(Listing) : \E robot \in [batch -> Idle] :
              /\ \A c, d \in batch : robot[c] = robot[d] => c = d
              /\ \A c \in batch : chain'[robot[c]] = NewChain(c)
              /\ \A r \in Robots : (\A c \in batch : robot[c] # r) => chain'[r] = chain[r]
              /\ chain' \in [Robots -> Chain \cup {Nothing}]
              /\ Busy' = Busy \cup {robot[c] : c \in batch}
              /\ home' = HomeAfterPlanning(batch, Listing)
              /\ status' = [o \in Orders |->
                               IF /\ \E p \in Pods : <<o, p>> \in batch
                                  /\ Covered(o, batch, Listing)
                               THEN "in_progress" ELSE status[o]]
<1>batch. PICK batch \in Batches(Listing) : \E robot \in Injection(batch, Idle) :
        /\ home' = HomeAfterPlanning(batch, Listing)
        /\ chain' = [r \in Robots |->
                        IF \E c \in batch : robot[c] = r
                        THEN NewChain(CHOOSE c \in batch : robot[c] = r)
                        ELSE chain[r]]
        /\ status' = [o \in Orders |->
                        IF /\ \E p \in Pods : <<o, p>> \in batch
                           /\ Covered(o, batch, Listing)
                        THEN "in_progress" ELSE status[o]]
  BY DEF Assign
<1>1. PICK robot \in Injection(batch, Idle) :
        /\ home' = HomeAfterPlanning(batch, Listing)
        /\ chain' = [r \in Robots |->
                        IF \E c \in batch : robot[c] = r
                        THEN NewChain(CHOOSE c \in batch : robot[c] = r)
                        ELSE chain[r]]
        /\ status' = [o \in Orders |->
                        IF /\ \E p \in Pods : <<o, p>> \in batch
                           /\ Covered(o, batch, Listing)
                        THEN "in_progress" ELSE status[o]]
  BY <1>batch
<1>2. batch \subseteq Contexts(Listing)  BY BatchFacts
<1>3. /\ robot \in [batch -> Idle]
      /\ \A c, d \in batch : robot[c] = robot[d] => c = d
  BY DEF Injection, IsInjective
<1>4. ASSUME NEW c \in batch PROVE chain'[robot[c]] = NewChain(c)
  <2>1. robot[c] \in Robots  BY <1>3 DEF Idle
  <2>2. (CHOOSE d \in batch : robot[d] = robot[c]) = c  BY <1>3
  <2>3. QED  BY <1>1, <2>1, <2>2
<1>5. \A r \in Robots : (\A c \in batch : robot[c] # r) => chain'[r] = chain[r]
  BY <1>1
<1>6. \A c \in batch : NewChain(c) \in Chain /\ NewChain(c) # Nothing
  BY <1>2, ContextFacts, NewChainIsChain
<1>7. ASSUME NEW r \in Robots PROVE chain'[r] \in Chain \cup {Nothing}
  <2>1. CASE \E c \in batch : robot[c] = r  BY <1>4, <1>6, <2>1
  <2>2. CASE \A c \in batch : robot[c] # r  BY <1>5, <2>2 DEF LedgerTypes
  <2>3. QED  BY <2>1, <2>2
<1>8. chain' \in [Robots -> Chain \cup {Nothing}]
  <2>1. chain' = [r \in Robots |-> chain'[r]]  BY <1>1
  <2>2. QED  BY <1>7, <2>1
<1>9. Busy' = Busy \cup {robot[c] : c \in batch}
  <2>1. ASSUME NEW r \in Robots
        PROVE  chain'[r] # Nothing <=> r \in Busy \/ \E c \in batch : robot[c] = r
    <3>1. CASE \E c \in batch : robot[c] = r  BY <1>4, <1>6, <3>1
    <3>2. CASE \A c \in batch : robot[c] # r  BY <1>5, <3>2 DEF Busy
    <3>3. QED  BY <3>1, <3>2
  <2>2. QED  BY <1>3, <2>1 DEF Busy, Idle
<1>10. QED  BY <1>1, <1>2, <1>3, <1>4, <1>5, <1>8, <1>9

LEMMA AssignInv ==
    ASSUME IndInv, Assign
    PROVE  IndInv'
<1>1. LedgerTypes  BY DEF IndInv
<1>batch. PICK batch \in SUBSET Contexts(Listing) : \E robot \in [batch -> Idle] :
        /\ \A c, d \in batch : robot[c] = robot[d] => c = d
        /\ \A c \in batch : chain'[robot[c]] = NewChain(c)
        /\ \A r \in Robots : (\A c \in batch : robot[c] # r) => chain'[r] = chain[r]
        /\ chain' \in [Robots -> Chain \cup {Nothing}]
        /\ Busy' = Busy \cup {robot[c] : c \in batch}
        /\ home' = HomeAfterPlanning(batch, Listing)
        /\ status' = [o \in Orders |->
                         IF /\ \E p \in Pods : <<o, p>> \in batch
                            /\ Covered(o, batch, Listing)
                         THEN "in_progress" ELSE status[o]]
  BY <1>1, AssignFacts
<1>2. PICK robot \in [batch -> Idle] :
        /\ \A c, d \in batch : robot[c] = robot[d] => c = d
        /\ \A c \in batch : chain'[robot[c]] = NewChain(c)
        /\ \A r \in Robots : (\A c \in batch : robot[c] # r) => chain'[r] = chain[r]
        /\ chain' \in [Robots -> Chain \cup {Nothing}]
        /\ Busy' = Busy \cup {robot[c] : c \in batch}
        /\ home' = HomeAfterPlanning(batch, Listing)
        /\ status' = [o \in Orders |->
                         IF /\ \E p \in Pods : <<o, p>> \in batch
                            /\ Covered(o, batch, Listing)
                         THEN "in_progress" ELSE status[o]]
  BY <1>batch
<1>3. /\ list' = Listing /\ UNCHANGED <<delivered, finished, carrier, position>>
      /\ KeepsLists' = KeepsLists /\ CommitsItsReturns' = CommitsItsReturns
  BY SamePolicy DEF Assign
<1>4. ASSUME NEW c \in batch
      PROVE  /\ c \in Orders \X Pods
             /\ c[1] \in Orders /\ status[c[1]] = "pending"
             /\ c[2] \in Pods /\ c[2] \in Range(Listing[c[1]])
             /\ c[2] \notin Fulfilled(c[1])
             /\ carrier[c[2]] = Nothing
             /\ c[2] \notin Reserved
             /\ \A d \in batch : d[2] = c[2] => d = c
  BY <1>4, ContextFacts
<1>5. \A r \in Busy : /\ chain'[r] = chain[r] /\ r \in Busy'
                      /\ \A c \in batch : robot[c] # r
  BY <1>2 DEF Idle, Busy
<1>6. \A r \in Busy' : r \in Busy \/ \E c \in batch : robot[c] = r
  BY <1>2
<1>7. ASSUME NEW c \in batch
      PROVE  /\ robot[c] \in Busy' /\ robot[c] \in Robots /\ robot[c] \notin Busy
             /\ chain'[robot[c]].order = c[1] /\ chain'[robot[c]].pod = c[2]
             /\ chain'[robot[c]].spot = position[c[2]]
             /\ chain'[robot[c]].back = PlanReturn(c[2])
             /\ chain'[robot[c]].stage = "pick"
  <2>1. robot[c] \in Idle  OBVIOUS
  <2>2. robot[c] \in {robot[d] : d \in batch}  OBVIOUS
  <2>3. robot[c] \in Busy'  BY <1>2, <2>2
  <2>4. chain'[robot[c]] = NewChain(c)  BY <1>2
  <2>5. QED  BY <2>1, <2>3, <2>4 DEF NewChain, Idle
<1>8. Reserved' = Reserved \cup {c[2] : c \in batch}
  <2>1. ASSUME NEW x \in Reserved' PROVE x \in Reserved \cup {c[2] : c \in batch}
    <3>1. PICK r \in Busy' : x = chain'[r].pod  BY <2>1 DEF Reserved
    <3>2. CASE r \in Busy  BY <1>5, <3>1, <3>2 DEF Reserved
    <3>3. CASE \E c \in batch : robot[c] = r  BY <1>7, <3>1, <3>3
    <3>4. QED  BY <1>6, <3>2, <3>3
  <2>2. Reserved \subseteq Reserved'  BY <1>5 DEF Reserved
  <2>3. \A c \in batch : c[2] \in Reserved'  BY <1>7 DEF Reserved
  <2>4. QED  BY <2>1, <2>2, <2>3
<1>9. /\ home' \in [Pods -> Slots]
      /\ \A c \in batch : home'[c[2]] = PlanReturn(c[2])
      /\ CommitsItsReturns =>
            \A x \in Pods : (\A c \in batch : c[2] # x) => home'[x] = home[x]
  <2>1. home' = [x \in Pods |-> IF x \in Planned(batch, Listing) THEN PlanReturn(x)
                                ELSE home[x]]
    BY <1>2 DEF HomeAfterPlanning
  <2>2. ASSUME NEW c \in batch PROVE c[2] \in Planned(batch, Listing)
    <3>1. c[1] \in Pending  BY <1>4 DEF Pending
    <3>2. c[2] \notin UnderWay(c[1])  BY <1>4 DEF UnderWay, Reserved
    <3>3. c[2] \in Range(Listing[c[1]]) \ (Fulfilled(c[1]) \cup UnderWay(c[1]))
      BY <1>4, <3>2
    <3>4. QED  BY <3>1, <3>3 DEF Planned
  <2>3. ASSUME CommitsItsReturns, NEW x \in Pods, \A c \in batch : c[2] # x
        PROVE  home'[x] = home[x]
    <3>1. CASE Assigner = "jsq"
      <4>1. PlanReturn(x) = home[x]  BY <2>3, <3>1 DEF CommitsItsReturns, PlanReturn, NearestOutside
      <4>2. QED  BY <2>1, <4>1
    <3>2. CASE Assigner # "jsq"  BY <2>1, <2>3, <3>2 DEF Planned
    <3>3. QED  BY <3>1, <3>2
  <2>4. \A x \in Pods : PlanReturn(x) \in Slots  BY <1>1, PlanReturnIsSlot
  <2>5. home \in [Pods -> Slots]  BY <1>1 DEF LedgerTypes
  <2>6. home' \in [Pods -> Slots]  BY <2>1, <2>4, <2>5
  <2>7. \A c \in batch : home'[c[2]] = PlanReturn(c[2])  BY <1>4, <2>1, <2>2
  <2>8. QED  BY <2>3, <2>6, <2>7
<1>10. LedgerTypes'
  <2>1. status' \in [Orders -> OrderStatus \cup {"absent"}]
    BY <1>1, <1>2 DEF LedgerTypes, OrderStatus
  <2>2. QED  BY <1>1, <1>2, <1>3, <1>9, <2>1 DEF LedgerTypes
<1>11. PodsMatchChains'
  <2>1. ASSUME NEW q \in Busy', NEW r \in Busy', chain'[q].pod = chain'[r].pod
        PROVE  q = r
    <3>1. CASE q \in Busy /\ r \in Busy
      BY <1>5, <2>1, <3>1 DEF IndInv, PodsMatchChains
    <3>2. ASSUME NEW s \in Busy, NEW c \in batch PROVE chain'[s].pod # chain'[robot[c]].pod
      <4>1. chain'[s].pod \in Reserved  BY <1>5 DEF Reserved
      <4>2. QED  BY <1>4, <1>7, <4>1
    <3>3. ASSUME NEW c \in batch, NEW d \in batch,
                 chain'[robot[c]].pod = chain'[robot[d]].pod
          PROVE  robot[c] = robot[d]
      BY <1>4, <1>7, <3>3
    <3>4. QED  BY <1>6, <2>1, <3>1, <3>2, <3>3
  <2>2. ASSUME NEW x \in Pods, NEW q \in Robots
        PROVE  carrier'[x] = q <=>
                  q \in Busy' /\ chain'[q].pod = x /\ chain'[q].stage # "pick"
    <3>1. carrier[x] = q <=> q \in Busy /\ chain[q].pod = x /\ chain[q].stage # "pick"
      BY DEF IndInv, PodsMatchChains
    <3>2. CASE q \in Busy  BY <1>3, <1>5, <3>1, <3>2
    <3>3. CASE q \notin Busy
      <4>1. q \in Busy' => chain'[q].stage = "pick"  BY <1>6, <1>7, <3>3
      <4>2. QED  BY <1>3, <3>1, <3>3, <4>1
    <3>4. QED  BY <3>2, <3>3
  <2>3. ASSUME NEW q \in Busy', chain'[q].stage = "pick" PROVE PodWaits(q)'
    <3>1. CASE q \in Busy
      <4>1. PodWaits(q)  BY <1>5, <2>3, <3>1 DEF IndInv, PodsMatchChains
      <4>2. QED  BY <1>3, <1>5, <3>1, <4>1 DEF PodWaits
    <3>2. ASSUME NEW c \in batch, robot[c] = q PROVE PodWaits(q)'
      BY <1>3, <1>4, <1>7, <3>2 DEF PodWaits
    <3>3. QED  BY <1>6, <3>1, <3>2
  <2>4. QED  BY <2>1, <2>2, <2>3 DEF PodsMatchChains
<1>12. FinishedOnReturn'
  <2>1. ASSUME NEW r \in Busy'
        PROVE  chain'[r].pod \in finished'[chain'[r].order] <=> chain'[r].stage = "return"
    <3>1. CASE r \in Busy  BY <1>3, <1>5, <3>1 DEF IndInv, FinishedOnReturn
    <3>2. ASSUME NEW c \in batch, robot[c] = r
          PROVE  chain'[r].pod \notin finished'[chain'[r].order] /\ chain'[r].stage # "return"
      BY <1>3, <1>4, <1>7, <3>2 DEF Fulfilled
    <3>3. QED  BY <1>6, <3>1, <3>2
  <2>2. QED  BY <2>1 DEF FinishedOnReturn
<1>13. MarksBacked'  BY <1>3, <1>5 DEF IndInv, MarksBacked
<1>14. PodsGoHome'
  <2> SUFFICES ASSUME CommitsItsReturns
            PROVE  /\ \A r \in Busy' : chain'[r].back = home'[chain'[r].pod]
                   /\ \A x \in Pods \ Reserved' : position'[x] = home'[x]
    BY <1>3 DEF PodsGoHome
  <2>1. ASSUME NEW r \in Busy' PROVE chain'[r].back = home'[chain'[r].pod]
    <3>1. CASE r \in Busy
      <4>1. chain[r].pod \in Reserved /\ chain[r].pod \in Pods
        BY <1>1, <3>1, BusyTypes DEF Reserved
      <4>2. home'[chain[r].pod] = home[chain[r].pod]  BY <1>4, <1>9, <4>1
      <4>3. QED  BY <1>5, <3>1, <4>2 DEF IndInv, PodsGoHome
    <3>2. ASSUME NEW c \in batch, robot[c] = r PROVE chain'[r].back = home'[chain'[r].pod]
      BY <1>7, <1>9, <3>2
    <3>3. QED  BY <1>6, <3>1, <3>2
  <2>2. \A x \in Pods \ Reserved' : position'[x] = home'[x]
    BY <1>3, <1>8, <1>9 DEF IndInv, PodsGoHome
  <2>3. QED  BY <2>1, <2>2
<1>15. ListsKept'
  <2>1. SUFFICES ASSUME KeepsLists PROVE
          \A r \in Busy' : /\ chain'[r].pod \in Range(list'[chain'[r].order])
                           /\ chain'[r].stage = "exit" =>
                                 chain'[r].pod \in delivered'[chain'[r].order]
    BY <1>3 DEF IndInv, ListsKept, DeliveredLedgerComplete
  <2>2. ASSUME NEW r \in Busy PROVE list'[chain[r].order] = list[chain[r].order]
    <3>1. chain[r].order \in Orders  BY <1>1, BusyTypes
    <3>2. chain[r].pod \in Range(list[chain[r].order])
      BY <2>1 DEF IndInv, ListsKept
    <3>3. list[chain[r].order] # <<>>
      BY <3>2 DEF Range
    <3>4. QED  BY <1>3, <2>1, <3>1, <3>3 DEF Listing, MustRetrieve, KeepsLists
  <2>3. \A r \in Busy : /\ chain'[r].pod \in Range(list'[chain'[r].order])
                        /\ chain'[r].stage = "exit" =>
                              chain'[r].pod \in delivered'[chain'[r].order]
    BY <1>3, <1>5, <2>1, <2>2 DEF IndInv, ListsKept
  <2>4. \A c \in batch : /\ chain'[robot[c]].pod \in Range(list'[chain'[robot[c]].order])
                         /\ chain'[robot[c]].stage # "exit"
    BY <1>3, <1>4, <1>7
  <2>5. QED  BY <1>6, <2>3, <2>4
<1>16. InProgressCovered'
  <2>1. SUFFICES ASSUME NEW o \in Orders
        PROVE  /\ status'[o] = "in_progress" =>
                     Range(list'[o]) \subseteq Fulfilled(o)' \cup UnderWay(o)'
               /\ status'[o] = "completed" =>
                     UnderWay(o)' = {} /\ Range(list'[o]) \subseteq delivered'[o]
    BY DEF InProgressCovered, InProgress
  <2>2. Fulfilled(o)' = Fulfilled(o)  BY <1>3 DEF Fulfilled
  <2>3. /\ UnderWay(o) \subseteq UnderWay(o)'
        /\ \A p \in Pods : <<o, p>> \in batch => p \in UnderWay(o)'
    <3>1. UnderWay(o) \subseteq UnderWay(o)'  BY <1>5 DEF UnderWay
    <3>2. ASSUME NEW p \in Pods, <<o, p>> \in batch PROVE p \in UnderWay(o)'
      BY <1>7, <3>2 DEF UnderWay
    <3>3. QED  BY <3>1, <3>2
  <2>4. CASE (\E p \in Pods : <<o, p>> \in batch) /\ Covered(o, batch, Listing)
    <3>1. status'[o] = "in_progress"  BY <1>2, <2>4
    <3>2. \A x : <<o, x>> \in batch => x \in Pods  BY <1>4
    <3>3. Range(Listing[o]) \subseteq Fulfilled(o) \cup UnderWay(o)'
      BY <2>3, <2>4, <3>2 DEF Covered
    <3>4. QED  BY <1>3, <2>2, <3>1, <3>3
  <2>5. CASE ~((\E p \in Pods : <<o, p>> \in batch) /\ Covered(o, batch, Listing))
    <3>1. status'[o] = status[o]  BY <1>2, <2>5
    <3>2. SUFFICES ASSUME status[o] \in {"in_progress", "completed"}
          PROVE  /\ status'[o] = "in_progress" =>
                       Range(list'[o]) \subseteq Fulfilled(o)' \cup UnderWay(o)'
                 /\ status'[o] = "completed" =>
                       UnderWay(o)' = {} /\ Range(list'[o]) \subseteq delivered'[o]
      BY <3>1
    <3>3. list'[o] = list[o]  BY <1>3, <3>2 DEF Listing, MustRetrieve, Pending
    <3>4. \A c \in batch : c[1] # o  BY <1>4, <3>2
    <3>5. UnderWay(o)' = UnderWay(o)
      <4>1. ASSUME NEW r \in Busy', chain'[r].order = o PROVE chain'[r].pod \in UnderWay(o)
        <5>1. r \in Busy  BY <1>6, <1>7, <3>4, <4>1
        <5>2. QED  BY <1>5, <4>1, <5>1 DEF UnderWay
      <4>2. QED  BY <2>3, <4>1 DEF UnderWay
    <3>6. QED
      BY <1>3, <2>2, <3>1, <3>3, <3>5 DEF IndInv, InProgressCovered, InProgress
  <2>6. QED  BY <2>4, <2>5
<1>17. QED
  BY <1>10, <1>11, <1>12, <1>13, <1>14, <1>15, <1>16 DEF IndInv

LEMMA StutterInv ==
    ASSUME IndInv, UNCHANGED vars
    PROVE  IndInv'
<1> USE DEF IndInv, vars, orderVars, podVars
<1>policy. KeepsLists' = KeepsLists /\ CommitsItsReturns' = CommitsItsReturns
  BY SamePolicy
<1>1. Busy' = Busy /\ Reserved' = Reserved /\ \A o \in Orders : UnderWay(o)' = UnderWay(o)
  BY DEF Busy, Reserved, UnderWay
<1>2. LedgerTypes' /\ PodsGoHome'  BY <1>1, <1>policy DEF LedgerTypes, PodsGoHome
<1>3. PodsMatchChains'  BY <1>1 DEF PodsMatchChains, PodWaits
<1>4. FinishedOnReturn' /\ MarksBacked'  BY <1>1 DEF FinishedOnReturn, MarksBacked
<1>5. ListsKept'  BY <1>1, <1>policy DEF ListsKept, DeliveredLedgerComplete
<1>6. InProgressCovered'  BY <1>1 DEF InProgressCovered, InProgress, Fulfilled
<1>7. QED  BY <1>2, <1>3, <1>4, <1>5, <1>6

LEMMA NextInv == IndInv /\ [Next]_vars => IndInv'
<1> SUFFICES ASSUME IndInv, [Next]_vars PROVE IndInv'
  OBVIOUS
<1>1. ASSUME NEW o \in Orders, NewOrder(o) PROVE IndInv'  BY <1>1, NewOrderInv
<1>2. CASE Assign  BY <1>2, AssignInv
<1>3. ASSUME NEW r \in Robots, Act(r) PROVE IndInv'
  BY <1>3, PickDoneInv, ServiceDoneInv, ExitDoneInv, ReturnDoneInv DEF Act
<1>4. CASE CheckOrders  BY <1>4, CheckOrdersInv
<1>5. CASE UNCHANGED vars  BY <1>5, StutterInv
<1>6. QED  BY <1>1, <1>2, <1>3, <1>4, <1>5 DEF Next

LEMMA Inductive == Spec => []IndInv
BY InitInv, NextInv, PTL DEF Spec

(* No pod is promised to two robots, and its carrier and its place agree    *)
(* with the chain it is on, under every assigner and return planner: in    *)
(* the parallel mode _handle_pod_unavailable has nothing to handle.         *)
THEOREM PodsExclusive == Spec => []PodsMatchChains
<1>1. IndInv => PodsMatchChains  BY DEF IndInv
<1>2. QED  BY <1>1, Inductive, PTL

(* An order is IN_PROGRESS only while every pod it lists is served or on    *)
(* its way, and COMPLETED only once they are all delivered.                 *)
THEOREM OrdersCovered == Spec => []InProgressCovered
<1>1. IndInv => InProgressCovered  BY DEF IndInv
<1>2. QED  BY <1>1, Inductive, PTL

-----------------------------------------------------------------------------
(* Where the planner moves the home of pods that are not sent (JSQ), a pod  *)
(* that is off its home, or will be, is still to be sent for some order.    *)
StillWanted(p) == \E o \in Pending : p \in Range(list[o]) \ (Fulfilled(o) \cup UnderWay(o))

StraysWanted ==
    ~CommitsItsReturns =>
        /\ \A r \in Busy : chain[r].back # home[chain[r].pod] => StillWanted(chain[r].pod)
        /\ \A p \in Pods \ Reserved : position[p] # home[p] => StillWanted(p)

(* An act of a robot leaves wanted pods wanted: what it marks as served was *)
(* under way for that order.                                                *)
LEMMA ActKeepsWanted ==
    ASSUME IndInv, NEW r \in Robots, Act(r), NEW p \in Pods, StillWanted(p)
    PROVE  StillWanted(p)'
<1>1. LedgerTypes  BY DEF IndInv
<1>2. PICK o \in Pending : p \in Range(list[o]) \ (Fulfilled(o) \cup UnderWay(o))
  BY DEF StillWanted
<1>3. o \in Orders /\ r \in Busy /\ chain[r].order \in Orders
  <2>1. r \in Busy
    BY DEF Act, PickDone, ServiceDone, ExitDone, ReturnDone, Advance
  <2>2. QED  BY <1>1, <2>1, BusyTypes DEF Pending
<1>4. UNCHANGED <<status, list>>
  BY DEF Act, PickDone, ServiceDone, ExitDone, ReturnDone, orderVars
<1>5. Fulfilled(o)' \subseteq Fulfilled(o) \cup UnderWay(o)
  <2>1. CASE delivered' = delivered /\ finished' = finished  BY <2>1 DEF Fulfilled
  <2>2. CASE ServiceDone(r) \/ ExitDone(r)
    <3>1. /\ \A x \in delivered'[o] : x \in delivered[o] \/ (o = chain[r].order /\ x = chain[r].pod)
          /\ \A x \in finished'[o] : x \in finished[o] \/ (o = chain[r].order /\ x = chain[r].pod)
      BY <1>1, <1>3, <2>2 DEF ServiceDone, ExitDone, LedgerTypes
    <3>2. o = chain[r].order => chain[r].pod \in UnderWay(o)  BY <1>3 DEF UnderWay
    <3>3. QED  BY <3>1, <3>2 DEF Fulfilled
  <2>3. QED  BY <2>1, <2>2 DEF Act, PickDone, ReturnDone
<1>6. UnderWay(o)' \subseteq UnderWay(o)
  <2>1. CASE ReturnDone(r)
    <3>1. chain' = [chain EXCEPT ![r] = Nothing]  BY <2>1 DEF ReturnDone
    <3>2. \A q \in Busy' : q \in Busy /\ chain'[q] = chain[q]
      BY <1>1, <3>1 DEF Busy, LedgerTypes
    <3>3. QED  BY <3>2 DEF UnderWay
  <2>2. CASE ~ReturnDone(r)
    <3>1. PICK from \in ChainStage, to \in ChainStage : Advance(r, from, to)
      BY <2>2 DEF Act, PickDone, ServiceDone, ExitDone, ChainStage
    <3>2. UnderWay(o)' = UnderWay(o)  BY <1>1, <1>3, <3>1, AdvanceFacts
    <3>3. QED  BY <3>2
  <2>3. QED  BY <2>1, <2>2
<1>7. o \in Pending'  BY <1>2, <1>4 DEF Pending
<1>8. p \in Range(list'[o]) \ (Fulfilled(o)' \cup UnderWay(o)')
  BY <1>2, <1>4, <1>5, <1>6
<1>9. QED  BY <1>7, <1>8 DEF StillWanted

LEMMA ActKeepsStrays ==
    ASSUME IndInv, StraysWanted, NEW r \in Robots, Act(r)
    PROVE  StraysWanted'
<1>1. LedgerTypes  BY DEF IndInv
<1>2. CommitsItsReturns' = CommitsItsReturns /\ home' = home
  BY SamePolicy DEF Act, PickDone, ServiceDone, ExitDone, ReturnDone, podVars
<1>3. \A p \in Pods : StillWanted(p) => StillWanted(p)'  BY ActKeepsWanted
<1>4. SUFFICES ASSUME ~CommitsItsReturns
               PROVE  /\ \A q \in Busy' : chain'[q].back # home'[chain'[q].pod]
                            => \E x \in Pods : x = chain'[q].pod /\ StillWanted(x)'
                      /\ \A p \in Pods \ Reserved' : position'[p] # home'[p] => StillWanted(p)'
  BY <1>2 DEF StraysWanted, StillWanted
<1>5. /\ \A q \in Busy : chain[q].back # home[chain[q].pod] => StillWanted(chain[q].pod)
      /\ \A p \in Pods \ Reserved : position[p] # home[p] => StillWanted(p)
  BY <1>4 DEF StraysWanted
<1>6. \A q \in Busy : chain[q].pod \in Pods  BY <1>1, BusyTypes
<1>7. CASE ReturnDone(r)
  <2>1. /\ r \in Busy
        /\ position' = [position EXCEPT ![chain[r].pod] = chain[r].back]
        /\ chain' = [chain EXCEPT ![r] = Nothing]
    BY <1>7 DEF ReturnDone
  <2>2. /\ \A q \in Busy' : q \in Busy /\ chain'[q] = chain[q]
        /\ \A q \in Busy : q = r \/ (q \in Busy' /\ chain'[q] = chain[q])
    BY <1>1, <2>1 DEF Busy, LedgerTypes
  <2>3. \A p \in Reserved : p = chain[r].pod \/ p \in Reserved'
    BY <2>2 DEF Reserved
  <2>4. ASSUME NEW p \in Pods \ Reserved', position'[p] # home'[p] PROVE StillWanted(p)'
    <3>1. CASE p = chain[r].pod
      <4>1. position'[p] = chain[r].back  BY <1>1, <2>1, <3>1 DEF LedgerTypes
      <4>2. StillWanted(p)  BY <1>2, <1>5, <2>1, <2>4, <3>1, <4>1
      <4>3. QED  BY <1>3, <4>2
    <3>2. CASE p # chain[r].pod
      <4>1. position'[p] = position[p]  BY <1>1, <2>1, <3>2 DEF LedgerTypes
      <4>2. p \notin Reserved  BY <2>3, <3>2
      <4>3. StillWanted(p)  BY <1>2, <1>5, <2>4, <4>1, <4>2
      <4>4. QED  BY <1>3, <4>3
    <3>3. QED  BY <3>1, <3>2
  <2>5. ASSUME NEW q \in Busy', chain'[q].back # home'[chain'[q].pod]
        PROVE  \E x \in Pods : x = chain'[q].pod /\ StillWanted(x)'
    <3>1. q \in Busy /\ chain'[q] = chain[q]  BY <2>2
    <3>2. StillWanted(chain[q].pod)  BY <1>2, <1>5, <2>5, <3>1
    <3>3. PICK x \in Pods : x = chain[q].pod  BY <1>6, <3>1
    <3>4. StillWanted(x)'  BY <1>3, <3>2, <3>3
    <3>5. QED  BY <3>1, <3>3, <3>4
  <2>6. QED  BY <2>4, <2>5
<1>8. CASE ~ReturnDone(r)
  <2>1. PICK from \in ChainStage, to \in ChainStage : Advance(r, from, to)
    BY <1>8 DEF Act, PickDone, ServiceDone, ExitDone, ChainStage
  <2>2. position' = position
    BY <1>8 DEF Act, PickDone, ServiceDone, ExitDone, podVars
  <2>3. /\ Busy' = Busy /\ Reserved' = Reserved
        /\ \A q \in Busy : chain'[q].pod = chain[q].pod /\ chain'[q].back = chain[q].back
    BY <1>1, <2>1, AdvanceFacts
  <2>4. ASSUME NEW p \in Pods \ Reserved', position'[p] # home'[p] PROVE StillWanted(p)'
    BY <1>2, <1>3, <1>5, <2>2, <2>3, <2>4
  <2>5. ASSUME NEW q \in Busy', chain'[q].back # home'[chain'[q].pod]
        PROVE  \E x \in Pods : x = chain'[q].pod /\ StillWanted(x)'
    <3>1. q \in Busy /\ chain'[q].pod = chain[q].pod /\ chain'[q].back = chain[q].back
      BY <2>3
    <3>2. StillWanted(chain[q].pod)  BY <1>2, <1>5, <2>5, <3>1
    <3>3. PICK x \in Pods : x = chain[q].pod  BY <1>6, <3>1
    <3>4. StillWanted(x)'  BY <1>3, <3>2, <3>3
    <3>5. QED  BY <3>1, <3>3, <3>4
  <2>6. QED  BY <2>4, <2>5
<1>9. QED  BY <1>7, <1>8

(* assign() moves the home only of pods it means to send for; those it does *)
(* not send now stay wanted, and their order stays pending.                 *)
LEMMA AssignKeepsStrays ==
    ASSUME IndInv, StraysWanted, Assign
    PROVE  StraysWanted'
<1>1. LedgerTypes  BY DEF IndInv
<1>2. /\ list' = Listing /\ UNCHANGED <<delivered, finished, position>>
      /\ CommitsItsReturns' = CommitsItsReturns
  BY SamePolicy DEF Assign
<1>3. SUFFICES ASSUME ~CommitsItsReturns
               PROVE  /\ \A q \in Busy' : chain'[q].back # home'[chain'[q].pod]
                            => \E x \in Pods : x = chain'[q].pod /\ StillWanted(x)'
                      /\ \A p \in Pods \ Reserved' : position'[p] # home'[p] => StillWanted(p)'
  BY <1>2 DEF StraysWanted, StillWanted
<1>4. Assigner = "jsq"  BY <1>3 DEF CommitsItsReturns
<1>batch. PICK batch \in SUBSET Contexts(Listing) : \E robot \in [batch -> Idle] :
        /\ \A c \in batch : chain'[robot[c]] = NewChain(c)
        /\ \A r \in Robots : (\A c \in batch : robot[c] # r) => chain'[r] = chain[r]
        /\ Busy' = Busy \cup {robot[c] : c \in batch}
        /\ home' = HomeAfterPlanning(batch, Listing)
        /\ status' = [o \in Orders |->
                         IF /\ \E p \in Pods : <<o, p>> \in batch
                            /\ Covered(o, batch, Listing)
                         THEN "in_progress" ELSE status[o]]
  BY <1>1, AssignFacts
<1>5. PICK robot \in [batch -> Idle] :
        /\ \A c \in batch : chain'[robot[c]] = NewChain(c)
        /\ \A r \in Robots : (\A c \in batch : robot[c] # r) => chain'[r] = chain[r]
        /\ Busy' = Busy \cup {robot[c] : c \in batch}
        /\ home' = HomeAfterPlanning(batch, Listing)
        /\ status' = [o \in Orders |->
                         IF /\ \E p \in Pods : <<o, p>> \in batch
                            /\ Covered(o, batch, Listing)
                         THEN "in_progress" ELSE status[o]]
  BY <1>batch
<1>6. \A c \in batch : c \in Orders \X Pods /\ c[1] \in Pending
                       /\ c[2] \in Range(Listing[c[1]]) \ Fulfilled(c[1])
                       /\ c[2] \notin Reserved
  BY ContextFacts DEF Pending
<1>7. \A q \in Busy : q \in Busy' /\ chain'[q] = chain[q]
  BY <1>5 DEF Idle, Busy
<1>8. \A c \in batch : /\ robot[c] \in Busy'
                       /\ chain'[robot[c]].order = c[1] /\ chain'[robot[c]].pod = c[2]
                       /\ chain'[robot[c]].back = PlanReturn(c[2])
  <2>1. {robot[c] : c \in batch} \subseteq Busy'  BY <1>5
  <2>2. ASSUME NEW c \in batch
        PROVE  /\ robot[c] \in Busy'
               /\ chain'[robot[c]].order = c[1] /\ chain'[robot[c]].pod = c[2]
               /\ chain'[robot[c]].back = PlanReturn(c[2])
    <3>1. robot[c] \in {robot[d] : d \in batch}  OBVIOUS
    <3>2. robot[c] \in Busy'  BY <2>1, <3>1
    <3>3. chain'[robot[c]] = NewChain(c)  BY <1>5
    <3>4. QED  BY <3>2, <3>3 DEF NewChain
  <2>3. QED  BY <2>2
<1>9. \A q \in Busy' : q \in Busy \/ \E c \in batch : robot[c] = q  BY <1>5
<1>10. ASSUME NEW p \in Planned(batch, Listing), \A c \in batch : c[2] # p
       PROVE  StillWanted(p)'
  <2>1. PICK o \in Pending : p \in Range(Listing[o]) \ (Fulfilled(o) \cup UnderWay(o))
    BY <1>4, <1>10 DEF Planned
  <2>2. o \in Orders /\ <<o, p>> \notin batch  BY <1>10 DEF Pending
  <2>3. ~Covered(o, batch, Listing)  BY <2>1, <2>2 DEF Covered
  <2>4. o \in Pending'  BY <1>5, <2>1, <2>2, <2>3 DEF Pending
  <2>5. p \notin UnderWay(o)'
    <3>1. SUFFICES ASSUME NEW q \in Busy', chain'[q].order = o, chain'[q].pod = p
                   PROVE  FALSE
      BY DEF UnderWay
    <3>2. CASE q \in Busy  BY <1>7, <2>1, <3>1, <3>2 DEF UnderWay
    <3>3. CASE \E c \in batch : robot[c] = q  BY <1>8, <1>10, <3>1, <3>3
    <3>4. QED  BY <1>9, <3>2, <3>3
  <2>6. p \in Range(list'[o]) \ (Fulfilled(o)' \cup UnderWay(o)')
    BY <1>2, <2>1, <2>5 DEF Fulfilled
  <2>7. QED  BY <2>4, <2>6 DEF StillWanted
<1>11. ASSUME NEW p \in Pods, StillWanted(p) PROVE p \in Planned(batch, Listing)
  <2>1. PICK o \in Pending : p \in Range(list[o]) \ (Fulfilled(o) \cup UnderWay(o))
    BY <1>11 DEF StillWanted
  <2>2. o \in Orders /\ list[o] # <<>>  BY <2>1 DEF Pending, Range
  <2>3. Listing[o] = list[o]  BY <1>4, <2>2 DEF Listing, MustRetrieve
  <2>4. QED  BY <1>4, <2>1, <2>3 DEF Planned
<1>12. \A p \in Pods : home'[p] # home[p] => p \in Planned(batch, Listing)
  BY <1>5 DEF HomeAfterPlanning
<1>13. ASSUME NEW q \in Busy', chain'[q].back # home'[chain'[q].pod]
       PROVE  \E x \in Pods : x = chain'[q].pod /\ StillWanted(x)'
  <2>1. CASE q \in Busy
    <3>1. chain[q].pod \in Pods /\ chain[q].pod \in Reserved
      BY <1>1, <2>1, BusyTypes DEF Reserved
    <3>2. PICK x \in Pods : x = chain[q].pod  BY <3>1
    <3>3. x \in Planned(batch, Listing)
      <4>1. CASE home'[x] # home[x]  BY <1>12, <4>1
      <4>2. CASE home'[x] = home[x]
        <5>1. StillWanted(chain[q].pod)
          BY <1>3, <1>7, <1>13, <2>1, <3>2, <4>2 DEF StraysWanted
        <5>2. QED  BY <1>11, <3>2, <5>1
      <4>3. QED  BY <4>1, <4>2
    <3>4. \A c \in batch : c[2] # x  BY <1>6, <3>1, <3>2
    <3>5. StillWanted(x)'  BY <1>10, <3>3, <3>4
    <3>6. QED  BY <1>7, <2>1, <3>2, <3>5
  <2>2. ASSUME NEW c \in batch, robot[c] = q PROVE FALSE
    <3>1. c[1] \in Pending /\ c[2] \in Pods /\ c[2] \notin UnderWay(c[1])
          /\ c[2] \in Range(Listing[c[1]]) \ Fulfilled(c[1])
      BY <1>6 DEF UnderWay, Reserved
    <3>2. c[2] \in Planned(batch, Listing)  BY <1>4, <3>1 DEF Planned
    <3>3. home'[c[2]] = PlanReturn(c[2])  BY <1>5, <3>1, <3>2 DEF HomeAfterPlanning
    <3>4. QED  BY <1>8, <1>13, <2>2, <3>3
  <2>3. QED  BY <1>9, <2>1, <2>2
<1>14. ASSUME NEW p \in Pods \ Reserved', position'[p] # home'[p] PROVE StillWanted(p)'
  <2>1. \A c \in batch : c[2] # p  BY <1>8, <1>14 DEF Reserved
  <2>2. p \notin Reserved  BY <1>7, <1>14 DEF Reserved
  <2>3. p \in Planned(batch, Listing)
    <3>1. CASE home'[p] # home[p]  BY <1>12, <3>1
    <3>2. CASE home'[p] = home[p]
      <4>1. StillWanted(p)  BY <1>2, <1>3, <1>14, <2>2, <3>2 DEF StraysWanted
      <4>2. QED  BY <1>11, <4>1
    <3>3. QED  BY <3>1, <3>2
  <2>4. QED  BY <1>10, <2>1, <2>3
<1>15. QED  BY <1>13, <1>14

(* Arrivals and the end of the tick leave pending orders and their lists.   *)
LEMMA OrderStepsKeepStrays ==
    ASSUME IndInv, StraysWanted,
           (\E o \in Orders : NewOrder(o)) \/ CheckOrders \/ UNCHANGED vars
    PROVE  StraysWanted'
<1>1. LedgerTypes  BY DEF IndInv
<1>2. /\ UNCHANGED <<delivered, finished, chain>> /\ UNCHANGED podVars
      /\ CommitsItsReturns' = CommitsItsReturns
  BY SamePolicy DEF NewOrder, CheckOrders, vars, podVars
<1>3. \A o \in Pending : o \in Pending' /\ list'[o] = list[o]
  <2>1. CASE \E o \in Orders : NewOrder(o)
    BY <1>1, <2>1 DEF NewOrder, Pending, LedgerTypes
  <2>2. CASE CheckOrders  BY <2>2 DEF CheckOrders, Pending, Settled, InProgress
  <2>3. CASE UNCHANGED vars  BY <2>3 DEF vars, orderVars, Pending
  <2>4. QED  BY <2>1, <2>2, <2>3
<1>4. Busy' = Busy /\ Reserved' = Reserved /\ \A o \in Orders : UnderWay(o)' = UnderWay(o)
  BY <1>2 DEF Busy, Reserved, UnderWay
<1>5. \A p \in Pods : StillWanted(p) => StillWanted(p)'
  <2>1. \A o \in Pending : Fulfilled(o)' = Fulfilled(o) /\ UnderWay(o)' = UnderWay(o)
    BY <1>2, <1>4 DEF Fulfilled, Pending
  <2>2. QED  BY <1>3, <2>1 DEF StillWanted
<1>6. \A q \in Busy : chain[q].pod \in Pods  BY <1>1, BusyTypes
<1>7. QED  BY <1>2, <1>4, <1>5, <1>6 DEF StraysWanted, podVars

LEMMA StraysInductive == Spec => [](IndInv /\ StraysWanted)
<1>1. Init => StraysWanted
  BY DEF Init, StraysWanted, Busy
<1>2. IndInv /\ StraysWanted /\ [Next]_vars => StraysWanted'
  BY ActKeepsStrays, AssignKeepsStrays, OrderStepsKeepStrays DEF Next
<1>3. QED  BY <1>1, <1>2, Inductive, PTL DEF Spec

(* A pod that no chain reserves is available to the retriever, even though  *)
(* the planner of return cells moves home_position while pods travel; where *)
(* JSQ leaves one elsewhere, a pending order still lists it.                *)
THEOREM PodsComeHome == Spec => []UnreservedPodIsHome
<1>1. IndInv /\ StraysWanted => UnreservedPodIsHome
  <2> SUFFICES ASSUME IndInv, StraysWanted, NEW p \in Pods \ Reserved
               PROVE  \/ p \in Available
                      \/ /\ ~CommitsItsReturns
                         /\ \E o \in Pending : p \in Range(list[o]) \ Fulfilled(o)
    BY DEF UnreservedPodIsHome
  <2>1. carrier[p] \in Robots \cup {Nothing}  BY DEF IndInv, LedgerTypes
  <2>2. carrier[p] \notin Robots
    <3>1. SUFFICES ASSUME NEW r \in Robots, carrier[p] = r PROVE FALSE
      OBVIOUS
    <3>2. r \in Busy /\ chain[r].pod = p  BY <3>1 DEF IndInv, PodsMatchChains
    <3>3. QED  BY <3>2 DEF Reserved
  <2>3. CASE position[p] = home[p]  BY <2>1, <2>2, <2>3 DEF Available
  <2>4. CASE position[p] # home[p]
    <3>1. ~CommitsItsReturns  BY <2>4 DEF IndInv, PodsGoHome
    <3>2. StillWanted(p)  BY <2>4, <3>1 DEF StraysWanted
    <3>3. QED  BY <3>1, <3>2 DEF StillWanted
  <2>5. QED  BY <2>3, <2>4
<1>2. QED  BY <1>1, StraysInductive, PTL

(* delivered_pod_ids misses no completed delivery, unless the assigner      *)
(* replaces lists: the Hungarian one loses deliveries that way.             *)
THEOREM LedgerTruthful == Spec => []DeliveredLedgerComplete
<1>1. IndInv => DeliveredLedgerComplete
  BY DEF IndInv, ListsKept, DeliveredLedgerComplete
<1>2. QED  BY <1>1, Inductive, PTL

-----------------------------------------------------------------------------
(* What a step that changes no order, nobody's order and pod, and no        *)
(* service, is to the abstract specification: a stutter.                    *)
LEMMA SameLoans ==
    ASSUME LedgerTypes, Busy' = Busy,
           \A q \in Busy : /\ chain'[q].order = chain[q].order
                            /\ chain'[q].pod = chain[q].pod
    PROVE  Loans' = Loans
BY DEF Loans

LEMMA SameOrders ==
    ASSUME status' = status
    PROVE  Open' = Open /\ Closed' = Closed
BY DEF Open, Closed, Pending, InProgress

(* A busy robot's loan is its chain's order and pod, and it is on the       *)
(* served pairs exactly once the chain has been serviced.                   *)
LEMMA LoanFacts ==
    ASSUME IndInv, NEW r \in Busy
    PROVE  /\ Loans[r] = <<chain[r].order, chain[r].pod>>
           /\ Loans[r] \in Orders \X Pods
           /\ Loans[r] # Nothing
           /\ Loans[r] \in ServedPairs <=> chain[r].stage \in {"exit", "return"}
<1>1. LedgerTypes  BY DEF IndInv
<1>2. r \in Robots /\ chain[r].order \in Orders /\ chain[r].pod \in Pods
  BY <1>1, BusyTypes
<1>3. Loans[r] = <<chain[r].order, chain[r].pod>>  BY <1>2 DEF Loans
<1>4. Loans[r] \in Orders \X Pods /\ Loans[r] # Nothing
  BY <1>2, <1>3, NothingAssumption
<1>5. Loans[r] \in {c \in Orders \X Pods : c[2] \in finished[c[1]]}
          <=> chain[r].stage = "return"
  BY <1>3, <1>4 DEF IndInv, FinishedOnReturn
<1>6. ASSUME NEW q \in Busy, Loans[q] = Loans[r] PROVE q = r
  <2>1. q \in Robots  BY DEF Busy
  <2>2. Loans[q] = <<chain[q].order, chain[q].pod>>  BY <2>1 DEF Loans
  <2>3. chain[q].pod = chain[r].pod  BY <1>3, <1>6, <2>2
  <2>4. QED  BY <2>3 DEF IndInv, PodsMatchChains
<1>7. Loans[r] \in {Loans[q] : q \in {x \in Busy : chain[x].stage = "exit"}}
          <=> chain[r].stage = "exit"
  BY <1>6
<1>8. QED  BY <1>3, <1>4, <1>5, <1>7 DEF ServedPairs

LEMMA InitFulfils == Init => Fulfilment!Init
<1> SUFFICES ASSUME Init PROVE Fulfilment!Init
  OBVIOUS
<1>1. Busy = {}  BY DEF Init, Busy
<1>2. Open = {} /\ Closed = {}
  BY DEF Init, Open, Closed, Pending, InProgress
<1>3. Loans = [r \in Robots |-> Nothing]  BY <1>1 DEF Loans
<1>4. ServedPairs = {}  BY <1>1 DEF Init, ServedPairs
<1>5. QED  BY <1>2, <1>3, <1>4 DEF Fulfilment!Init

LEMMA NewOrderFulfils ==
    ASSUME IndInv, NEW o \in Orders, NewOrder(o)
    PROVE  Fulfilment!Place(o)
<1>1. /\ status[o] = "absent" /\ status' = [status EXCEPT ![o] = "pending"]
      /\ UNCHANGED <<finished, chain>>
      /\ status \in [Orders -> OrderStatus \cup {"absent"}]
  BY DEF NewOrder, IndInv, LedgerTypes
<1>2. o \notin Open \cup Closed  BY <1>1 DEF Open, Closed, Pending, InProgress
<1>3. Open' = Open \cup {o}  BY <1>1 DEF Open, Pending, InProgress
<1>4. Closed' = Closed  BY <1>1 DEF Closed
<1>5. Busy' = Busy /\ Loans' = Loans  BY <1>1 DEF Busy, Loans
<1>6. ServedPairs' = ServedPairs  BY <1>1, <1>5 DEF ServedPairs
<1>7. QED  BY <1>2, <1>3, <1>4, <1>5, <1>6 DEF Fulfilment!Place

(* assign() is a batch of loans to open orders, of pods they have not had.  *)
LEMMA AssignFulfils ==
    ASSUME IndInv, Assign
    PROVE  Fulfilment!Lend
<1>1. LedgerTypes /\ IndInv'  BY AssignInv DEF IndInv
<1>batch. PICK batch \in SUBSET Contexts(Listing) : \E robot \in [batch -> Idle] :
        /\ \A c \in batch : chain'[robot[c]] = NewChain(c)
        /\ \A r \in Robots : (\A c \in batch : robot[c] # r) => chain'[r] = chain[r]
        /\ Busy' = Busy \cup {robot[c] : c \in batch}
        /\ status' = [o \in Orders |->
                         IF /\ \E p \in Pods : <<o, p>> \in batch
                            /\ Covered(o, batch, Listing)
                         THEN "in_progress" ELSE status[o]]
  BY <1>1, AssignFacts
<1>2. PICK robot \in [batch -> Idle] :
        /\ \A c \in batch : chain'[robot[c]] = NewChain(c)
        /\ \A r \in Robots : (\A c \in batch : robot[c] # r) => chain'[r] = chain[r]
        /\ Busy' = Busy \cup {robot[c] : c \in batch}
        /\ status' = [o \in Orders |->
                         IF /\ \E p \in Pods : <<o, p>> \in batch
                            /\ Covered(o, batch, Listing)
                         THEN "in_progress" ELSE status[o]]
  BY <1>batch
<1>3. ASSUME NEW c \in batch
      PROVE  /\ c \in Orders \X Pods /\ status[c[1]] = "pending"
             /\ c[2] \notin finished[c[1]] /\ c[2] \notin Reserved
  BY <1>3, ContextFacts DEF Fulfilled
<1>new. ASSUME NEW c \in batch
      PROVE  /\ chain'[robot[c]].order = c[1] /\ chain'[robot[c]].pod = c[2]
             /\ chain'[robot[c]].stage = "pick"
  <2>1. chain'[robot[c]] = NewChain(c)  BY <1>2
  <2>2. QED  BY <2>1 DEF NewChain
<1>4. \A r \in Busy : chain'[r] = chain[r] /\ r \in Busy'
  BY <1>2 DEF Idle, Busy
<1>5. Open' = Open /\ Closed' = Closed
  <2>1. ASSUME NEW o \in Orders
        PROVE  \/ status'[o] = status[o]
               \/ status[o] = "pending" /\ status'[o] = "in_progress"
    <3>1. \A p \in Pods : <<o, p>> \in batch => status[o] = "pending"  BY <1>3
    <3>2. QED  BY <1>2, <3>1
  <2>2. QED  BY <2>1 DEF Open, Closed, Pending, InProgress
<1>6. ServedPairs' = ServedPairs
  <2>1. \A c \in batch : chain'[robot[c]].stage = "pick"  BY <1>new
  <2>2. \A r \in Busy' : chain'[r].stage = "exit" => r \in Busy  BY <1>2, <2>1
  <2>3. \A r \in Busy : r \in Robots /\ Loans'[r] = Loans[r]
    BY <1>4 DEF Loans, Busy
  <2>4. finished' = finished  BY DEF Assign
  <2>5. {Loans'[r] : r \in {q \in Busy' : chain'[q].stage = "exit"}}
          = {Loans[r] : r \in {q \in Busy : chain[q].stage = "exit"}}
    BY <1>4, <2>2, <2>3
  <2>6. QED  BY <2>4, <2>5 DEF ServedPairs
<1>7. ASSUME NEW r \in Robots
      PROVE  Loans'[r] \in (Orders \X Pods) \cup {Nothing}
  <2>1. CASE r \in Busy'
    <3>1. chain'[r].order \in Orders /\ chain'[r].pod \in Pods
      BY <1>1, <2>1 DEF IndInv, LedgerTypes, Busy, Chain
    <3>2. QED  BY <2>1, <3>1 DEF Loans
  <2>2. CASE r \notin Busy'  BY <2>2 DEF Loans
  <2>3. QED  BY <2>1, <2>2
<1>8. Loans' \in [Robots -> (Orders \X Pods) \cup {Nothing}]
  BY <1>7 DEF Loans
<1>9. ASSUME NEW r \in Robots, Loans[r] # Nothing PROVE Loans'[r] = Loans[r]
  <2>1. r \in Busy  BY <1>9 DEF Loans
  <2>2. QED  BY <1>4, <2>1 DEF Loans
<1>10. ASSUME NEW r \in Robots, Loans'[r] # Loans[r]
       PROVE  /\ Loans'[r][1] \in Open
              /\ Loans'[r] \notin ServedPairs
              /\ \A q \in Robots \ {r} : Loans'[q] # Nothing => Loans'[q][2] # Loans'[r][2]
  <2>1. r \in Busy' /\ r \notin Busy
    <3>1. r \in Busy => Loans'[r] = Loans[r]  BY <1>4 DEF Loans
    <3>2. r \notin Busy /\ r \notin Busy' => Loans'[r] = Loans[r]  BY DEF Loans
    <3>3. QED  BY <1>10, <3>1, <3>2
  <2>2. PICK c \in batch : robot[c] = r  BY <1>2, <2>1
  <2>3. chain'[r].order = c[1] /\ chain'[r].pod = c[2]  BY <1>new, <2>2
  <2>4. Loans'[r] = <<c[1], c[2]>>  BY <2>1, <2>3 DEF Loans
  <2>5. Loans'[r][1] \in Open  BY <1>3, <2>4 DEF Open, Pending
  <2>6. Loans'[r] \notin ServedPairs
    <3>1. <<c[1], c[2]>> \notin {d \in Orders \X Pods : d[2] \in finished[d[1]]}
      BY <1>3
    <3>2. ASSUME NEW q \in Busy PROVE Loans[q] # <<c[1], c[2]>>
      <4>1. Loans[q] = <<chain[q].order, chain[q].pod>>  BY LoanFacts
      <4>2. chain[q].pod \in Reserved  BY DEF Reserved
      <4>3. QED  BY <1>3, <4>1, <4>2
    <3>3. QED  BY <2>4, <3>1, <3>2 DEF ServedPairs
  <2>7. ASSUME NEW q \in Robots \ {r}, Loans'[q] # Nothing
        PROVE  Loans'[q][2] # Loans'[r][2]
    <3>1. q \in Busy'  BY <2>7 DEF Loans
    <3>2. Loans'[q] = <<chain'[q].order, chain'[q].pod>>  BY <3>1 DEF Loans
    <3>3. chain'[q].pod # chain'[r].pod
      BY <1>1, <2>1, <2>7, <3>1 DEF IndInv, PodsMatchChains
    <3>4. QED  BY <2>3, <2>4, <3>2, <3>3
  <2>8. QED  BY <2>5, <2>6, <2>7
<1>11. QED  BY <1>5, <1>6, <1>8, <1>9, <1>10 DEF Fulfilment!Lend

(* Picking a pod up and leaving the station are steps of the same loan; a   *)
(* service is recorded once; the return ends the loan.                      *)
LEMMA PickDoneFulfils ==
    ASSUME IndInv, NEW r \in Robots, PickDone(r)
    PROVE  UNCHANGED <<Open, Closed, Loans, ServedPairs>>
<1>1. Advance(r, "pick", "deliver") /\ UNCHANGED <<status, finished>> /\ LedgerTypes
  BY DEF PickDone, orderVars, IndInv
<1>2. /\ r \in Busy /\ chain[r].stage = "pick" /\ chain'[r].stage = "deliver"
      /\ Busy' = Busy
      /\ \A q \in Robots \ {r} : chain'[q] = chain[q]
      /\ \A q \in Busy : chain'[q].order = chain[q].order /\ chain'[q].pod = chain[q].pod
  BY <1>1, AdvanceFacts DEF ChainStage
<1>3. Loans' = Loans  BY <1>1, <1>2, SameLoans
<1>4. \A q \in Busy : chain'[q].stage = "exit" <=> chain[q].stage = "exit"
  BY <1>2 DEF Busy
<1>5. ServedPairs' = ServedPairs  BY <1>1, <1>2, <1>3, <1>4 DEF ServedPairs
<1>6. QED  BY <1>1, <1>3, <1>5, SameOrders

LEMMA ServiceDoneFulfils ==
    ASSUME IndInv, NEW r \in Robots, ServiceDone(r)
    PROVE  Fulfilment!Serve(r)
<1>1. /\ Advance(r, "deliver", "exit") /\ UNCHANGED <<status, finished>>
      /\ LedgerTypes
  BY DEF ServiceDone, orderVars, IndInv
<1>2. /\ r \in Busy /\ chain[r].stage = "deliver" /\ chain'[r].stage = "exit"
      /\ Busy' = Busy
      /\ \A q \in Robots \ {r} : chain'[q] = chain[q]
      /\ \A q \in Busy : chain'[q].order = chain[q].order /\ chain'[q].pod = chain[q].pod
  BY <1>1, AdvanceFacts DEF ChainStage
<1>3. Loans' = Loans  BY <1>1, <1>2, SameLoans
<1>4. Loans[r] # Nothing /\ Loans[r] \notin ServedPairs  BY <1>2, LoanFacts
<1>5. \A q \in Busy : chain'[q].stage = "exit" <=> chain[q].stage = "exit" \/ q = r
  BY <1>2 DEF Busy
<1>6. {q \in Busy' : chain'[q].stage = "exit"}
        = {q \in Busy : chain[q].stage = "exit"} \cup {r}
  BY <1>2, <1>5
<1>7. ServedPairs' = ServedPairs \cup {Loans[r]}
  BY <1>1, <1>3, <1>6 DEF ServedPairs
<1>8. QED  BY <1>1, <1>3, <1>4, <1>7, SameOrders DEF Fulfilment!Serve

LEMMA ExitDoneFulfils ==
    ASSUME IndInv, NEW r \in Robots, ExitDone(r)
    PROVE  UNCHANGED <<Open, Closed, Loans, ServedPairs>>
<1>1. /\ Advance(r, "exit", "return") /\ status' = status /\ LedgerTypes
      /\ finished' = [finished EXCEPT ![chain[r].order] = @ \cup {chain[r].pod}]
  BY DEF ExitDone, orderVars, IndInv
<1>2. /\ r \in Busy /\ chain[r].stage = "exit" /\ chain'[r].stage = "return"
      /\ Busy' = Busy
      /\ \A q \in Robots \ {r} : chain'[q] = chain[q]
      /\ \A q \in Busy : chain'[q].order = chain[q].order /\ chain'[q].pod = chain[q].pod
  BY <1>1, AdvanceFacts DEF ChainStage
<1>3. Loans' = Loans  BY <1>1, <1>2, SameLoans
<1>4. /\ chain[r].order \in Orders /\ chain[r].pod \in Pods
      /\ Loans[r] = <<chain[r].order, chain[r].pod>>
  BY <1>1, <1>2, BusyTypes, LoanFacts
<1>5. \A q \in Busy : chain'[q].stage = "exit" <=> chain[q].stage = "exit" /\ q # r
  BY <1>2 DEF Busy
<1>6. {q \in Busy : chain[q].stage = "exit"}
        = {q \in Busy' : chain'[q].stage = "exit"} \cup {r}
  BY <1>2, <1>5
<1>7. \A o \in Orders, p \in Pods :
        p \in finished'[o] <=> p \in finished[o] \/ <<o, p>> = Loans[r]
  BY <1>1, <1>4 DEF LedgerTypes
<1>8. {c \in Orders \X Pods : c[2] \in finished'[c[1]]}
        = {c \in Orders \X Pods : c[2] \in finished[c[1]]} \cup {Loans[r]}
  BY <1>4, <1>7
<1>9. ServedPairs' = ServedPairs
  BY <1>3, <1>6, <1>8 DEF ServedPairs
<1>10. QED  BY <1>1, <1>3, <1>9, SameOrders

LEMMA ReturnDoneFulfils ==
    ASSUME IndInv, NEW r \in Robots, ReturnDone(r)
    PROVE  Fulfilment!GiveBack(r)
<1>1. /\ r \in Busy /\ chain[r].stage = "return"
      /\ chain' = [chain EXCEPT ![r] = Nothing]
      /\ UNCHANGED <<status, finished>> /\ LedgerTypes
  BY DEF ReturnDone, orderVars, IndInv
<1>2. /\ chain'[r] = Nothing /\ \A q \in Robots \ {r} : chain'[q] = chain[q]
  BY <1>1 DEF LedgerTypes
<1>3. Busy' = Busy \ {r}  BY <1>2 DEF Busy
<1>4. Loans' = [Loans EXCEPT ![r] = Nothing]  BY <1>2, <1>3 DEF Loans
<1>5. Loans[r] # Nothing /\ Loans[r] \in ServedPairs  BY <1>1, LoanFacts
<1>6. \A q \in Busy' : q # r /\ q \in Busy /\ chain'[q] = chain[q] /\ Loans'[q] = Loans[q]
  BY <1>2, <1>3 DEF Loans, Busy
<1>7. {q \in Busy' : chain'[q].stage = "exit"} = {q \in Busy : chain[q].stage = "exit"}
  BY <1>1, <1>3, <1>6
<1>8. {Loans'[q] : q \in {x \in Busy' : chain'[x].stage = "exit"}}
        = {Loans[q] : q \in {x \in Busy : chain[x].stage = "exit"}}
  BY <1>6, <1>7
<1>9. ServedPairs' = ServedPairs  BY <1>1, <1>8 DEF ServedPairs
<1>10. QED  BY <1>1, <1>4, <1>5, <1>9, SameOrders DEF Fulfilment!GiveBack

(* The end of the tick closes the orders that were served and have no loan. *)
LEMMA CheckOrdersFulfils ==
    ASSUME IndInv, CheckOrders
    PROVE  Fulfilment!Close
<1>1. LedgerTypes /\ UNCHANGED <<finished, chain>>  BY DEF IndInv, CheckOrders
<1>2. status' = [o \in Orders |->
                   IF o \notin Settled THEN status[o]
                   ELSE IF FullyDelivered(o) THEN "completed" ELSE "pending"]
  BY DEF CheckOrders
<1>3. Busy' = Busy /\ Loans' = Loans /\ ServedPairs' = ServedPairs
  BY <1>1 DEF Busy, Loans, ServedPairs
<1>4. \A o \in Settled : o \in Orders /\ status[o] = "in_progress" /\ UnderWay(o) = {}
  BY DEF Settled, InProgress
<1>5. Closed \subseteq Closed'  BY <1>2, <1>4 DEF Closed
<1>6. \A o \in Closed' \ Closed : o \in Settled /\ FullyDelivered(o)
  BY <1>2 DEF Closed
<1>7. Closed' \ Closed \subseteq Open  BY <1>4, <1>6 DEF Open, InProgress
<1>8. Open' = Open \ Closed'
  BY <1>2, <1>4 DEF Open, Closed, Pending, InProgress
<1>9. ASSUME NEW o \in Closed' \ Closed
      PROVE  /\ \A l \in Fulfilment!Lent : l[1] # o
             /\ \E p \in Pods : <<o, p>> \in ServedPairs
  <2>1. o \in Orders /\ UnderWay(o) = {} /\ FullyDelivered(o)  BY <1>4, <1>6
  <2>2. \A r \in Busy : chain[r].order # o  BY <2>1 DEF UnderWay
  <2>3. ASSUME NEW l \in Fulfilment!Lent PROVE l[1] # o
    <3>1. PICK r \in Robots : l = Loans[r] /\ Loans[r] # Nothing
      BY <2>3 DEF Fulfilment!Lent
    <3>2. r \in Busy  BY <3>1 DEF Loans
    <3>3. l = <<chain[r].order, chain[r].pod>>  BY <3>1, <3>2, LoanFacts
    <3>4. QED  BY <2>2, <3>2, <3>3
  <2>4. PICK p : p \in Range(list[o])  BY <2>1 DEF FullyDelivered
  <2>5. p \in delivered[o] /\ p \in Pods
    BY <1>1, <2>1, <2>4 DEF FullyDelivered, LedgerTypes
  <2>6. p \in finished[o]  BY <2>1, <2>2, <2>5 DEF IndInv, MarksBacked
  <2>7. QED  BY <2>1, <2>3, <2>5, <2>6 DEF ServedPairs
<1>10. QED  BY <1>3, <1>5, <1>7, <1>8, <1>9 DEF Fulfilment!Close

LEMMA StepFulfils ==
    ASSUME IndInv, [Next]_vars
    PROVE  [Fulfilment!Next]_<<Open, Closed, Loans, ServedPairs>>
<1>1. ASSUME NEW o \in Orders, NewOrder(o) PROVE Fulfilment!Next
  BY <1>1, NewOrderFulfils DEF Fulfilment!Next
<1>2. CASE Assign  BY <1>2, AssignFulfils DEF Fulfilment!Next
<1>3. ASSUME NEW r \in Robots, Act(r)
      PROVE  [Fulfilment!Next]_<<Open, Closed, Loans, ServedPairs>>
  <2>1. CASE PickDone(r)  BY <2>1, PickDoneFulfils
  <2>2. CASE ServiceDone(r)  BY <2>2, ServiceDoneFulfils DEF Fulfilment!Next
  <2>3. CASE ExitDone(r)  BY <2>3, ExitDoneFulfils
  <2>4. CASE ReturnDone(r)  BY <2>4, ReturnDoneFulfils DEF Fulfilment!Next
  <2>5. QED  BY <1>3, <2>1, <2>2, <2>3, <2>4 DEF Act
<1>4. CASE CheckOrders  BY <1>4, CheckOrdersFulfils DEF Fulfilment!Next
<1>5. CASE UNCHANGED vars
  <2>1. UNCHANGED <<status, finished, chain>>  BY <1>5 DEF vars, orderVars
  <2>2. Busy' = Busy  BY <2>1 DEF Busy
  <2>3. Loans' = Loans /\ ServedPairs' = ServedPairs
    BY <2>1, <2>2 DEF Loans, ServedPairs
  <2>4. QED  BY <2>1, <2>3, SameOrders
<1>6. QED  BY <1>1, <1>2, <1>3, <1>4, <1>5 DEF Next

(* Dispatching implements the contract of OrderFulfilment, under every      *)
(* assigner: no pod is lent twice or to an order it has served, a loan ends *)
(* only once its pod was serviced, and an order closes only with something  *)
(* served to it and no loan left.                                           *)
THEOREM ImplementsFulfilment == Spec => FulfilmentSpec
<1>1. Spec => []IndInv  BY Inductive
<1>2. Init => Fulfilment!Init  BY InitFulfils
<1>3. IndInv /\ [Next]_vars => [Fulfilment!Next]_<<Open, Closed, Loans, ServedPairs>>
  BY StepFulfils
<1>4. QED  BY <1>1, <1>2, <1>3, PTL DEF Spec, FulfilmentSpec, Fulfilment!Spec

-----------------------------------------------------------------------------
(* The retriever. A sum of natural numbers over a finite set is natural.    *)
LEMMA SumIsNatural ==
    ASSUME NEW S, IsFiniteSet(S), NEW f, \A x \in S : f[x] \in Nat
    PROVE  SumFunctionOnSet(f, S) \in Nat
<1> DEFINE N == Cardinality(S)
           First(s) == CHOOSE x \in s : TRUE
           Level(g, s) == IF s = {} THEN 0 ELSE f[First(s)] + g[s \ {First(s)}]
           Small(m) == {s \in SUBSET S : Cardinality(s) <= m}
           Exists(m) == \E g : g = [s \in Small(m) |-> Level(g, s)]
           Bad == {m \in Nat : ~Exists(m)}
<1>1. N \in Nat  BY FS_CardinalityType
<1>2. \A s \in SUBSET S : IsFiniteSet(s) /\ Cardinality(s) \in Nat /\ Cardinality(s) <= N
  BY FS_Subset, FS_CardinalityType
<1>3. ASSUME NEW s \in SUBSET S, s # {}
      PROVE  /\ First(s) \in s /\ s \ {First(s)} \in SUBSET S
             /\ Cardinality(s \ {First(s)}) = Cardinality(s) - 1
  <2>1. First(s) \in s  BY <1>3
  <2> HIDE DEF First
  <2>2. QED  BY <1>2, <2>1, FS_RemoveElement
<1>4. \A s \in SUBSET S : Cardinality(s) <= 0 => s = {}
  BY <1>2, FS_EmptySet
<1> HIDE DEF N, First
<1>5. Exists(0)
  <2> DEFINE g == [s \in Small(0) |-> 0]
  <2>1. g = [s \in Small(0) |-> Level(g, s)]  BY <1>4
  <2>2. QED  BY <2>1
<1>6. ASSUME NEW m \in Nat, Exists(m) PROVE Exists(m + 1)
  <2>1. PICK g : g = [s \in Small(m) |-> Level(g, s)]  BY <1>6
  <2> DEFINE h == [s \in Small(m + 1) |-> Level(g, s)]
  <2>2. ASSUME NEW s \in Small(m + 1) PROVE Level(g, s) = Level(h, s)
    <3>1. CASE s = {}  BY <3>1
    <3>2. CASE s # {}
      <4> DEFINE t == s \ {First(s)}
      <4>1. Cardinality(t) = Cardinality(s) - 1 /\ t \in SUBSET S /\ Cardinality(s) \in Nat
        BY <1>2, <1>3, <3>2
      <4>2. t \in Small(m) /\ t \in Small(m + 1)  BY <2>2, <4>1
      <4> HIDE DEF t
      <4>3. h[t] = Level(g, t) /\ g[t] = Level(g, t)  BY <2>1, <4>2
      <4>4. QED  BY <3>2, <4>3 DEF t
    <3>3. QED  BY <3>1, <3>2
  <2>3. h = [s \in Small(m + 1) |-> Level(h, s)]  BY <2>2
  <2>4. QED  BY <2>3
<1>7. Bad = {}
  <2> SUFFICES ASSUME Bad # {} PROVE FALSE
    OBVIOUS
  <2> HIDE DEF Exists
  <2>1. PICK m \in Bad : \A k \in Bad : m <= k  BY LeastNatural
  <2>2. m \in Nat /\ ~Exists(m) /\ m # 0  BY <1>5
  <2>3. m - 1 \in Nat /\ m - 1 + 1 = m /\ ~(m <= m - 1)  BY <2>2
  <2>4. Exists(m - 1)  BY <2>1, <2>3
  <2>5. QED  BY <1>6, <2>2, <2>3, <2>4
<1>8. \E g : g = [s \in SUBSET S |-> Level(g, s)]
  <2>1. Small(N) = SUBSET S  BY <1>2
  <2>2. Exists(N)  BY <1>1, <1>7
  <2>3. QED  BY <2>1, <2>2
<1> DEFINE iter == CHOOSE g : g = [s \in SUBSET S |-> Level(g, s)]
<1>9. iter = [s \in SUBSET S |-> Level(iter, s)]  BY <1>8
<1>10. SumFunctionOnSet(f, S) = iter[S]
  BY DEF SumFunctionOnSet, FoldFunctionOnSet, MapThenFoldSet, First
<1> HIDE DEF iter
<1> DEFINE Wrong == {k \in Nat : \E s \in SUBSET S : Cardinality(s) = k /\ iter[s] \notin Nat}
<1>11. Wrong = {}
  <2> SUFFICES ASSUME Wrong # {} PROVE FALSE
    OBVIOUS
  <2>1. PICK k \in Wrong : \A l \in Wrong : k <= l  BY LeastNatural
  <2>2. PICK s \in SUBSET S : Cardinality(s) = k /\ iter[s] \notin Nat  OBVIOUS
  <2>3. s # {}  BY <1>9, <2>2
  <2> DEFINE t == s \ {First(s)}
  <2>4. First(s) \in S /\ t \in SUBSET S /\ Cardinality(t) = k - 1 /\ k \in Nat
    BY <1>2, <1>3, <2>2, <2>3
  <2>5. Cardinality(t) \in Nat  BY <1>2, <2>4
  <2>6. iter[s] = f[First(s)] + iter[t]  BY <1>9, <2>3
  <2> HIDE DEF t
  <2>7. k - 1 \in Nat /\ ~(k <= k - 1)  BY <2>4, <2>5
  <2>8. iter[t] \in Nat  BY <2>1, <2>4, <2>7
  <2>9. QED  BY <2>2, <2>4, <2>6, <2>8
<1>12. QED  BY <1>2, <1>10, <1>11

(* A finite set of natural numbers has a greatest element.                  *)
LEMMA GreatestNatural ==
    ASSUME NEW T \in SUBSET Nat, IsFiniteSet(T), T # {}
    PROVE  \E x \in T : \A y \in T : y <= x
<1> DEFINE Capped(S) == \E x \in S : \A y \in S : y <= x
           Wrong == {k \in Nat : \E S \in SUBSET Nat :
                         IsFiniteSet(S) /\ S # {} /\ Cardinality(S) = k /\ ~Capped(S)}
<1>1. Wrong = {}
  <2> SUFFICES ASSUME Wrong # {} PROVE FALSE
    OBVIOUS
  <2>1. PICK k \in Wrong : \A l \in Wrong : k <= l  BY LeastNatural
  <2>2. PICK S \in SUBSET Nat : IsFiniteSet(S) /\ S # {} /\ Cardinality(S) = k /\ ~Capped(S)
    OBVIOUS
  <2>3. PICK x \in S : TRUE  BY <2>2
  <2> DEFINE R == S \ {x}
  <2>4. IsFiniteSet(R) /\ Cardinality(R) = k - 1 /\ R \in SUBSET Nat
    BY <2>2, <2>3, FS_RemoveElement
  <2>5. Cardinality(R) \in Nat  BY <2>4, FS_CardinalityType
  <2>6. k - 1 \in Nat /\ ~(k <= k - 1)  BY <2>4, <2>5
  <2>7. k - 1 \notin Wrong  BY <2>1, <2>6
  <2>8. R = {} \/ Capped(R)
    <3> HIDE DEF R, Capped
    <3>1. QED  BY <2>4, <2>6, <2>7
  <2>9. CASE R = {}
    <3>1. \A y \in S : y = x  BY <2>9
    <3>2. Capped(S)  BY <2>2, <2>3, <3>1
    <3>3. QED  BY <2>2, <3>2
  <2>10. CASE Capped(R)
    <3>1. PICK z \in R : \A y \in R : y <= z  BY <2>10
    <3>2. \A y \in S : y = x \/ y <= z  BY <3>1
    <3>3. x \in Nat /\ z \in Nat /\ z \in S  BY <2>2, <2>3, <3>1
    <3>4. Capped(S)
      <4>1. CASE x <= z  BY <3>2, <3>3, <4>1
      <4>2. CASE z <= x
        <5>1. \A y \in S : y <= x  BY <2>2, <3>2, <3>3, <4>2
        <5>2. QED  BY <2>3, <5>1
      <4>3. QED  BY <3>3, <4>1, <4>2
    <3>5. QED  BY <2>2, <3>4
  <2>11. QED  BY <2>8, <2>9, <2>10
<1>2. Cardinality(T) \in Nat  BY FS_CardinalityType
<1>3. Capped(T)
  <2> HIDE DEF Capped
  <2>1. QED  BY <1>1, <1>2
<1>4. QED  BY <1>3

(* What a pod would cover of the demand that is left.                       *)
LEMMA ScoreIsNatural ==
    ASSUME demand \in [Orders -> [Skus -> Nat]], stock \in [Pods -> [Skus -> Nat]],
           NEW o \in Orders, NEW chosen \in SUBSET Pods, NEW p \in Pods
    PROVE  Score(o, chosen, p) \in Nat
<1> DEFINE left == StillNeeded(o, chosen)
           cover == [s \in Skus |-> Lesser(left[s], stock[p][s])]
<1>1. ASSUME NEW s \in Skus PROVE left[s] \in Nat
  <2> DEFINE has == [q \in Pods |-> stock[q][s]]
  <2>1. IsFiniteSet(chosen)  BY PodsAssumption, FS_Subset
  <2>2. \A q \in chosen : has[q] \in Nat  OBVIOUS
  <2> HIDE DEF has
  <2>3. SumFunctionOnSet(has, chosen) \in Nat  BY <2>1, <2>2, SumIsNatural
  <2>4. demand[o][s] \in Nat  OBVIOUS
  <2>5. left[s] = Shortage(demand[o][s], SumFunctionOnSet(has, chosen))
    BY DEF StillNeeded, has
  <2> HIDE DEF left
  <2>6. QED  BY <2>3, <2>4, <2>5 DEF Shortage
<1> HIDE DEF left
<1>2. \A s \in Skus : cover[s] \in Nat  BY <1>1 DEF Lesser
<1>3. Score(o, chosen, p) = SumFunctionOnSet(cover, Skus)  BY DEF Score, left
<1> HIDE DEF cover
<1>4. QED  BY <1>2, <1>3, SkusAssumption, SumIsNatural

(* Where a pod helps at all there is a best one.                            *)
LEMMA BestIsUseful ==
    ASSUME demand \in [Orders -> [Skus -> Nat]], stock \in [Pods -> [Skus -> Nat]],
           NEW o \in Orders, NEW chosen \in SUBSET Pods, Useful(o, chosen) # {}
    PROVE  Best(o, chosen) \in Useful(o, chosen)
<1> DEFINE useful == Useful(o, chosen)
           score(p) == Score(o, chosen, p)
           scores == {score(p) : p \in useful}
<1>1. useful \subseteq Pods /\ Pods \subseteq Nat /\ IsFiniteSet(Pods)
  BY PodsAssumption DEF Useful, Candidates, Available
<1>2. \A p \in useful : score(p) \in Nat  BY <1>1, ScoreIsNatural
<1>3. IsFiniteSet(useful)  BY <1>1, FS_Subset
<1> HIDE DEF score, useful
<1>4. IsFiniteSet(scores)
  <2> DEFINE f == [p \in useful |-> score(p)]
  <2>1. f \in Surjection(useful, scores)  BY DEF Surjection
  <2> HIDE DEF f, scores
  <2>2. QED  BY <1>3, <2>1, FS_Surjection
<1>5. scores \in SUBSET Nat /\ scores # {}  BY <1>2 DEF useful
<1>6. PICK top \in scores : \A x \in scores : x <= top  BY <1>4, <1>5, GreatestNatural
<1> DEFINE tops == {p \in useful : score(p) = top}
<1>7. tops \subseteq Nat /\ tops # {}  BY <1>1
<1>8. PICK p \in tops : \A q \in tops : p <= q  BY <1>7, LeastNatural
<1>9. ASSUME NEW q \in useful \ {p}
      PROVE  score(p) > score(q) \/ (score(p) = score(q) /\ p < q)
  <2>1. score(q) <= top /\ score(q) \in Nat /\ score(p) = top /\ top \in Nat
        /\ p \in Nat /\ q \in Nat
    BY <1>1, <1>2, <1>5, <1>6
  <2>2. CASE score(q) = top
    <3>1. p <= q  BY <1>8, <2>2
    <3>2. QED  BY <2>1, <2>2, <3>1
  <2>3. CASE score(q) # top
    <3> DEFINE x == score(q)
    <3>1. x <= top /\ x \in Nat /\ top \in Nat /\ x # top  BY <2>1, <2>3
    <3> HIDE DEF x
    <3>2. top > x  BY ONLY <3>1
    <3>3. QED  BY <2>1, <3>2 DEF x
  <2>4. QED  BY <2>2, <2>3
<1>10. \E x \in useful : \A q \in useful \ {x} :
           score(x) > score(q) \/ (score(x) = score(q) /\ x < q)
  <2>1. p \in useful  OBVIOUS
  <2>2. QED  BY <1>9, <2>1
<1>11. QED  BY <1>10 DEF Best, useful, score

(* What a pod put in front does to a list of other pods.                    *)
LEMMA OneMore ==
    ASSUME NEW C, NEW b \in C, NEW seq \in Seq(C), \A i, j \in 1 .. Len(seq) : seq[i] = seq[j] => i = j,
           b \notin Range(seq)
    PROVE  LET more == <<b>> \o seq
           IN  /\ more \in Seq(C) /\ Range(more) = {b} \cup Range(seq)
               /\ \A i, j \in 1 .. Len(more) : more[i] = more[j] => i = j
<1> DEFINE more == <<b>> \o seq
           n == Len(seq)
<1>1. /\ n \in Nat /\ DOMAIN seq = 1 .. n /\ more \in Seq(C) /\ Len(more) = n + 1
      /\ DOMAIN more = 1 .. n + 1
      /\ more[1] = b /\ \A i \in 2 .. n + 1 : more[i] = seq[i - 1] /\ i - 1 \in 1 .. n
  OBVIOUS
<1> HIDE DEF more, n
<1>2. \A i \in 1 .. n : i + 1 \in 2 .. n + 1 /\ i + 1 - 1 = i /\ i + 1 \in 1 .. n + 1
  BY <1>1
<1>3. \A i \in 1 .. n : more[i + 1] = seq[i]  BY <1>1, <1>2
<1>4. 1 \in 1 .. n + 1 /\ \A i \in 1 .. n + 1 : i = 1 \/ i \in 2 .. n + 1  BY <1>1
<1>5. Range(more) = {b} \cup Range(seq)
  <2>1. Range(more) \subseteq {b} \cup Range(seq)  BY <1>1, <1>4 DEF Range
  <2>2. b \in Range(more)  BY <1>1, <1>4 DEF Range
  <2>3. ASSUME NEW x \in Range(seq) PROVE x \in Range(more)
    <3>1. PICK i \in 1 .. n : x = seq[i]  BY <1>1 DEF Range
    <3>2. i + 1 \in 1 .. n + 1 /\ more[i + 1] = x  BY <1>2, <1>3, <3>1
    <3>3. QED  BY <1>1, <3>2 DEF Range
  <2>4. QED  BY <2>1, <2>2, <2>3
<1>6. \A i \in 2 .. n + 1 : more[i] # b  BY <1>1 DEF Range
<1>7. ASSUME NEW i \in 1 .. n + 1, NEW j \in 1 .. n + 1, more[i] = more[j] PROVE i = j
  <2>1. CASE i = 1 \/ j = 1  BY <1>1, <1>4, <1>6, <1>7, <2>1
  <2>2. CASE i # 1 /\ j # 1
    <3>1. i - 1 \in 1 .. n /\ j - 1 \in 1 .. n /\ seq[i - 1] = seq[j - 1]
      BY <1>1, <1>4, <1>7, <2>2
    <3>2. i - 1 = j - 1  BY <3>1 DEF n
    <3>3. QED  BY <1>1, <3>2
  <2>3. QED  BY <2>1, <2>2
<1>8. QED  BY <1>1, <1>5, <1>7 DEF more

(* The retriever's greedy cover always ends, for any demand and stock: with  *)
(* available pods only, each once, and with no pod left over that would     *)
(* cover anything more of what the order demands.                           *)
THEOREM RetrievedIs ==
    ASSUME demand \in [Orders -> [Skus -> Nat]], stock \in [Pods -> [Skus -> Nat]],
           NEW o \in Orders
    PROVE  /\ Retrieved(o) \in Seq(Candidates(o)) /\ Range(Retrieved(o)) \subseteq Candidates(o)
           /\ \A i, j \in 1 .. Len(Retrieved(o)) : Retrieved(o)[i] = Retrieved(o)[j] => i = j
           /\ Useful(o, Range(Retrieved(o))) = {}
<1> DEFINE C == Candidates(o)
           left(chosen) == Cardinality(C \ chosen)
           N == left({})
           best(chosen) == Best(o, chosen)
           Level(g, chosen) == IF Useful(o, chosen) = {} THEN <<>>
                               ELSE <<best(chosen)>> \o g[chosen \cup {best(chosen)}]
           Small(m) == {chosen \in SUBSET C : left(chosen) <= m}
           Exists(m) == \E g : g = [chosen \in Small(m) |-> Level(g, chosen)]
           Bad == {m \in Nat : ~Exists(m)}
<1>1. C \subseteq Pods /\ IsFiniteSet(C)
  <2>1. C \subseteq Pods  BY DEF Candidates, Available
  <2>2. QED  BY <2>1, PodsAssumption, FS_Subset
<1>2. \A chosen \in SUBSET C : Useful(o, chosen) \subseteq C \ chosen  BY DEF Useful
<1> HIDE DEF C
<1>3. ASSUME NEW chosen \in SUBSET C
      PROVE  IsFiniteSet(C \ chosen) /\ left(chosen) \in Nat /\ left(chosen) <= N
  <2>1. IsFiniteSet(C \ chosen) /\ C \ {} = C  BY <1>1, FS_Subset
  <2>2. Cardinality(C \ chosen) \in Nat /\ Cardinality(C \ chosen) <= Cardinality(C)
    BY <1>1, <2>1, FS_CardinalityType, FS_Subset
  <2>3. QED  BY <2>1, <2>2
<1>4. ASSUME NEW chosen \in SUBSET C, Useful(o, chosen) # {}
      PROVE  /\ best(chosen) \in C \ chosen
             /\ chosen \cup {best(chosen)} \in SUBSET C
             /\ left(chosen \cup {best(chosen)}) = left(chosen) - 1
  <2>1. chosen \in SUBSET Pods  BY <1>1
  <2>2. best(chosen) \in C \ chosen  BY <1>2, <1>4, <2>1, BestIsUseful
  <2> HIDE DEF best
  <2> DEFINE rest == C \ chosen
  <2>3. C \ (chosen \cup {best(chosen)}) = rest \ {best(chosen)}  OBVIOUS
  <2>4. IsFiniteSet(rest) /\ best(chosen) \in rest  BY <1>3, <2>2
  <2> HIDE DEF rest
  <2>5. Cardinality(rest \ {best(chosen)}) = Cardinality(rest) - 1
    BY <2>4, FS_RemoveElement
  <2>6. left(chosen \cup {best(chosen)}) = left(chosen) - 1  BY <2>3, <2>5 DEF rest
  <2>7. QED  BY <2>2, <2>6
<1>5. ASSUME NEW chosen \in SUBSET C, left(chosen) <= 0 PROVE Useful(o, chosen) = {}
  <2> DEFINE rest == C \ chosen
  <2>1. IsFiniteSet(rest) /\ Cardinality(rest) \in Nat /\ Cardinality(rest) <= 0
    BY <1>3, <1>5
  <2>2. Useful(o, chosen) \subseteq rest  BY <1>2
  <2> HIDE DEF rest
  <2>3. rest = {}  BY <2>1, FS_EmptySet
  <2>4. QED  BY <2>2, <2>3
<1>6. N \in Nat  BY <1>3
<1> HIDE DEF N, left, best
<1>7. Exists(0)
  <2> DEFINE g == [chosen \in Small(0) |-> <<>>]
  <2>1. g = [chosen \in Small(0) |-> Level(g, chosen)]  BY <1>5
  <2>2. QED  BY <2>1
<1>8. ASSUME NEW m \in Nat, Exists(m) PROVE Exists(m + 1)
  <2>1. PICK g : g = [chosen \in Small(m) |-> Level(g, chosen)]  BY <1>8
  <2> DEFINE h == [chosen \in Small(m + 1) |-> Level(g, chosen)]
  <2>2. ASSUME NEW chosen \in Small(m + 1) PROVE Level(g, chosen) = Level(h, chosen)
    <3>1. CASE Useful(o, chosen) = {}  BY <3>1
    <3>2. CASE Useful(o, chosen) # {}
      <4> DEFINE more == chosen \cup {best(chosen)}
      <4>1. left(more) = left(chosen) - 1 /\ more \in SUBSET C /\ left(chosen) \in Nat
        BY <1>3, <1>4, <3>2
      <4>2. more \in Small(m) /\ more \in Small(m + 1)  BY <2>2, <4>1
      <4> HIDE DEF more
      <4>3. h[more] = Level(g, more) /\ g[more] = Level(g, more)  BY <2>1, <4>2
      <4>4. QED  BY <3>2, <4>3 DEF more
    <3>3. QED  BY <3>1, <3>2
  <2>3. h = [chosen \in Small(m + 1) |-> Level(h, chosen)]  BY <2>2
  <2>4. QED  BY <2>3
<1>9. Bad = {}
  <2> SUFFICES ASSUME Bad # {} PROVE FALSE
    OBVIOUS
  <2> HIDE DEF Exists
  <2>1. PICK m \in Bad : \A k \in Bad : m <= k  BY LeastNatural
  <2>2. m \in Nat /\ ~Exists(m) /\ m # 0  BY <1>7
  <2>3. m - 1 \in Nat /\ m - 1 + 1 = m /\ ~(m <= m - 1)  BY <2>2
  <2>4. Exists(m - 1)  BY <2>1, <2>3
  <2>5. QED  BY <1>8, <2>2, <2>3, <2>4
<1>10. \E g : g = [chosen \in SUBSET C |-> Level(g, chosen)]
  <2>1. Small(N) = SUBSET C  BY <1>3
  <2>2. Exists(N)  BY <1>6, <1>9
  <2>3. QED  BY <2>1, <2>2
<1> DEFINE pick == CHOOSE g : g = [chosen \in SUBSET C |-> Level(g, chosen)]
<1>11. pick = [chosen \in SUBSET C |-> Level(pick, chosen)]  BY <1>10
<1>12. Retrieved(o) = pick[{}]  BY DEF Retrieved, C, best
<1> HIDE DEF pick
<1> DEFINE Good(chosen) ==
               /\ pick[chosen] \in Seq(C) /\ Range(pick[chosen]) \subseteq C \ chosen
               /\ \A i, j \in 1 .. Len(pick[chosen]) : pick[chosen][i] = pick[chosen][j] => i = j
               /\ Useful(o, chosen \cup Range(pick[chosen])) = {}
           Wrong == {k \in Nat : \E chosen \in SUBSET C : left(chosen) = k /\ ~Good(chosen)}
<1>13. Wrong = {}
  <2> SUFFICES ASSUME Wrong # {} PROVE FALSE
    OBVIOUS
  <2>1. PICK k \in Wrong : \A l \in Wrong : k <= l  BY LeastNatural
  <2>2. PICK chosen \in SUBSET C : left(chosen) = k /\ ~Good(chosen)  OBVIOUS
  <2>3. CASE Useful(o, chosen) = {}
    <3>1. pick[chosen] = <<>>  BY <1>11, <2>3
    <3>2. Range(pick[chosen]) = {}  BY <3>1 DEF Range
    <3>3. chosen \cup Range(pick[chosen]) = chosen  BY <3>2
    <3>4. pick[chosen] \in Seq(C) /\ 1 .. Len(pick[chosen]) = {}  BY <3>1
    <3>5. Useful(o, chosen \cup Range(pick[chosen])) = {}  BY <2>3, <3>3
    <3>6. Good(chosen)  BY <3>2, <3>4, <3>5
    <3>7. QED  BY <2>2, <3>6
  <2>4. CASE Useful(o, chosen) # {}
    <3> DEFINE b == best(chosen)
               more == chosen \cup {b}
               rest == pick[more]
    <3>1. /\ b \in C \ chosen /\ more \in SUBSET C /\ left(more) = k - 1 /\ k \in Nat
          /\ left(more) \in Nat
      BY <1>3, <1>4, <2>2, <2>4
    <3>2. k - 1 \in Nat /\ ~(k <= k - 1)  BY <3>1
    <3>3. k - 1 \notin Wrong  BY <2>1, <3>2
    <3>4. pick[chosen] = <<b>> \o rest  BY <1>11, <2>4
    <3> HIDE DEF b, more
    <3>5. Good(more)
      <4> HIDE DEF Good
      <4>1. QED  BY <3>1, <3>2, <3>3
    <3> HIDE DEF rest
    <3>6. /\ rest \in Seq(C) /\ Range(rest) \subseteq C \ more
          /\ \A i, j \in 1 .. Len(rest) : rest[i] = rest[j] => i = j
          /\ Useful(o, more \cup Range(rest)) = {}
      BY <3>5 DEF rest
    <3>7. b \in C /\ b \notin Range(rest)  BY <3>1, <3>6 DEF more
    <3>8. /\ pick[chosen] \in Seq(C) /\ Range(pick[chosen]) = {b} \cup Range(rest)
          /\ \A i, j \in 1 .. Len(pick[chosen]) : pick[chosen][i] = pick[chosen][j] => i = j
      BY <3>4, <3>6, <3>7, OneMore
    <3>9. more \cup Range(rest) = chosen \cup Range(pick[chosen])  BY <3>8 DEF more
    <3>10. Range(pick[chosen]) \subseteq C \ chosen  BY <3>1, <3>6, <3>8 DEF more
    <3>11. Good(chosen)  BY <3>6, <3>8, <3>9, <3>10
    <3>12. QED  BY <2>2, <3>11
  <2>5. QED  BY <2>3, <2>4
<1>14. Good({})
  <2>1. {} \in SUBSET C /\ left({}) \in Nat  BY <1>3
  <2> HIDE DEF Good
  <2>2. QED  BY <1>13, <2>1
<1>15. {} \cup Range(pick[{}]) = Range(pick[{}])  OBVIOUS
<1>16. QED  BY <1>12, <1>14, <1>15 DEF C

-----------------------------------------------------------------------------
(* Every variable has its type.                                             *)
ItemTypes ==
    /\ step \in {"decide", "work"}
    /\ demand \in [Orders -> [Skus -> Nat]]
    /\ \A o \in Orders : list[o] \in Seq(Pods)
    /\ stock \in [Pods -> [Skus -> Nat]]
    /\ policy \in Policies
    /\ taken \in [Orders -> [Skus -> Nat]]

LEMMA StepKeepsItemTypes ==
    ASSUME IndInv, ItemTypes, [Next]_vars
    PROVE  ItemTypes'
<1>1. ASSUME NEW o \in Orders, NewOrder(o) PROVE ItemTypes'
  BY <1>1, DemandsAssumption DEF NewOrder, ItemTypes
<1>2. CASE Assign
  <2>1. ASSUME NEW o \in Orders PROVE list'[o] \in Seq(Pods)
    <3>1. list'[o] = IF MustRetrieve(o) THEN Retrieved(o) ELSE list[o]
      BY <1>2 DEF Assign, Listing
    <3>2. Retrieved(o) \in Seq(Candidates(o))  BY RetrievedIs DEF ItemTypes
    <3>3. Candidates(o) \subseteq Pods  BY DEF Candidates, Available
    <3>4. Retrieved(o) \in Seq(Pods)  BY <3>2, <3>3
    <3>5. QED  BY <3>1, <3>4 DEF ItemTypes
  <2>2. QED  BY <1>2, <2>1 DEF Assign, ItemTypes
<1>3. ASSUME NEW r \in Robots, ServiceDone(r) PROVE ItemTypes'
  <2> DEFINE o == chain[r].order
             p == chain[r].pod
  <2>1. o \in Orders /\ p \in Pods
    BY <1>3, BusyTypes DEF ServiceDone, Advance, IndInv
  <2>2. \A s \in Skus : /\ Shortage(stock[p][s], demand[o][s]) \in Nat
                        /\ stock[p][s] - Shortage(stock[p][s], demand[o][s]) \in Nat
    BY <2>1 DEF ItemTypes, Shortage
  <2>3. stock' = [stock EXCEPT ![p] = [s \in Skus |-> Shortage(stock[p][s], demand[o][s])]]
    BY <1>3 DEF ServiceDone
  <2>4. stock' \in [Pods -> [Skus -> Nat]]  BY <2>1, <2>2, <2>3 DEF ItemTypes
  <2>5. \A s \in Skus : stock'[p][s] = Shortage(stock[p][s], demand[o][s])
    BY <2>1, <2>3 DEF ItemTypes
  <2>6. taken' = [taken EXCEPT ![o] = [s \in Skus |-> taken[o][s] + stock[p][s] - stock'[p][s]]]
    BY <1>3 DEF ServiceDone
  <2>7. \A s \in Skus : taken[o][s] + stock[p][s] - stock'[p][s] \in Nat
    <3> TAKE s \in Skus
    <3>1. taken[o][s] \in Nat /\ stock[p][s] \in Nat /\ stock'[p][s] \in Nat
          /\ stock[p][s] - stock'[p][s] \in Nat
      BY <2>1, <2>2, <2>4, <2>5 DEF ItemTypes
    <3>2. QED  BY <3>1
  <2>8. taken' \in [Orders -> [Skus -> Nat]]  BY <2>1, <2>6, <2>7 DEF ItemTypes
  <2>9. UNCHANGED <<step, demand, list, policy>>  BY <1>3 DEF ServiceDone, Advance, orderVars
  <2>10. QED  BY <2>4, <2>8, <2>9 DEF ItemTypes
<1>4. ASSUME NEW r \in Robots, PickDone(r) \/ ExitDone(r) \/ ReturnDone(r) PROVE ItemTypes'
  BY <1>4 DEF PickDone, ExitDone, ReturnDone, orderVars, ItemTypes
<1>5. CASE CheckOrders
  <2>1. ASSUME NEW o \in Orders PROVE list'[o] \in Seq(Pods)
    BY <1>5 DEF CheckOrders, ItemTypes
  <2>2. QED  BY <1>5, <2>1 DEF CheckOrders, ItemTypes
<1>6. CASE UNCHANGED vars  BY <1>6 DEF vars, orderVars, podVars, ItemTypes
<1>7. QED  BY <1>1, <1>2, <1>3, <1>4, <1>5, <1>6 DEF Next, Act

LEMMA ItemTypesHold == Spec => []ItemTypes
<1>1. Init => ItemTypes  BY StockAssumption DEF Init, ItemTypes
<1>2. IndInv /\ ItemTypes /\ [Next]_vars => ItemTypes'  BY StepKeepsItemTypes
<1>3. QED  BY <1>1, <1>2, Inductive, PTL DEF Spec

(* The variables have their types: a list holds pods, whatever the          *)
(* retriever is asked for, and neither stock nor what an order has been     *)
(* given ever becomes negative.                                             *)
THEOREM DispatchTypes == Spec => []TypeOK
<1>1. IndInv /\ ItemTypes => TypeOK  BY DEF IndInv, LedgerTypes, ItemTypes, TypeOK
<1>2. QED  BY <1>1, Inductive, ItemTypesHold, PTL

-----------------------------------------------------------------------------
(* A pending order with a list waits for one of its pods to be sent, also    *)
(* while the robots work; and only orders that have arrived are listed.      *)
Waiting ==
    KeepsLists => \A o \in Pending :
        list[o] # <<>> => \E p \in Range(list[o]) : p \notin Fulfilled(o) \cup UnderWay(o)
ListsAwaitOrders == \A o \in Orders : status[o] = "absent" => list[o] = <<>>

LEMMA NoPodTurnsUp ==
    ASSUME Waiting, ListsAwaitOrders, UNCHANGED <<status, list, policy>>,
           \A o \in Orders : Fulfilled(o)' \cup UnderWay(o)' \subseteq Fulfilled(o) \cup UnderWay(o)
    PROVE  Waiting' /\ ListsAwaitOrders'
<1>1. KeepsLists' = KeepsLists  BY SamePolicy
<1>2. Pending' = Pending /\ Pending \subseteq Orders  BY DEF Pending
<1>3. QED  BY <1>1, <1>2 DEF Waiting, ListsAwaitOrders

LEMMA AssignKeepsWaiting ==
    ASSUME IndInv, ItemTypes, Waiting, ListsAwaitOrders, Assign
    PROVE  Waiting' /\ ListsAwaitOrders'
<1>1. LedgerTypes  BY DEF IndInv
<1>batch. PICK batch \in SUBSET Contexts(Listing) : \E robot \in [batch -> Idle] :
        /\ \A c \in batch : chain'[robot[c]] = NewChain(c)
        /\ \A r \in Robots : (\A c \in batch : robot[c] # r) => chain'[r] = chain[r]
        /\ Busy' = Busy \cup {robot[c] : c \in batch}
        /\ status' = [o \in Orders |->
                         IF /\ \E p \in Pods : <<o, p>> \in batch
                            /\ Covered(o, batch, Listing)
                         THEN "in_progress" ELSE status[o]]
  BY <1>1, AssignFacts
<1>2. PICK robot \in [batch -> Idle] :
        /\ \A c \in batch : chain'[robot[c]] = NewChain(c)
        /\ \A r \in Robots : (\A c \in batch : robot[c] # r) => chain'[r] = chain[r]
        /\ Busy' = Busy \cup {robot[c] : c \in batch}
        /\ status' = [o \in Orders |->
                         IF /\ \E p \in Pods : <<o, p>> \in batch
                            /\ Covered(o, batch, Listing)
                         THEN "in_progress" ELSE status[o]]
  BY <1>batch
<1>3. list' = Listing /\ UNCHANGED <<delivered, finished, policy>>  BY DEF Assign
<1>4. KeepsLists' = KeepsLists  BY <1>3, SamePolicy
<1>5. \A o \in Orders : Fulfilled(o)' = Fulfilled(o)  BY <1>3 DEF Fulfilled
<1>6. ASSUME NEW o \in Orders, NEW p \in UnderWay(o)'
      PROVE  p \in UnderWay(o) \/ <<o, p>> \in batch
  <2>1. PICK r \in Busy' : chain'[r].order = o /\ chain'[r].pod = p  BY DEF UnderWay
  <2>2. CASE \E c \in batch : robot[c] = r
    <3>1. PICK c \in batch : robot[c] = r  BY <2>2
    <3>2. c \in Contexts(Listing)  BY <3>1
    <3>3. c \in Orders \X Pods  BY <3>2, ContextFacts
    <3>4. chain'[r] = NewChain(c)  BY <1>2, <3>1
    <3>5. c[1] = o /\ c[2] = p
      <4>1. NewChain(c).order = c[1] /\ NewChain(c).pod = c[2]  BY DEF NewChain
      <4>2. QED  BY <2>1, <3>4, <4>1
    <3>6. c = <<o, p>>  BY <3>3, <3>5
    <3>7. QED  BY <3>1, <3>6
  <2>3. CASE \A c \in batch : robot[c] # r
    <3>1. r \in Busy /\ chain'[r] = chain[r]  BY <1>2, <2>1, <2>3 DEF Busy
    <3>2. QED  BY <2>1, <3>1 DEF UnderWay
  <2>4. QED  BY <2>2, <2>3
<1>7. ASSUME KeepsLists, NEW o \in Orders, status'[o] = "pending", Listing[o] # <<>>
      PROVE  \E p \in Range(Listing[o]) : p \notin Fulfilled(o) \cup UnderWay(o)'
  <2>1. status[o] = "pending" /\ ~(/\ \E p \in Pods : <<o, p>> \in batch
                                   /\ Covered(o, batch, Listing))
    BY <1>2, <1>7
  <2>2. Listing[o] = IF list[o] = <<>> THEN Retrieved(o) ELSE list[o]
    BY <1>7, <2>1 DEF Listing, MustRetrieve, KeepsLists, Pending
  <2>3. CASE \E p \in Pods : <<o, p>> \in batch
    <3>1. PICK p \in Range(Listing[o]) :
              p \notin UnderWay(o) \cup Fulfilled(o) /\ <<o, p>> \notin batch
      BY <2>1, <2>3 DEF Covered
    <3>2. p \notin UnderWay(o)'  BY <1>6, <3>1
    <3>3. QED  BY <3>1, <3>2
  <2>4. CASE ~ \E p \in Pods : <<o, p>> \in batch
    <3>1. UnderWay(o)' \subseteq UnderWay(o)
      <4>1. ASSUME NEW p \in UnderWay(o)', <<o, p>> \in batch PROVE FALSE
        <5>1. <<o, p>> \in Orders \X Pods  BY <4>1, ContextFacts
        <5>2. QED  BY <2>4, <4>1, <5>1
      <4>2. QED  BY <1>6, <4>1
    <3>2. CASE list[o] # <<>>
      <4>1. PICK p \in Range(list[o]) : p \notin Fulfilled(o) \cup UnderWay(o)
        BY <1>7, <2>1, <3>2 DEF Waiting, Pending
      <4>2. QED  BY <2>2, <3>1, <3>2, <4>1
    <3>3. CASE list[o] = <<>>
      <4> DEFINE new == Retrieved(o)
      <4>1. new # <<>> /\ new = Listing[o]  BY <1>7, <2>2, <3>3
      <4>2. new \in Seq(Candidates(o)) /\ Range(new) \subseteq Candidates(o)
        BY RetrievedIs DEF ItemTypes
      <4> HIDE DEF new
      <4>3. 1 \in DOMAIN new  BY <4>1, <4>2
      <4>4. PICK p \in Range(new) : p \in Candidates(o)  BY <4>2, <4>3 DEF Range
      <4>5. p \notin Reserved /\ p \notin delivered[o]  BY <4>4 DEF Candidates
      <4>6. finished[o] \subseteq delivered[o]
        BY <1>7 DEF IndInv, ListsKept, DeliveredLedgerComplete
      <4>7. p \notin Fulfilled(o) \cup UnderWay(o)
        BY <4>5, <4>6 DEF Fulfilled, UnderWay, Reserved
      <4>8. QED  BY <3>1, <4>1, <4>4, <4>7
    <3>4. QED  BY <3>2, <3>3
  <2>5. QED  BY <2>3, <2>4
<1>8. Waiting'
  <2>1. SUFFICES ASSUME KeepsLists, NEW o \in Orders, status'[o] = "pending", Listing[o] # <<>>
                 PROVE  \E p \in Range(Listing[o]) : p \notin Fulfilled(o)' \cup UnderWay(o)'
    BY <1>3, <1>4 DEF Waiting, Pending
  <2>2. QED  BY <1>5, <1>7, <2>1
<1>9. ListsAwaitOrders'
  <2>1. ASSUME NEW o \in Orders, status'[o] = "absent" PROVE list'[o] = <<>>
    <3>1. status[o] = "absent"  BY <1>2, <2>1
    <3>2. QED  BY <1>3, <3>1 DEF Listing, MustRetrieve, Pending, ListsAwaitOrders
  <2>2. QED  BY <2>1 DEF ListsAwaitOrders
<1>10. QED  BY <1>8, <1>9

LEMMA StepKeepsWaiting ==
    ASSUME IndInv, ItemTypes, Waiting, ListsAwaitOrders, [Next]_vars
    PROVE  Waiting' /\ ListsAwaitOrders'
<1>1. LedgerTypes  BY DEF IndInv
<1>2. ASSUME NEW o \in Orders, NewOrder(o) PROVE Waiting' /\ ListsAwaitOrders'
  <2>1. /\ status[o] = "absent" /\ status' = [status EXCEPT ![o] = "pending"]
        /\ UNCHANGED <<list, policy, chain, delivered, finished>>
    BY <1>2 DEF NewOrder
  <2>2. KeepsLists' = KeepsLists  BY <2>1, SamePolicy
  <2>3. \A q \in Orders : UnderWay(q)' = UnderWay(q) /\ Fulfilled(q)' = Fulfilled(q)
    BY <2>1 DEF UnderWay, Busy, Fulfilled
  <2>4. list[o] = <<>>  BY <2>1 DEF ListsAwaitOrders
  <2>5. \A q \in Orders : q # o => status'[q] = status[q]  BY <1>1, <2>1 DEF LedgerTypes
  <2>6. status'[o] = "pending"  BY <1>1, <2>1 DEF LedgerTypes
  <2>7. ListsAwaitOrders'  BY <2>1, <2>4, <2>5 DEF ListsAwaitOrders
  <2>8. Waiting'
    <3>1. ASSUME NEW q \in Orders, status'[q] = "pending", list[q] # <<>> PROVE q \in Pending
      BY <2>4, <2>5, <3>1 DEF Pending
    <3>2. QED  BY <2>1, <2>2, <2>3, <3>1 DEF Waiting, Pending
  <2>9. QED  BY <2>7, <2>8
<1>3. CASE Assign  BY <1>3, AssignKeepsWaiting
<1>4. ASSUME NEW r \in Robots, PickDone(r) \/ ExitDone(r) \/ ServiceDone(r)
      PROVE  Waiting' /\ ListsAwaitOrders'
  <2> DEFINE o == chain[r].order
             p == chain[r].pod
  <2>1. /\ Advance(r, "pick", "deliver") \/ Advance(r, "deliver", "exit")
               \/ Advance(r, "exit", "return")
        /\ UNCHANGED <<status, list, policy>>
    BY <1>4 DEF PickDone, ExitDone, ServiceDone, orderVars
  <2>2. r \in Busy /\ \A q \in Orders : UnderWay(q)' = UnderWay(q)
    BY <1>1, <2>1, AdvanceFacts DEF ChainStage
  <2>3. o \in Orders /\ p \in UnderWay(o)  BY <1>1, <2>2, BusyTypes DEF UnderWay
  <2>4. /\ delivered' \in {delivered, [delivered EXCEPT ![o] = @ \cup {p}]}
        /\ finished' \in {finished, [finished EXCEPT ![o] = @ \cup {p}]}
    BY <1>4 DEF PickDone, ExitDone, ServiceDone
  <2>5. \A q \in Orders : /\ delivered'[q] \subseteq delivered[q] \cup UnderWay(q)
                          /\ finished'[q] \subseteq finished[q] \cup UnderWay(q)
    BY <1>1, <2>3, <2>4 DEF LedgerTypes
  <2>6. \A q \in Orders :
            Fulfilled(q)' \cup UnderWay(q)' \subseteq Fulfilled(q) \cup UnderWay(q)
    BY <2>2, <2>5 DEF Fulfilled
  <2>7. QED  BY <2>1, <2>6, NoPodTurnsUp
<1>5. ASSUME NEW r \in Robots, ReturnDone(r) PROVE Waiting' /\ ListsAwaitOrders'
  <2>1. chain' = [chain EXCEPT ![r] = Nothing] /\ UNCHANGED <<status, list, policy, delivered, finished>>
    BY <1>5 DEF ReturnDone, orderVars
  <2>2. \A q \in Busy' : q \in Busy /\ chain'[q] = chain[q]
    BY <1>1, <2>1 DEF Busy, LedgerTypes
  <2>3. \A o \in Orders : UnderWay(o)' \subseteq UnderWay(o) /\ Fulfilled(o)' = Fulfilled(o)
    BY <2>1, <2>2 DEF UnderWay, Fulfilled
  <2>4. QED  BY <2>1, <2>3, NoPodTurnsUp
<1>6. CASE CheckOrders
  <2>1. /\ status' = [o \in Orders |->
                        IF o \notin Settled THEN status[o]
                        ELSE IF FullyDelivered(o) THEN "completed" ELSE "pending"]
        /\ list' = [o \in Orders |->
                        IF o \in Settled /\ ~FullyDelivered(o) THEN <<>> ELSE list[o]]
        /\ UNCHANGED <<policy, chain, delivered, finished>>
    BY <1>6 DEF CheckOrders
  <2>2. KeepsLists' = KeepsLists  BY <2>1, SamePolicy
  <2>3. \A q \in Orders : UnderWay(q)' = UnderWay(q) /\ Fulfilled(q)' = Fulfilled(q)
    BY <2>1 DEF UnderWay, Busy, Fulfilled
  <2>4. ASSUME NEW o \in Orders, status'[o] = "pending", list'[o] # <<>>
        PROVE  o \in Pending /\ list'[o] = list[o]
    BY <2>1, <2>4 DEF Pending
  <2>5. Waiting'  BY <2>2, <2>3, <2>4 DEF Waiting, Pending
  <2>6. ASSUME NEW o \in Orders, status'[o] = "absent" PROVE list'[o] = <<>>
    BY <2>1, <2>6 DEF ListsAwaitOrders
  <2>7. QED  BY <2>5, <2>6 DEF ListsAwaitOrders
<1>7. CASE UNCHANGED vars
  <2>1. UNCHANGED <<status, list, policy, chain, delivered, finished>>
    BY <1>7 DEF vars, orderVars
  <2>2. \A q \in Orders : UnderWay(q)' = UnderWay(q) /\ Fulfilled(q)' = Fulfilled(q)
    BY <2>1 DEF UnderWay, Busy, Fulfilled
  <2>3. QED  BY <2>1, <2>2, NoPodTurnsUp
<1>8. QED  BY <1>2, <1>3, <1>4, <1>5, <1>6, <1>7 DEF Next, Act

(* No pending order is left with a list of which nothing is to be sent: the *)
(* assigner would pass over it for ever and its list would never be cleared.*)
THEOREM NoneStranded == Spec => []NoOrderStranded
<1>1. Init => Waiting /\ ListsAwaitOrders
  BY DEF Init, Waiting, ListsAwaitOrders, Pending
<1>2. IndInv /\ ItemTypes /\ Waiting /\ ListsAwaitOrders /\ [Next]_vars
          => Waiting' /\ ListsAwaitOrders'
  BY StepKeepsWaiting
<1>3. Waiting => NoOrderStranded
  <2> SUFFICES ASSUME Waiting, KeepsLists, NEW o \in Pending, list[o] # <<>>
               PROVE  ~(Range(list[o]) \subseteq Fulfilled(o) \cup UnderWay(o))
    BY DEF NoOrderStranded
  <2>1. QED  BY DEF Waiting
<1>4. QED  BY <1>1, <1>2, <1>3, Inductive, ItemTypesHold, PTL DEF Spec

=============================================================================
