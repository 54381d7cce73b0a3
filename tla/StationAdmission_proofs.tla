----------------------- MODULE StationAdmission_proofs -----------------------
(***************************************************************************)
(* Machine-checked theorems about StationAdmission, for any finite set of  *)
(* robots, any capacity and each of the three contracts.                   *)
(***************************************************************************)
EXTENDS StationAdmission, FiniteSetTheorems, SequenceTheorems, TLAPS

(* The robots that have been granted a token and not given it back.         *)
Visiting == {"travelling", "arrived", "queuing", "delivering", "exiting"}

(* What the slots contribute to the induction: everybody in a slot is a     *)
(* visitor of the station, so the slots never add to the committed load.    *)
SlotsHoldVisitors ==
    \A c \in Cells : slot[c] # Nobody => stage[slot[c]] \in {"queuing", "delivering", "exiting"}

(* The planning scan has only robots before it whose DELIVER awaits a token: *)
(* a rollback never takes back a token from a robot that is on its way.     *)
ScanAwaitsTokens ==
    step = "plan" => \A r \in todo : stage[r] \in {"waiting", "ready"}

(* The inductive invariant.                                                 *)
IndInv == /\ TypeOK
          /\ TokensMatchStages
          /\ WaitersMatchStages
          /\ SlotsHoldVisitors
          /\ ScanAwaitsTokens
          /\ CommittedWithinCapacity

-----------------------------------------------------------------------------
(* Sequences without repetitions: what appending and taking the tail do.    *)
Distinct(q) == \A i, j \in DOMAIN q : q[i] = q[j] => i = j

(* Appending a new robot keeps the list duplicate-free and adds only it.    *)
LEMMA AppendDistinct ==
    ASSUME NEW S, NEW q \in Seq(S), NEW r \in S, Distinct(q), r \notin Range(q)
    PROVE  /\ Append(q, r) \in Seq(S)
           /\ Range(Append(q, r)) = Range(q) \cup {r}
           /\ Distinct(Append(q, r))
<1>1. /\ Append(q, r) \in Seq(S)
      /\ Len(Append(q, r)) = Len(q) + 1
      /\ Append(q, r)[Len(q) + 1] = r
      /\ \A i \in 1 .. Len(q) : Append(q, r)[i] = q[i]
  BY AppendProperties
<1>2. /\ DOMAIN q = 1 .. Len(q)
      /\ DOMAIN Append(q, r) = 1 .. Len(q) + 1
      /\ Len(q) \in Nat
  BY <1>1, LenProperties
<1>3. Range(Append(q, r)) = Range(q) \cup {r}
  <2>1. ASSUME NEW x \in Range(Append(q, r)) PROVE x \in Range(q) \cup {r}
    <3>1. PICK i \in 1 .. Len(q) + 1 : x = Append(q, r)[i]  BY <1>2 DEF Range
    <3>2. CASE i = Len(q) + 1  BY <3>1, <3>2, <1>1
    <3>3. CASE i \in 1 .. Len(q)
      <4>1. x = q[i]  BY <3>1, <3>3, <1>1
      <4>2. QED  BY <4>1, <3>3, <1>2 DEF Range
    <3>4. QED  BY <3>2, <3>3, <1>2
  <2>2. ASSUME NEW x \in Range(q) PROVE x \in Range(Append(q, r))
    <3>1. PICK i \in 1 .. Len(q) : x = q[i]  BY <1>2 DEF Range
    <3>2. i \in 1 .. Len(q) + 1 /\ x = Append(q, r)[i]  BY <3>1, <1>1, <1>2
    <3>3. QED  BY <3>2, <1>2 DEF Range
  <2>3. r \in Range(Append(q, r))
    <3>1. Len(q) + 1 \in 1 .. Len(q) + 1  BY <1>2
    <3>2. QED  BY <3>1, <1>1, <1>2 DEF Range
  <2>4. QED  BY <2>1, <2>2, <2>3
<1>4. Distinct(Append(q, r))
  <2>1. SUFFICES ASSUME NEW i \in 1 .. Len(q) + 1, NEW j \in 1 .. Len(q) + 1,
                        Append(q, r)[i] = Append(q, r)[j]
                 PROVE  i = j
    BY <1>2 DEF Distinct
  <2>2. \A k \in 1 .. Len(q) : q[k] # r  BY <1>2 DEF Range
  <2>3. CASE i \in 1 .. Len(q) /\ j \in 1 .. Len(q)
    BY <2>1, <2>3, <1>1, <1>2 DEF Distinct
  <2>4. CASE i = Len(q) + 1 \/ j = Len(q) + 1
    BY <2>1, <2>2, <2>4, <1>1, <1>2
  <2>5. QED  BY <2>3, <2>4, <1>2
<1>5. QED  BY <1>1, <1>3, <1>4

(* Taking the tail of a duplicate-free list removes exactly its head.       *)
LEMMA TailDistinct ==
    ASSUME NEW S, NEW q \in Seq(S), q # <<>>, Distinct(q)
    PROVE  /\ Head(q) \in S
           /\ Head(q) \in Range(q)
           /\ Tail(q) \in Seq(S)
           /\ Range(Tail(q)) = Range(q) \ {Head(q)}
           /\ Distinct(Tail(q))
<1>1. /\ Head(q) \in S /\ Head(q) = q[1]
      /\ Tail(q) \in Seq(S)
      /\ Len(Tail(q)) = Len(q) - 1
      /\ \A i \in 1 .. Len(Tail(q)) : Tail(q)[i] = q[i + 1]
      /\ Len(q) \in Nat /\ Len(q) >= 1
      /\ DOMAIN q = 1 .. Len(q)
      /\ DOMAIN Tail(q) = 1 .. Len(q) - 1
  BY HeadTailProperties, LenProperties, EmptySeq
<1>2. Head(q) \in Range(q)  BY <1>1 DEF Range
<1>3. Range(Tail(q)) = Range(q) \ {Head(q)}
  <2>1. ASSUME NEW x \in Range(Tail(q)) PROVE x \in Range(q) \ {Head(q)}
    <3>1. PICK i \in 1 .. Len(q) - 1 : x = q[i + 1]  BY <1>1 DEF Range
    <3>2. i + 1 \in DOMAIN q /\ 1 \in DOMAIN q /\ i + 1 # 1  BY <3>1, <1>1
    <3>3. QED  BY <3>1, <3>2, <1>1 DEF Range, Distinct
  <2>2. ASSUME NEW x \in Range(q), x # Head(q) PROVE x \in Range(Tail(q))
    <3>1. PICK i \in 1 .. Len(q) : x = q[i]  BY <1>1 DEF Range
    <3>2. i # 1  BY <3>1, <2>2, <1>1
    <3>3. i - 1 \in 1 .. Len(q) - 1  BY <3>1, <3>2, <1>1
    <3>4. (i - 1) + 1 = i  BY <3>1
    <3>5. Tail(q)[i - 1] = q[i]  BY <3>3, <3>4, <1>1
    <3>6. QED  BY <3>1, <3>3, <3>5, <1>1 DEF Range
  <2>3. QED  BY <2>1, <2>2
<1>4. Distinct(Tail(q))
  <2>1. SUFFICES ASSUME NEW i \in 1 .. Len(q) - 1, NEW j \in 1 .. Len(q) - 1,
                        q[i + 1] = q[j + 1]
                 PROVE  i = j
    BY <1>1 DEF Distinct
  <2>2. i + 1 \in DOMAIN q /\ j + 1 \in DOMAIN q  BY <1>1
  <2>3. i + 1 = j + 1  BY <2>1, <2>2 DEF Distinct
  <2>4. QED  BY <2>3
<1>5. QED  BY <1>1, <1>2, <1>3, <1>4

-----------------------------------------------------------------------------
(* Only visitors sit in slots and every visitor has a token, so the         *)
(* committed robots are the token holders.                                  *)
LEMMA CommittedAreAssigned ==
    ASSUME TypeOK, TokensMatchStages, SlotsHoldVisitors
    PROVE  CommittedRobots = assigned
<1>1. Physical \subseteq assigned
  <2>1. SUFFICES ASSUME NEW c \in Cells, slot[c] # Nobody PROVE slot[c] \in assigned
    BY DEF Physical
  <2>2. slot[c] \in Robots  BY <2>1 DEF TypeOK
  <2>3. stage[slot[c]] \in {"queuing", "delivering", "exiting"}
    BY <2>1 DEF SlotsHoldVisitors
  <2>4. QED  BY <2>2, <2>3 DEF TokensMatchStages
<1>2. QED  BY <1>1 DEF CommittedRobots

LEMMA CommittedAreAssignedPrime ==
    ASSUME TypeOK', TokensMatchStages', SlotsHoldVisitors'
    PROVE  CommittedRobots' = assigned'
<1>1. Physical' \subseteq assigned'
  <2>1. SUFFICES ASSUME NEW c \in Cells, slot'[c] # Nobody PROVE slot'[c] \in assigned'
    BY DEF Physical
  <2>2. slot'[c] \in Robots  BY <2>1 DEF TypeOK
  <2>3. stage'[slot'[c]] \in {"queuing", "delivering", "exiting"}
    BY <2>1 DEF SlotsHoldVisitors
  <2>4. QED  BY <2>2, <2>3 DEF TokensMatchStages
<1>2. QED  BY <1>1 DEF CommittedRobots

(* Giving tokens back keeps the committed load within capacity.             *)
LEMMA FewerTokens ==
    ASSUME IndInv, TypeOK', TokensMatchStages', SlotsHoldVisitors', assigned' \subseteq assigned,
           mode' = mode
    PROVE  CommittedWithinCapacity'
<1>1. CommittedRobots = assigned /\ CommittedRobots' = assigned'
  BY CommittedAreAssigned, CommittedAreAssignedPrime DEF IndInv
<1>2. IsFiniteSet(assigned)
  BY RobotsAssumption, FS_Subset DEF IndInv, TypeOK
<1>3. Cardinality(assigned') <= Cardinality(assigned)
  BY <1>2, FS_Subset
<1>4. Cardinality(assigned') \in Nat /\ Cardinality(assigned) \in Nat
  BY <1>2, FS_Subset, FS_CardinalityType
<1>5. QED
  BY <1>1, <1>3, <1>4, CapacityAssumption DEF IndInv, CommittedWithinCapacity

(* One more token is within capacity if there was room for it.              *)
LEMMA OneMoreToken ==
    ASSUME IndInv, TypeOK', TokensMatchStages', SlotsHoldVisitors',
           NEW r \in Robots, assigned' = assigned \cup {r}, mode' = mode,
           mode # Legacy => r \in assigned \/ Cardinality(CommittedRobots) < Capacity
    PROVE  CommittedWithinCapacity'
<1>1. CommittedRobots = assigned /\ CommittedRobots' = assigned'
  BY CommittedAreAssigned, CommittedAreAssignedPrime DEF IndInv
<1>2. IsFiniteSet(assigned)
  BY RobotsAssumption, FS_Subset DEF IndInv, TypeOK
<1>3. Cardinality(assigned) \in Nat  BY <1>2, FS_CardinalityType
<1>4. CASE r \in assigned
  <2>1. assigned' = assigned  BY <1>4
  <2>2. QED  BY <2>1, <1>1 DEF IndInv, CommittedWithinCapacity
<1>5. CASE r \notin assigned
  <2>1. Cardinality(assigned') = Cardinality(assigned) + 1
    BY <1>2, <1>5, FS_AddElement
  <2>2. QED
    BY <2>1, <1>1, <1>3, <1>5, CapacityAssumption DEF CommittedWithinCapacity
<1>6. QED  BY <1>4, <1>5

-----------------------------------------------------------------------------
LEMMA InitInv == Init => IndInv
<1> SUFFICES ASSUME Init PROVE IndInv
  OBVIOUS
<1>1. TypeOK
  <2>1. waiting \in Seq(Robots)  BY EmptySeq DEF Init, EmptyStation
  <2>2. stage \in [Robots -> Stage] /\ slot \in [Cells -> Robots \cup {Nobody}]
    BY DEF Init, EmptyStation, Stage
  <2>3. QED  BY <2>1, <2>2 DEF Init, EmptyStation, TypeOK, EntryTraffic
<1>2. TokensMatchStages  BY DEF Init, EmptyStation, TokensMatchStages
<1>3. WaitersMatchStages  BY DEF Init, EmptyStation, WaitersMatchStages, Waiters, Range
<1>4. SlotsHoldVisitors  BY DEF Init, EmptyStation, SlotsHoldVisitors
<1>7. ScanAwaitsTokens  BY DEF Init, EmptyStation, ScanAwaitsTokens
<1>5. CommittedWithinCapacity
  <2>1. CommittedRobots = {}  BY CommittedAreAssigned, <1>1, <1>2, <1>4 DEF Init, EmptyStation
  <2>2. QED  BY <2>1, FS_EmptySet, CapacityAssumption DEF CommittedWithinCapacity
<1>6. QED  BY <1>1, <1>2, <1>3, <1>4, <1>5, <1>7 DEF IndInv

LEMMA CascadeInv == IndInv /\ Cascade => IndInv'
<1> SUFFICES ASSUME IndInv, Cascade PROVE IndInv'
  OBVIOUS
<1> DEFINE Queuing == {r \in Robots : stage[r] = "queuing"}
           Serving == {c \in Cells : slot[c] \notin Queuing \cup {Nobody}}
<1>1. PICK place \in [Queuing -> 0 .. Capacity] :
        /\ slot' = [c \in Cells |-> IF \E r \in Queuing : place[r] = c
                                    THEN CHOOSE r \in Queuing : place[r] = c
                                    ELSE IF c \in Serving THEN slot[c] ELSE Nobody]
        /\ stage' = [r \in Robots |-> IF r \in Queuing /\ place[r] = 0
                                      THEN "delivering" ELSE stage[r]]
        /\ step' = "exits"
        /\ UNCHANGED <<todo, assigned, waiting, atEntry, atExit, mode>>
  BY DEF Cascade, CascadeTo
<1>3. \A c \in Cells : \/ slot'[c] = Nobody
                       \/ /\ slot'[c] \in Robots
                          /\ stage[slot'[c]] \in {"queuing", "delivering", "exiting"}
  <2>1. TAKE c \in Cells
  <2>2. CASE \E r \in Queuing : place[r] = c
    <3>1. slot'[c] \in Queuing  BY <1>1, <2>2
    <3>2. QED  BY <3>1
  <2>3. CASE ~\E r \in Queuing : place[r] = c
    <3>1. slot'[c] = slot[c] \/ slot'[c] = Nobody  BY <1>1, <2>3
    <3>2. QED  BY <3>1 DEF IndInv, TypeOK, SlotsHoldVisitors
  <2>4. QED  BY <2>2, <2>3
<1>4. slot' \in [Cells -> Robots \cup {Nobody}]
  <2>1. slot' = [c \in Cells |-> slot'[c]]  BY <1>1
  <2>2. QED  BY <2>1, <1>3
<1>5. TypeOK'  BY <1>1, <1>4 DEF IndInv, TypeOK, Stage
<1>6. TokensMatchStages'
  BY <1>1 DEF IndInv, TypeOK, TokensMatchStages
<1>7. WaitersMatchStages'
  BY <1>1 DEF IndInv, TypeOK, WaitersMatchStages, Waiters
<1>8. SlotsHoldVisitors'
  BY <1>1, <1>3 DEF SlotsHoldVisitors
<1>9. ScanAwaitsTokens'  BY <1>1 DEF ScanAwaitsTokens
<1>10. QED  BY <1>1, <1>5, <1>6, <1>7, <1>8, <1>9, FewerTokens DEF IndInv

LEMMA ProcessExitsInv == IndInv /\ ProcessExits => IndInv'
<1> SUFFICES ASSUME IndInv, ProcessExits PROVE IndInv'
  OBVIOUS
<1>1. PICK out \in SUBSET {r \in Robots : stage[r] = "exiting"} :
        /\ stage' = [r \in Robots |-> IF stage[r] = "exited" THEN "leaving"
                                      ELSE IF r \in out THEN "exited" ELSE stage[r]]
        /\ slot' = [c \in Cells |-> IF slot[c] \in out THEN Nobody ELSE slot[c]]
        /\ assigned' = assigned \ out
        /\ waiting' = Without(waiting, out)
        /\ step' = "absorb"
        /\ UNCHANGED <<todo, atEntry, atExit, mode>>
  BY DEF ProcessExits
<1>2. \A r \in Robots : stage'[r] = IF stage[r] = "exited" THEN "leaving"
                                    ELSE IF r \in out THEN "exited" ELSE stage[r]
  BY <1>1
<1>3. waiting' = waiting
  <2>1. Range(waiting) \cap out = {}
    BY DEF IndInv, WaitersMatchStages, Waiters
  <2>2. QED  BY <1>1, <2>1 DEF Without
<1>4. TypeOK'
  <2>1. stage' \in [Robots -> Stage]
    <3>1. \A r \in Robots : stage'[r] \in Stage  BY <1>2 DEF IndInv, TypeOK, Stage
    <3>2. QED  BY <1>1, <3>1
  <2>2. slot' \in [Cells -> Robots \cup {Nobody}]  BY <1>1 DEF IndInv, TypeOK
  <2>3. QED  BY <1>1, <1>3, <2>1, <2>2 DEF IndInv, TypeOK
<1>5. TokensMatchStages'
  BY <1>1, <1>2 DEF IndInv, TypeOK, TokensMatchStages
<1>6. WaitersMatchStages'
  BY <1>2, <1>3 DEF IndInv, TypeOK, WaitersMatchStages, Waiters
<1>7. SlotsHoldVisitors'
  <2>1. SUFFICES ASSUME NEW c \in Cells, slot'[c] # Nobody
                 PROVE  stage'[slot'[c]] \in {"queuing", "delivering", "exiting"}
    BY DEF SlotsHoldVisitors
  <2>2. slot'[c] = slot[c] /\ slot[c] \notin out /\ slot[c] \in Robots
    BY <1>1, <2>1 DEF IndInv, TypeOK
  <2>3. stage[slot[c]] \in {"queuing", "delivering", "exiting"}
    BY <2>1, <2>2 DEF IndInv, SlotsHoldVisitors
  <2>4. QED  BY <1>2, <2>2, <2>3
<1>8. ScanAwaitsTokens'  BY <1>1 DEF ScanAwaitsTokens
<1>9. QED  BY <1>1, <1>4, <1>5, <1>6, <1>7, <1>8, FewerTokens DEF IndInv

-----------------------------------------------------------------------------
(* Steps that leave the slots alone keep them holding visitors as long as   *)
(* the robots in the slots stay visitors.                                   *)
LEMMA SameSlots ==
    ASSUME IndInv, slot' = slot,
           \A r \in Robots : stage[r] \in {"queuing", "delivering", "exiting"} =>
                               stage'[r] \in {"queuing", "delivering", "exiting"}
    PROVE  SlotsHoldVisitors'
<1> SUFFICES ASSUME NEW c \in Cells, slot'[c] # Nobody
             PROVE  stage'[slot'[c]] \in {"queuing", "delivering", "exiting"}
  BY DEF SlotsHoldVisitors
<1>1. slot[c] \in Robots /\ slot[c] # Nobody  BY DEF IndInv, TypeOK
<1>2. stage[slot[c]] \in {"queuing", "delivering", "exiting"}
  BY <1>1 DEF IndInv, SlotsHoldVisitors
<1>3. QED  BY <1>1, <1>2

(* The waiting list as the lemmas on sequences see it.                      *)
LEMMA WaitingList ==
    ASSUME IndInv
    PROVE  /\ waiting \in Seq(Robots)
           /\ Distinct(waiting)
           /\ Range(waiting) = {r \in Robots : stage[r] = "waiting"}
BY DEF IndInv, TypeOK, WaitersMatchStages, Waiters, Distinct

(* A robot whose DELIVER awaits a token has none.                           *)
LEMMA AwaitingHasNoToken ==
    ASSUME IndInv, NEW r \in Robots, stage[r] \in {"waiting", "ready"}
    PROVE  r \notin CommittedRobots
<1>1. CommittedRobots = assigned  BY CommittedAreAssigned DEF IndInv
<1>2. QED  BY <1>1 DEF IndInv, TokensMatchStages

(* A check-in that finds the robot's token in the ledger changes nothing    *)
(* but the robot's status.                                                  *)
LEMMA CheckInInv ==
    ASSUME NEW here, NEW next, IndInv, CheckQueueArrivals(here, next),
           next \in {"prune", "act"}
    PROVE  IndInv'
<1>1. UNCHANGED <<todo, slot, assigned, waiting, atEntry, atExit, mode>> /\ step' = next
      /\ \/ stage' = stage
         \/ \E r \in Robots : stage[r] = "arrived" /\ stage' = [stage EXCEPT ![r] = "queuing"]
  <2>1. CASE \E r \in Robots : CheckIn(r, next)
    <3>1. PICK r \in Robots : CheckIn(r, next)  BY <2>1
    <3>2. r \in assigned /\ r \in CommittedRobots
      BY <3>1 DEF CheckIn, IndInv, TokensMatchStages, CommittedRobots
    <3>3. waiting' = waiting /\ assigned' = assigned
      BY <3>1, <3>2 DEF CheckIn
    <3>4. stage[r] = "arrived" /\ step' = next
          /\ (stage' = stage \/ stage' = [stage EXCEPT ![r] = "queuing"])
      BY <3>1 DEF CheckIn
    <3>5. QED  BY <3>3, <3>4 DEF CheckQueueArrivals
  <2>2. CASE UNCHANGED <<stage, assigned, waiting>>
    BY <2>2 DEF CheckQueueArrivals, CheckIn
  <2>3. QED  BY <2>1, <2>2 DEF CheckQueueArrivals
<1>2. TypeOK'  BY <1>1 DEF IndInv, TypeOK, Stage
<1>3. TokensMatchStages'  BY <1>1 DEF IndInv, TypeOK, TokensMatchStages
<1>4. WaitersMatchStages'
  BY <1>1 DEF IndInv, TypeOK, WaitersMatchStages, Waiters
<1>5. SlotsHoldVisitors'
  <2>1. \A r \in Robots : stage'[r] = stage[r] \/ stage'[r] = "queuing"
    BY <1>1 DEF IndInv, TypeOK
  <2>2. QED  BY <1>1, <2>1, SameSlots
<1>6. ScanAwaitsTokens'  BY <1>1 DEF ScanAwaitsTokens
<1>7. QED  BY <1>1, <1>2, <1>3, <1>4, <1>5, <1>6, FewerTokens DEF IndInv

LEMMA PruneInv == IndInv /\ PruneWaiting => IndInv'
<1> SUFFICES ASSUME IndInv, PruneWaiting PROVE IndInv'
  OBVIOUS
<1>1. waiting' = waiting
  <2>1. Range(waiting) \cap {r \in Robots : stage[r] # "waiting"} = {}
    BY WaitingList
  <2>2. QED  BY <2>1 DEF PruneWaiting, Without
<1>2. /\ UNCHANGED <<stage, slot, assigned, waiting, atEntry, atExit, mode>>
      /\ step' = "plan"
      /\ todo' = {r \in Robots : stage[r] \in {"waiting", "ready"}}
  BY <1>1 DEF PruneWaiting
<1>3. TypeOK' /\ ScanAwaitsTokens'  BY <1>2 DEF IndInv, TypeOK, ScanAwaitsTokens
<1>4. TokensMatchStages' /\ SlotsHoldVisitors'
  BY <1>2 DEF IndInv, TokensMatchStages, SlotsHoldVisitors
<1>5. WaitersMatchStages'  BY <1>2 DEF IndInv, WaitersMatchStages, Waiters
<1>6. QED  BY <1>2, <1>3, <1>4, <1>5, FewerTokens DEF IndInv

-----------------------------------------------------------------------------
(* What the scan of _plan_and_activate knows of the robot it considers.     *)
LEMMA ConsideredFacts ==
    ASSUME IndInv, NEW r \in Robots, Considered(r)
    PROVE  /\ stage[r] \in {"waiting", "ready"}
           /\ r \notin CommittedRobots
           /\ r \notin assigned
           /\ todo' = todo \ {r}
           /\ UNCHANGED <<step, slot, atEntry, atExit, mode>>
           /\ mode # Fifo => stage[r] = "ready"
<1>1. stage[r] \in {"waiting", "ready"}
  BY DEF Considered, IsNext, IndInv, ScanAwaitsTokens
<1>2. r \notin CommittedRobots  BY <1>1, AwaitingHasNoToken
<1>3. mode # Fifo => stage[r] = "ready"
  BY <1>1 DEF Considered, CanPromote, UsesExplicitWaiting
<1>4. QED  BY <1>1, <1>2, <1>3 DEF Considered, CommittedRobots

(* A robot that takes the token leaves the waiting list, if it was in it.   *)
LEMMA GrantedLeavesList ==
    ASSUME IndInv, NEW r \in Robots, Considered(r), ReserveGrants(r)
    PROVE  /\ WaitingAfterReserve(r) \in Seq(Robots)
           /\ Distinct(WaitingAfterReserve(r))
           /\ Range(WaitingAfterReserve(r)) = Range(waiting) \ {r}
<1>1. r \notin CommittedRobots /\ (mode # Fifo => stage[r] = "ready")
  BY ConsideredFacts
<1>2. CASE mode = Fifo /\ waiting # <<>>
  <2>1. Head(waiting) = r  BY <1>1, <1>2 DEF ReserveGrants, MustQueue, NextInLine
  <2>2. WaitingAfterReserve(r) = Tail(waiting)
    BY <1>1, <1>2 DEF WaitingAfterReserve
  <2>3. QED  BY <2>1, <2>2, <1>2, WaitingList, TailDistinct
<1>3. CASE ~(mode = Fifo /\ waiting # <<>>)
  <2>1. WaitingAfterReserve(r) = waiting
    BY <1>1, <1>3 DEF WaitingAfterReserve
  <2>2. r \notin Range(waiting)
    <3>1. CASE waiting = <<>>  BY <3>1, EmptySeq, LenProperties DEF Range
    <3>2. CASE mode # Fifo  BY <3>2, <1>1, WaitingList
    <3>3. QED  BY <3>1, <3>2, <1>3
  <2>3. QED  BY <2>1, <2>2, WaitingList
<1>4. QED  BY <1>2, <1>3

(* Being put at the end of the list twice is being put there once.          *)
LEMMA EnqueuedDistinct ==
    ASSUME NEW q \in Seq(Robots), Distinct(q), NEW r \in Robots
    PROVE  /\ Enqueued(q, r) \in Seq(Robots)
           /\ Range(Enqueued(q, r)) = Range(q) \cup {r}
           /\ Distinct(Enqueued(q, r))
<1>1. CASE r \in Range(q)  BY <1>1 DEF Enqueued
<1>2. CASE r \notin Range(q)  BY <1>2, AppendDistinct DEF Enqueued
<1>3. QED  BY <1>1, <1>2

LEMMA SkipInv == ASSUME NEW r \in Robots, IndInv, ActivateSkip(r) PROVE IndInv'
<1>1. UNCHANGED <<step, stage, slot, assigned, waiting, atEntry, atExit, mode>>
      /\ todo' = todo \ {r}
  BY DEF ActivateSkip
<1>2. TypeOK' /\ ScanAwaitsTokens'  BY <1>1 DEF IndInv, TypeOK, ScanAwaitsTokens
<1>3. TokensMatchStages' /\ SlotsHoldVisitors'
  BY <1>1 DEF IndInv, TokensMatchStages, SlotsHoldVisitors
<1>4. WaitersMatchStages'  BY <1>1 DEF IndInv, WaitersMatchStages, Waiters
<1>5. QED  BY <1>1, <1>2, <1>3, <1>4, FewerTokens DEF IndInv

(* A step of the scan that moves robot r to status st and leaves the list   *)
(* and the ledger as that status demands keeps the invariant, but for the   *)
(* bound on the load.                                                       *)
LEMMA ScanStep ==
    ASSUME IndInv, NEW r \in Robots, Considered(r),
           NEW st \in {"waiting", "ready", "travelling"},
           stage' = [stage EXCEPT ![r] = st],
           waiting' \in Seq(Robots), Distinct(waiting'),
           Range(waiting') = IF st = "waiting" THEN Range(waiting) \cup {r}
                                               ELSE Range(waiting) \ {r},
           assigned' = IF st = "travelling" THEN assigned \cup {r} ELSE assigned
    PROVE  /\ TypeOK' /\ TokensMatchStages' /\ WaitersMatchStages'
           /\ SlotsHoldVisitors' /\ ScanAwaitsTokens'
<1>1. /\ stage[r] \in {"waiting", "ready"} /\ r \notin assigned
      /\ todo' = todo \ {r} /\ UNCHANGED <<step, slot, atEntry, atExit, mode>>
  BY ConsideredFacts
<1>2. stage \in [Robots -> Stage] /\ stage' \in [Robots -> Stage]
      /\ stage'[r] = st /\ \A s \in Robots \ {r} : stage'[s] = stage[s]
  BY DEF IndInv, TypeOK, Stage
<1>3. TypeOK'  BY <1>1, <1>2 DEF IndInv, TypeOK
<1>4. TokensMatchStages'
  <2>1. CASE st = "travelling"  BY <2>1, <1>2 DEF IndInv, TokensMatchStages
  <2>2. CASE st # "travelling"  BY <2>2, <1>1, <1>2 DEF IndInv, TokensMatchStages
  <2>3. QED  BY <2>1, <2>2
<1>5. WaitersMatchStages'
  <2>1. Range(waiting) = {s \in Robots : stage[s] = "waiting"}  BY WaitingList
  <2>2. Range(waiting') = {s \in Robots : stage'[s] = "waiting"}
    <3>1. CASE st = "waiting"  BY <3>1, <2>1, <1>2
    <3>2. CASE st # "waiting"  BY <3>2, <2>1, <1>2
    <3>3. QED  BY <3>1, <3>2
  <2>3. QED  BY <2>2 DEF WaitersMatchStages, Waiters, Distinct
<1>6. SlotsHoldVisitors'  BY <1>1, <1>2, SameSlots
<1>7. ScanAwaitsTokens'  BY <1>1, <1>2 DEF IndInv, ScanAwaitsTokens
<1>8. QED  BY <1>3, <1>4, <1>5, <1>6, <1>7

LEMMA GrantedInv == ASSUME NEW r \in Robots, IndInv, ActivateGranted(r) PROVE IndInv'
<1>1. /\ Considered(r) /\ ReserveGrants(r)
      /\ waiting' = WaitingAfterReserve(r)
      /\ assigned' = assigned \cup {r}
      /\ stage' = [stage EXCEPT ![r] = "travelling"]
  BY DEF ActivateGranted
<1>2. /\ TypeOK' /\ TokensMatchStages' /\ WaitersMatchStages'
      /\ SlotsHoldVisitors' /\ ScanAwaitsTokens'
  BY <1>1, GrantedLeavesList, ScanStep
<1>3. mode # Legacy => Cardinality(CommittedRobots) < Capacity
  BY <1>1, ConsideredFacts DEF ReserveGrants, Load
<1>4. CommittedWithinCapacity'  BY <1>1, <1>2, <1>3, ConsideredFacts, OneMoreToken
<1>5. QED  BY <1>2, <1>4 DEF IndInv

LEMMA RejectedInv == ASSUME NEW r \in Robots, IndInv, ActivateRejected(r) PROVE IndInv'
<1>1. /\ Considered(r) /\ ~ReserveGrants(r)
      /\ waiting' = WaitingAfterReserve(r) /\ assigned' = assigned
      /\ stage' = IF mode = Fifo THEN [stage EXCEPT ![r] = "waiting"] ELSE stage
  BY DEF ActivateRejected, UsesExplicitWaiting
<1>2. /\ TypeOK' /\ TokensMatchStages' /\ WaitersMatchStages'
      /\ SlotsHoldVisitors' /\ ScanAwaitsTokens'
  <2>1. CASE mode = Fifo
    <3>1. waiting' = Enqueued(waiting, r)
      BY <1>1, <2>1, ConsideredFacts DEF WaitingAfterReserve
    <3>2. QED  BY <3>1, <1>1, <2>1, WaitingList, EnqueuedDistinct, ScanStep
  <2>2. CASE mode # Fifo
    <3>1. waiting' = waiting /\ stage' = stage /\ stage[r] = "ready"
      BY <1>1, <2>2, ConsideredFacts DEF WaitingAfterReserve
    <3>2. stage' = [stage EXCEPT ![r] = "ready"]  BY <3>1 DEF IndInv, TypeOK
    <3>3. r \notin Range(waiting)  BY <3>1, WaitingList
    <3>4. QED  BY <3>1, <3>2, <3>3, <1>1, WaitingList, ScanStep
  <2>3. QED  BY <2>1, <2>2
<1>3. QED  BY <1>1, <1>2, ConsideredFacts, FewerTokens DEF IndInv

LEMMA RolledBackInv == ASSUME NEW r \in Robots, IndInv, ActivateRolledBack(r) PROVE IndInv'
<1> DEFINE Rest == WaitingAfterReserve(r)
<1>1. /\ Considered(r) /\ ReserveGrants(r)
      /\ stage' = IF mode = Fifo THEN [stage EXCEPT ![r] = "waiting"] ELSE stage
  BY DEF ActivateRolledBack, UsesExplicitWaiting
<1>2. /\ Rest \in Seq(Robots) /\ Distinct(Rest)
      /\ Range(Rest) = Range(waiting) \ {r}
  BY <1>1, GrantedLeavesList
<1>3. waiting' = IF mode = Fifo THEN Append(Rest, r) ELSE Rest
  <2>1. Without(Rest, {r}) = Rest  BY <1>2 DEF Without
  <2>2. QED  BY <2>1 DEF ActivateRolledBack, UsesExplicitWaiting
<1>4. assigned' = assigned
  <2>1. r \notin Physical /\ r \notin assigned
    BY <1>1, ConsideredFacts DEF CommittedRobots
  <2>2. QED  BY <2>1 DEF ActivateRolledBack
<1>5. /\ TypeOK' /\ TokensMatchStages' /\ WaitersMatchStages'
      /\ SlotsHoldVisitors' /\ ScanAwaitsTokens'
  <2>1. CASE mode = Fifo
    <3>1. /\ waiting' \in Seq(Robots) /\ Distinct(waiting')
          /\ Range(waiting') = Range(waiting) \cup {r}
      BY <1>2, <1>3, <2>1, AppendDistinct
    <3>2. QED  BY <3>1, <1>1, <1>4, <2>1, ScanStep
  <2>2. CASE mode # Fifo
    <3>1. stage' = [stage EXCEPT ![r] = "ready"]
      BY <1>1, <2>2, ConsideredFacts DEF IndInv, TypeOK
    <3>2. QED  BY <3>1, <1>1, <1>2, <1>3, <1>4, <2>2, ScanStep
  <2>3. QED  BY <2>1, <2>2
<1>6. QED  BY <1>1, <1>4, <1>5, ConsideredFacts, FewerTokens DEF IndInv

-----------------------------------------------------------------------------
LEMMA MoveInv == IndInv /\ Move => IndInv'
<1> SUFFICES ASSUME IndInv, Move PROVE IndInv'
  OBVIOUS
<1>1. PICK comers \in Comers, goers \in Goers, entry \in EntryTraffic, exit \in BOOLEAN :
        MoveAgents(comers, goers, entry, exit)
  BY DEF Move
<1>2. /\ stage' = [r \in Robots |-> IF r \in comers THEN "arrived"
                                     ELSE IF r \in goers THEN "away" ELSE stage[r]]
      /\ atEntry' = entry /\ atExit' = exit /\ step' = "arrive"
      /\ UNCHANGED <<todo, slot, assigned, waiting, mode>>
  BY <1>1 DEF MoveAgents
<1>3. /\ \A r \in comers : r \in Robots /\ stage[r] = "travelling"
      /\ \A r \in goers : r \in Robots /\ stage[r] = "leaving"
  BY <1>1 DEF Comers, Goers
<1>4. stage' \in [Robots -> Stage]
  <2>1. \A r \in Robots : stage'[r] \in Stage  BY <1>2 DEF IndInv, TypeOK, Stage
  <2>2. QED  BY <1>2, <2>1
<1>5. TypeOK'  BY <1>1, <1>2, <1>4 DEF IndInv, TypeOK
<1>6. TokensMatchStages'  BY <1>2, <1>3 DEF IndInv, TypeOK, TokensMatchStages
<1>7. WaitersMatchStages'
  BY <1>2, <1>3 DEF IndInv, TypeOK, WaitersMatchStages, Waiters
<1>8. SlotsHoldVisitors'  BY <1>2, <1>3, SameSlots
<1>9. ScanAwaitsTokens'  BY <1>2 DEF ScanAwaitsTokens
<1>10. QED  BY <1>2, <1>5, <1>6, <1>7, <1>8, <1>9, FewerTokens DEF IndInv

LEMMA StartActionsInv == IndInv /\ StartActions => IndInv'
<1> SUFFICES ASSUME IndInv, StartActions PROVE IndInv'
  OBVIOUS
<1>1. /\ UNCHANGED <<stage, slot, assigned, waiting, atEntry, atExit, mode>>
      /\ step' = "acting" /\ todo' \subseteq Robots
  BY DEF StartActions
<1>2. TypeOK' /\ ScanAwaitsTokens'  BY <1>1 DEF IndInv, TypeOK, ScanAwaitsTokens
<1>3. TokensMatchStages' /\ SlotsHoldVisitors'
  BY <1>1 DEF IndInv, TokensMatchStages, SlotsHoldVisitors
<1>4. WaitersMatchStages'  BY <1>1 DEF IndInv, WaitersMatchStages, Waiters
<1>5. QED  BY <1>1, <1>2, <1>3, <1>4, FewerTokens DEF IndInv

(* The steps of the action scan give no token and take none.                *)
LEMMA ActionInv ==
    ASSUME NEW r \in Robots, IndInv, PickDone(r) \/ ServiceDone(r) \/ NothingDone(r)
    PROVE  IndInv'
<1>1. /\ todo' = todo \ {r} /\ step = "acting"
      /\ UNCHANGED <<step, slot, assigned, atEntry, atExit, mode>>
  BY DEF PickDone, ServiceDone, NothingDone, Acts
<1>2. /\ stage' \in [Robots -> Stage]
      /\ \A s \in Robots : \/ stage'[s] = stage[s]
                           \/ s = r /\ stage[s] = "away" /\ stage'[s] \in {"waiting", "ready"}
                           \/ stage[s] = "delivering" /\ stage'[s] = "exiting"
  BY DEF PickDone, ServiceDone, NothingDone, IndInv, TypeOK, Stage
<1>3. /\ waiting' \in Seq(Robots) /\ Distinct(waiting')
      /\ Range(waiting') = {s \in Robots : stage'[s] = "waiting"}
  <2>1. CASE PickDone(r) /\ mode = Fifo
    <3>1. /\ waiting' = Enqueued(waiting, r)
          /\ stage' = [stage EXCEPT ![r] = "waiting"]
      BY <2>1 DEF PickDone, UsesExplicitWaiting
    <3>2. Range(waiting') = Range(waiting) \cup {r}
      BY <3>1, WaitingList, EnqueuedDistinct
    <3>3. QED
      BY <3>1, <3>2, WaitingList, EnqueuedDistinct DEF IndInv, TypeOK
  <2>2. CASE PickDone(r) /\ mode # Fifo
    <3>1. /\ waiting' = waiting /\ stage[r] = "away"
          /\ stage' = [stage EXCEPT ![r] = "ready"]
      BY <2>2 DEF PickDone, UsesExplicitWaiting
    <3>2. QED  BY <3>1, WaitingList DEF IndInv, TypeOK
  <2>3. CASE ServiceDone(r)
    <3>1. /\ waiting' = waiting /\ stage[r] = "delivering"
          /\ stage' = [stage EXCEPT ![r] = "exiting"]
      BY <2>3 DEF ServiceDone
    <3>2. QED  BY <3>1, WaitingList DEF IndInv, TypeOK
  <2>4. CASE NothingDone(r)  BY <2>4, WaitingList DEF NothingDone
  <2>5. QED  BY <2>1, <2>2, <2>3, <2>4
<1>4. TypeOK'  BY <1>1, <1>2, <1>3 DEF IndInv, TypeOK
<1>5. TokensMatchStages'  BY <1>1, <1>2 DEF IndInv, TokensMatchStages
<1>6. WaitersMatchStages'  BY <1>3 DEF WaitersMatchStages, Waiters, Distinct
<1>7. SlotsHoldVisitors'  BY <1>1, <1>2, SameSlots
<1>8. ScanAwaitsTokens'  BY <1>1 DEF ScanAwaitsTokens
<1>9. QED  BY <1>1, <1>4, <1>5, <1>6, <1>7, <1>8, FewerTokens DEF IndInv

(* The end of a scan, and stuttering: only the phase changes.               *)
LEMMA PhaseInv ==
    ASSUME IndInv, UNCHANGED <<todo, stage, slot, assigned, waiting, atEntry, atExit, mode>>,
           step' = step \/ step' \in {"move", "cascade"}
    PROVE  IndInv'
<1>1. TypeOK' /\ ScanAwaitsTokens'  BY DEF IndInv, TypeOK, ScanAwaitsTokens
<1>2. TokensMatchStages' /\ SlotsHoldVisitors'
  BY DEF IndInv, TokensMatchStages, SlotsHoldVisitors
<1>3. WaitersMatchStages'  BY DEF IndInv, WaitersMatchStages, Waiters
<1>4. QED  BY <1>1, <1>2, <1>3, FewerTokens DEF IndInv

-----------------------------------------------------------------------------
LEMMA NextInv == IndInv /\ [Next]_vars => IndInv'
<1> SUFFICES ASSUME IndInv, [Next]_vars PROVE IndInv'
  OBVIOUS
<1>1. CASE Cascade  BY <1>1, CascadeInv
<1>2. CASE ProcessExits  BY <1>2, ProcessExitsInv
<1>3. CASE AbsorbStranded  BY <1>3, CheckInInv DEF AbsorbStranded
<1>4. CASE PruneWaiting  BY <1>4, PruneInv
<1>5. CASE PlanAndActivate
  <2>1. CASE \E r \in Robots : ActivateSkip(r)  BY <2>1, SkipInv
  <2>2. CASE \E r \in Robots : ActivateRejected(r)  BY <2>2, RejectedInv
  <2>3. CASE \E r \in Robots : ActivateRolledBack(r)  BY <2>3, RolledBackInv
  <2>4. CASE \E r \in Robots : ActivateGranted(r)  BY <2>4, GrantedInv
  <2>5. CASE step' = "move"
             /\ UNCHANGED <<todo, stage, slot, assigned, waiting, atEntry, atExit, mode>>
    BY <2>5, PhaseInv
  <2>6. QED  BY <1>5, <2>1, <2>2, <2>3, <2>4, <2>5 DEF PlanAndActivate
<1>6. CASE Move  BY <1>6, MoveInv
<1>7. CASE AbsorbArrivals  BY <1>7, CheckInInv DEF AbsorbArrivals
<1>8. CASE StartActions  BY <1>8, StartActionsInv
<1>9. CASE HandleActions
  <2>1. CASE \E r \in Robots : PickDone(r) \/ ServiceDone(r) \/ NothingDone(r)
    BY <2>1, ActionInv
  <2>2. CASE step' = "cascade"
             /\ UNCHANGED <<todo, stage, slot, assigned, waiting, atEntry, atExit, mode>>
    BY <2>2, PhaseInv
  <2>3. QED  BY <1>9, <2>1, <2>2 DEF HandleActions
<1>10. CASE UNCHANGED vars  BY <1>10, PhaseInv DEF vars
<1>11. QED
  BY <1>1, <1>2, <1>3, <1>4, <1>5, <1>6, <1>7, <1>8, <1>9, <1>10 DEF Next

LEMMA Inductive == Spec => []IndInv
BY InitInv, NextInv, PTL DEF Spec

(* Type correctness.                                                        *)
THEOREM TypeCorrect == Spec => []TypeOK
<1>1. IndInv => TypeOK  BY DEF IndInv
<1>2. QED  BY <1>1, Inductive, PTL

(* Under the committed contracts reserve() never commits a station beyond   *)
(* its slots, whatever the interleaving of rollbacks, exits and check-ins.  *)
THEOREM AdmissionBounded == Spec => []CommittedWithinCapacity
<1>1. IndInv => CommittedWithinCapacity  BY DEF IndInv
<1>2. QED  BY <1>1, Inductive, PTL

(* No token leaks and none is lost: _assigned_agents is, at every step of    *)
(* the tick, the set of robots between activation and exit.                 *)
THEOREM NoTokenLeaks == Spec => []TokensMatchStages
<1>1. IndInv => TokensMatchStages  BY DEF IndInv
<1>2. QED  BY <1>1, Inductive, PTL

(* The waiting list never loses, repeats or outlives a waiting robot.       *)
THEOREM WaitingListExact == Spec => []WaitersMatchStages
<1>1. IndInv => WaitersMatchStages  BY DEF IndInv
<1>2. QED  BY <1>1, Inductive, PTL

-----------------------------------------------------------------------------
(* The slots, the order of the grants and the contract, on top of IndInv.   *)

(* Robots wait explicitly in FIFO mode and nowhere else.                    *)
StagesFitMode ==
    \A r \in Robots : stage[r] # (IF mode = Fifo THEN "ready" ELSE "waiting")

(* The inductive invariant, extended by the slots.                          *)
SlotInv == IndInv /\ SlotsMatchStages /\ StagesFitMode

(* Where a robot is when it is nowhere in the station's zone.               *)
Outside == {"away", "ready", "waiting", "travelling"}

-----------------------------------------------------------------------------
LEMMA InitSlots == Init => SlotInv
<1> SUFFICES ASSUME Init PROVE SlotInv
  OBVIOUS
<1>1. IndInv  BY InitInv
<1>2. SlotsMatchStages
  BY DEF Init, EmptyStation, SlotsMatchStages, AtEntryCell, AtExitCell
<1>3. StagesFitMode  BY DEF Init, EmptyStation, StagesFitMode
<1>4. QED  BY <1>1, <1>2, <1>3 DEF SlotInv

(* Steps that leave the slots alone and move robots about outside the zone, *)
(* off the exit cell, or from DELIVERING to EXITING.                        *)
LEMMA QuietStep ==
    ASSUME SlotInv, TypeOK', slot' = slot,
           \A r \in Robots : \/ stage'[r] = stage[r]
                             \/ stage[r] \in Outside /\ stage'[r] \in Outside
                             \/ stage[r] = "delivering" /\ stage'[r] = "exiting"
    PROVE  SlotsMatchStages'
<1>1. Physical' = Physical  BY DEF Physical
<1>2. \A c \in Cells : slot[c] # Nobody => slot[c] \in Robots
  BY DEF SlotInv, IndInv, TypeOK
<1>3. \A r \in Robots : AtEntryCell(r)' => AtEntryCell(r)
  BY <1>1 DEF AtEntryCell, Outside
<1>4. \A r \in Robots : AtExitCell(r)' => AtExitCell(r)
  BY DEF AtExitCell, Outside
<1>5. \A c \in Cells : slot'[c] # Nobody =>
           stage'[slot'[c]] \in (IF c = 0 THEN {"delivering", "exiting"} ELSE {"queuing"})
  <2>1. SUFFICES ASSUME NEW c \in Cells, slot[c] # Nobody
        PROVE stage'[slot[c]] \in (IF c = 0 THEN {"delivering", "exiting"} ELSE {"queuing"})
    OBVIOUS
  <2>2. stage[slot[c]] \in (IF c = 0 THEN {"delivering", "exiting"} ELSE {"queuing"})
    BY <2>1 DEF SlotInv, SlotsMatchStages
  <2>3. QED  BY <2>1, <2>2, <1>2 DEF Outside
<1>6. \A r \in Robots : stage'[r] \in {"delivering", "exiting"} => slot'[0] = r
  BY DEF SlotInv, SlotsMatchStages, Outside
<1>7. QED  BY <1>3, <1>4, <1>5, <1>6 DEF SlotInv, SlotsMatchStages

-----------------------------------------------------------------------------
(* Nobody but the robot in the service slot is in a slot without queuing,   *)
(* and who queues without a slot stands on the entry cell.                  *)
LEMMA CascadeSlots == ASSUME SlotInv, Cascade, TypeOK' PROVE SlotsMatchStages'
<1> DEFINE Queuing == {r \in Robots : stage[r] = "queuing"}
           Before  == [r \in Queuing |-> Place(r)]
           Serving == {c \in Cells : slot[c] \notin Queuing \cup {Nobody}}
           Held    == Serving \cup (IF \/ atEntry # "clear"
                                       \/ \E r \in Robots : stage[r] = "arrived"
                                    THEN {Capacity} ELSE {})
<1>1. PICK place \in [Queuing -> 0 .. Capacity] :
        /\ Advances(Before, place, Held)
        /\ slot' = [c \in Cells |-> IF \E r \in Queuing : place[r] = c
                                    THEN CHOOSE r \in Queuing : place[r] = c
                                    ELSE IF c \in Serving THEN slot[c] ELSE Nobody]
        /\ stage' = [r \in Robots |-> IF r \in Queuing /\ place[r] = 0
                                      THEN "delivering" ELSE stage[r]]
  BY DEF Cascade, CascadeTo
<1>2. /\ \A r \in Queuing : place[r] # Before[r] => place[r] \notin Held
      /\ \A r, s \in Queuing : place[r] = place[s] => r = s
  BY <1>1 DEF Advances
<1>3. Serving \subseteq {0}
  BY DEF SlotInv, IndInv, TypeOK, SlotsMatchStages
<1>4. \A r \in Queuing : /\ Before[r] = Place(r)
                         /\ Place(r) \in Cells => slot[Place(r)] = r
                         /\ Place(r) = Capacity <=> r \notin Physical
                         /\ Place(r) \in Cells \cup {Capacity}
  <2>1. SUFFICES ASSUME NEW r \in Queuing
                 PROVE  /\ Place(r) \in Cells => slot[Place(r)] = r
                        /\ Place(r) = Capacity <=> r \notin Physical
                        /\ Place(r) \in Cells \cup {Capacity}
    OBVIOUS
  <2>2. Capacity \notin Cells  BY CapacityAssumption DEF Cells
  <2>3. CASE r \in Physical
    <3>1. \E c \in Cells : slot[c] = r  BY <2>3 DEF Physical
    <3>2. Place(r) \in Cells /\ slot[Place(r)] = r  BY <2>3, <3>1 DEF Place
    <3>3. QED  BY <2>2, <2>3, <3>2
  <2>4. CASE r \notin Physical  BY <2>2, <2>4 DEF Place
  <2>5. QED  BY <2>3, <2>4
<1>5. \A r \in Queuing : place[r] \in 0 .. Capacity /\ r \in Robots /\ r # Nobody
  BY <1>1, NobodyAssumption
<1>6. \A r \in Queuing : place[r] \notin Serving
  <2>1. SUFFICES ASSUME NEW r \in Queuing, place[r] \in Serving PROVE FALSE
    OBVIOUS
  <2>2. place[r] = Before[r]  BY <1>2, <2>1
  <2>3. place[r] \in Cells /\ slot[place[r]] \notin Queuing  BY <2>1
  <2>4. slot[place[r]] = r  BY <1>4, <2>2, <2>3
  <2>5. QED  BY <2>3, <2>4
<1>7. \A c \in Cells : \/ slot'[c] \in Queuing /\ place[slot'[c]] = c
                       \/ c \in Serving /\ slot'[c] = slot[c]
                       \/ slot'[c] = Nobody
  BY <1>1
<1>8. \A r \in Queuing : place[r] \in Cells => slot'[place[r]] = r
  BY <1>1, <1>2
<1>9. \A r \in Robots : stage'[r] = IF r \in Queuing /\ place[r] = 0
                                    THEN "delivering" ELSE stage[r]
  BY <1>1
<1>10. 0 \in Cells /\ Capacity \notin Cells /\ Capacity # 0
  BY CapacityAssumption DEF Cells
<1>11. \A c \in Cells : slot'[c] # Nobody =>
           stage'[slot'[c]] \in (IF c = 0 THEN {"delivering", "exiting"} ELSE {"queuing"})
  <2>1. SUFFICES ASSUME NEW c \in Cells, slot'[c] # Nobody
        PROVE stage'[slot'[c]] \in (IF c = 0 THEN {"delivering", "exiting"} ELSE {"queuing"})
    OBVIOUS
  <2>2. CASE slot'[c] \in Queuing /\ place[slot'[c]] = c  BY <2>2, <1>9
  <2>3. CASE c \in Serving /\ slot'[c] = slot[c]
    <3>1. c = 0 /\ slot[0] \in Robots \ Queuing
      BY <2>3, <1>3 DEF SlotInv, IndInv, TypeOK
    <3>2. stage[slot[0]] \in {"delivering", "exiting"}
      BY <3>1, <2>1, <2>3, <1>10 DEF SlotInv, SlotsMatchStages
    <3>3. QED  BY <3>1, <3>2, <2>3, <1>9
  <2>4. QED  BY <2>1, <2>2, <2>3, <1>7
<1>12. \A c, d \in Cells : slot'[c] = slot'[d] /\ slot'[c] # Nobody => c = d
  BY <1>3, <1>7
<1>13. \A r \in Robots : stage'[r] \in {"delivering", "exiting"} => slot'[0] = r
  <2>1. SUFFICES ASSUME NEW r \in Robots, stage'[r] \in {"delivering", "exiting"}
                 PROVE  slot'[0] = r
    OBVIOUS
  <2>2. CASE r \in Queuing /\ place[r] = 0  BY <2>2, <1>8, <1>10
  <2>3. CASE ~(r \in Queuing /\ place[r] = 0)
    <3>1. stage[r] \in {"delivering", "exiting"}  BY <2>1, <2>3, <1>9
    <3>2. slot[0] = r /\ r \notin Queuing /\ r # Nobody
      BY <3>1, NobodyAssumption DEF SlotInv, SlotsMatchStages
    <3>3. 0 \in Serving  BY <3>2, <1>10
    <3>4. ~\E q \in Queuing : place[q] = 0  BY <3>3, <1>6
    <3>5. QED  BY <3>2, <3>3, <3>4, <1>1, <1>10
  <2>4. QED  BY <2>2, <2>3
<1>14. \A r \in Robots : AtEntryCell(r)' =>
           stage[r] = "arrived" \/ (r \in Queuing /\ place[r] = Capacity)
  <2>1. SUFFICES ASSUME NEW r \in Robots, AtEntryCell(r)', stage[r] # "arrived"
                 PROVE  r \in Queuing /\ place[r] = Capacity
    OBVIOUS
  <2>2. stage'[r] = "queuing" /\ r \notin Physical' /\ r \in Queuing
    BY <2>1, <1>9 DEF AtEntryCell
  <2>3. place[r] \notin Cells
    <3>1. ASSUME place[r] \in Cells PROVE FALSE
      <4>1. slot'[place[r]] = r /\ r # Nobody  BY <2>2, <3>1, <1>5, <1>8
      <4>2. QED  BY <4>1, <3>1, <2>2 DEF Physical
    <3>2. QED  BY <3>1
  <2>4. QED  BY <2>2, <2>3, <1>5, CapacityAssumption DEF Cells
<1>15. \A r, s \in Robots : AtEntryCell(r)' /\ AtEntryCell(s)' => r = s
  <2>1. ASSUME NEW r \in Robots, NEW s \in Robots, stage[r] = "arrived",
               s \in Queuing, place[s] = Capacity
        PROVE  r = s
    <3>1. Capacity \in Held  BY <2>1
    <3>2. Place(s) = Capacity  BY <2>1, <3>1, <1>2, <1>4
    <3>3. AtEntryCell(s) /\ AtEntryCell(r)  BY <2>1, <3>2, <1>4 DEF AtEntryCell
    <3>4. QED  BY <3>3 DEF SlotInv, SlotsMatchStages
  <2>2. ASSUME NEW r \in Robots, NEW s \in Robots, stage[r] = "arrived", stage[s] = "arrived"
        PROVE  r = s
    BY <2>2 DEF AtEntryCell, SlotInv, SlotsMatchStages
  <2>3. QED  BY <2>1, <2>2, <1>2, <1>14
<1>16. \A r, s \in Robots : AtExitCell(r)' /\ AtExitCell(s)' => r = s
  BY <1>9 DEF AtExitCell, SlotInv, SlotsMatchStages
<1>17. QED  BY <1>11, <1>12, <1>13, <1>15, <1>16 DEF SlotsMatchStages

(* Only the robot in the service slot can leave, and only onto an exit cell *)
(* on which nobody stands.                                                  *)
LEMMA ProcessExitsSlots == ASSUME SlotInv, ProcessExits, TypeOK' PROVE SlotsMatchStages'
<1>1. PICK out \in SUBSET {r \in Robots : stage[r] = "exiting"} :
        /\ out # {} => \A r \in Robots : ~AtExitCell(r)
        /\ stage' = [r \in Robots |-> IF stage[r] = "exited" THEN "leaving"
                                      ELSE IF r \in out THEN "exited" ELSE stage[r]]
        /\ slot' = [c \in Cells |-> IF slot[c] \in out THEN Nobody ELSE slot[c]]
        /\ out = {} \/ out = {r \in Robots : stage[r] = "exiting"}
  BY DEF ProcessExits
<1>2. /\ \A r \in Robots : stage'[r] = IF stage[r] = "exited" THEN "leaving"
                                       ELSE IF r \in out THEN "exited" ELSE stage[r]
      /\ \A c \in Cells : slot'[c] = IF slot[c] \in out THEN Nobody ELSE slot[c]
  BY <1>1
<1>3. \A c \in Cells : slot[c] # Nobody => slot[c] \in Robots
  BY DEF SlotInv, IndInv, TypeOK
<1>4. \A r, s \in out : r = s  BY <1>1 DEF SlotInv, SlotsMatchStages
<1>5. 0 \in Cells  BY CapacityAssumption DEF Cells
<1>6. \A c \in Cells : slot'[c] # Nobody =>
           stage'[slot'[c]] \in (IF c = 0 THEN {"delivering", "exiting"} ELSE {"queuing"})
  <2>1. SUFFICES ASSUME NEW c \in Cells, slot'[c] # Nobody
        PROVE stage'[slot'[c]] \in (IF c = 0 THEN {"delivering", "exiting"} ELSE {"queuing"})
    OBVIOUS
  <2>2. slot'[c] = slot[c] /\ slot[c] \notin out /\ slot[c] \in Robots
    BY <2>1, <1>2, <1>3
  <2>3. stage[slot[c]] \in (IF c = 0 THEN {"delivering", "exiting"} ELSE {"queuing"})
    BY <2>1, <2>2 DEF SlotInv, SlotsMatchStages
  <2>4. QED  BY <2>2, <2>3, <1>2
<1>7. \A c, d \in Cells : slot'[c] = slot'[d] /\ slot'[c] # Nobody => c = d
  BY <1>2 DEF SlotInv, SlotsMatchStages
<1>8. \A r \in Robots : stage'[r] \in {"delivering", "exiting"} => slot'[0] = r
  <2>1. SUFFICES ASSUME NEW r \in Robots, stage'[r] \in {"delivering", "exiting"}
                 PROVE  slot'[0] = r
    OBVIOUS
  <2>2. stage[r] \in {"delivering", "exiting"} /\ r \notin out  BY <2>1, <1>2
  <2>3. slot[0] = r  BY <2>2 DEF SlotInv, SlotsMatchStages
  <2>4. QED  BY <2>2, <2>3, <1>2, <1>5
<1>9. \A r \in Robots : AtEntryCell(r)' => AtEntryCell(r)
  <2>1. SUFFICES ASSUME NEW r \in Robots, AtEntryCell(r)' PROVE AtEntryCell(r)
    OBVIOUS
  <2>2. CASE stage'[r] = "arrived"  BY <2>2, <1>2 DEF AtEntryCell
  <2>3. CASE stage'[r] = "queuing" /\ r \notin Physical'
    <3>1. stage[r] = "queuing" /\ r \notin out  BY <2>3, <1>1, <1>2
    <3>2. r \notin Physical
      <4>1. ASSUME NEW c \in Cells, slot[c] = r, r # Nobody PROVE FALSE
        <5>1. slot'[c] = r  BY <4>1, <3>1, <1>2
        <5>2. QED  BY <5>1, <4>1, <2>3 DEF Physical
      <4>2. QED  BY <4>1 DEF Physical
    <3>3. QED  BY <3>1, <3>2 DEF AtEntryCell
  <2>4. QED  BY <2>1, <2>2, <2>3 DEF AtEntryCell
<1>10. \A r, s \in Robots : AtExitCell(r)' /\ AtExitCell(s)' => r = s
  <2>1. \A r \in Robots : AtExitCell(r)' => AtExitCell(r) \/ r \in out
    BY <1>2 DEF AtExitCell
  <2>2. QED  BY <2>1, <1>1, <1>4 DEF SlotInv, SlotsMatchStages
<1>11. QED
  BY <1>6, <1>7, <1>8, <1>9, <1>10 DEF SlotInv, SlotsMatchStages

(* A check-in takes the robot on the entry cell into the queue where it is. *)
LEMMA CheckInSlots ==
    ASSUME SlotInv, NEW here, NEW next, CheckQueueArrivals(here, next), TypeOK'
    PROVE  SlotsMatchStages' /\ StagesFitMode'
<1>1. /\ slot' = slot /\ mode' = mode
      /\ \/ stage' = stage
         \/ \E r \in Robots : stage[r] = "arrived" /\ stage' = [stage EXCEPT ![r] = "queuing"]
  BY DEF CheckQueueArrivals, CheckIn
<1>2. CASE stage' = stage
  <2>1. SlotsMatchStages'  BY <1>1, <1>2, QuietStep
  <2>2. QED  BY <1>1, <1>2, <2>1 DEF SlotInv, StagesFitMode
<1>3. ASSUME NEW r \in Robots, stage[r] = "arrived", stage' = [stage EXCEPT ![r] = "queuing"]
      PROVE  SlotsMatchStages' /\ StagesFitMode'
  <2>1. \A s \in Robots : stage'[s] = IF s = r THEN "queuing" ELSE stage[s]
    BY <1>3 DEF SlotInv, IndInv, TypeOK
  <2>2. Physical' = Physical  BY <1>1 DEF Physical
  <2>3. r \notin Physical
    BY <1>3 DEF SlotInv, SlotsMatchStages, Physical
  <2>4. \A s \in Robots : AtEntryCell(s)' => AtEntryCell(s)
    BY <1>3, <2>1, <2>2 DEF AtEntryCell
  <2>5. \A s \in Robots : AtExitCell(s)' => AtExitCell(s)
    BY <2>1 DEF AtExitCell
  <2>6. \A c \in Cells : slot[c] # Nobody => slot[c] \in Robots \ {r}
    BY <2>3 DEF SlotInv, IndInv, TypeOK, Physical
  <2>7. \A c \in Cells : slot'[c] # Nobody =>
             stage'[slot'[c]] \in (IF c = 0 THEN {"delivering", "exiting"} ELSE {"queuing"})
    BY <1>1, <2>1, <2>6 DEF SlotInv, SlotsMatchStages
  <2>8. \A s \in Robots : stage'[s] \in {"delivering", "exiting"} => slot'[0] = s
    BY <1>1, <2>1 DEF SlotInv, SlotsMatchStages
  <2>9. StagesFitMode'  BY <1>1, <2>1 DEF SlotInv, StagesFitMode
  <2>10. QED
    BY <1>1, <2>4, <2>5, <2>7, <2>8, <2>9 DEF SlotInv, SlotsMatchStages
<1>4. QED  BY <1>1, <1>2, <1>3

-----------------------------------------------------------------------------
(* One robot at a time reaches the entry, when nobody is there.             *)
LEMMA MoveSlots == ASSUME SlotInv, Move, TypeOK' PROVE SlotsMatchStages' /\ StagesFitMode'
<1>1. PICK comers \in Comers, goers \in Goers, entry \in EntryTraffic, exit \in BOOLEAN :
        MoveAgents(comers, goers, entry, exit)
  BY DEF Move
<1>2. /\ comers # {} => \A r \in Robots : ~AtEntryCell(r)
      /\ stage' = [r \in Robots |-> IF r \in comers THEN "arrived"
                                     ELSE IF r \in goers THEN "away" ELSE stage[r]]
      /\ slot' = slot /\ mode' = mode
  BY <1>1 DEF MoveAgents
<1>3. /\ \A r \in comers : r \in Robots /\ stage[r] = "travelling"
      /\ \A r \in goers : r \in Robots /\ stage[r] = "leaving"
  BY <1>1 DEF Comers, Goers
<1>4. \A r, s \in comers : r = s
  <2>1. SUFFICES ASSUME NEW r \in comers, NEW s \in comers, r # s PROVE FALSE
    OBVIOUS
  <2>2. IsFiniteSet(comers) /\ Cardinality(comers) <= 1
    BY <1>1, RobotsAssumption, FS_Subset DEF Comers
  <2>3. IsFiniteSet({r}) /\ Cardinality({r}) = 1 /\ s \notin {r}  BY <2>1, FS_Singleton
  <2>4. Cardinality({r} \cup {s}) = Cardinality({r}) + 1
    BY ONLY <2>3, FS_AddElement
  <2>5. Cardinality({r} \cup {s}) <= Cardinality(comers)
    BY <2>2, FS_Subset
  <2>6. Cardinality(comers) \in Nat  BY <2>2, FS_CardinalityType
  <2>7. QED  BY <2>2, <2>3, <2>4, <2>5, <2>6
<1>5. \A r \in Robots : stage'[r] = IF r \in comers THEN "arrived"
                                     ELSE IF r \in goers THEN "away" ELSE stage[r]
  BY <1>2
<1>6. Physical' = Physical  BY <1>2 DEF Physical
<1>7. \A r \in Robots : AtEntryCell(r)' => AtEntryCell(r) \/ r \in comers
  BY <1>5, <1>6 DEF AtEntryCell
<1>8. \A r, s \in Robots : AtEntryCell(r)' /\ AtEntryCell(s)' => r = s
  BY <1>2, <1>4, <1>7 DEF SlotInv, SlotsMatchStages
<1>9. \A r, s \in Robots : AtExitCell(r)' /\ AtExitCell(s)' => r = s
  BY <1>5 DEF AtExitCell, SlotInv, SlotsMatchStages
<1>10. \A c \in Cells : slot'[c] # Nobody =>
           stage'[slot'[c]] \in (IF c = 0 THEN {"delivering", "exiting"} ELSE {"queuing"})
  <2>1. SUFFICES ASSUME NEW c \in Cells, slot[c] # Nobody
        PROVE stage'[slot[c]] \in (IF c = 0 THEN {"delivering", "exiting"} ELSE {"queuing"})
    BY <1>2
  <2>2. slot[c] \in Robots  BY <2>1 DEF SlotInv, IndInv, TypeOK
  <2>3. stage[slot[c]] \in (IF c = 0 THEN {"delivering", "exiting"} ELSE {"queuing"})
    BY <2>1 DEF SlotInv, SlotsMatchStages
  <2>4. QED  BY <2>2, <2>3, <1>3, <1>5
<1>11. \A r \in Robots : stage'[r] \in {"delivering", "exiting"} => slot'[0] = r
  BY <1>2, <1>5 DEF SlotInv, SlotsMatchStages
<1>12. StagesFitMode'  BY <1>2, <1>5 DEF SlotInv, StagesFitMode
<1>13. QED
  BY <1>2, <1>8, <1>9, <1>10, <1>11, <1>12 DEF SlotInv, SlotsMatchStages

(* The planning scan moves robots about outside the zone.                   *)
LEMMA PlanSlots ==
    ASSUME SlotInv, PlanAndActivate, TypeOK'
    PROVE  SlotsMatchStages' /\ StagesFitMode'
<1>1. /\ slot' = slot /\ mode' = mode
      /\ \/ stage' = stage
         \/ \E r \in Robots : /\ Considered(r)
                              /\ \/ stage' = [stage EXCEPT ![r] = "waiting"] /\ mode = Fifo
                                 \/ stage' = [stage EXCEPT ![r] = "travelling"]
  BY DEF PlanAndActivate, ActivateSkip, ActivateRejected, ActivateRolledBack,
         ActivateGranted, Considered, UsesExplicitWaiting
<1>2. \A r \in Robots : Considered(r) => stage[r] \in {"waiting", "ready"}
  BY ConsideredFacts DEF SlotInv
<1>3. \A r \in Robots : \/ stage'[r] = stage[r]
                         \/ /\ stage[r] \in Outside
                            /\ stage'[r] \in Outside
                            /\ \/ stage'[r] = "travelling"
                               \/ stage'[r] = "waiting" /\ mode = Fifo
  BY <1>1, <1>2 DEF SlotInv, IndInv, TypeOK, Outside
<1>4. SlotsMatchStages'  BY <1>1, <1>3, QuietStep
<1>5. StagesFitMode'  BY <1>1, <1>3 DEF SlotInv, StagesFitMode
<1>6. QED  BY <1>4, <1>5

(* So do the pickups of the action scan; a service that ends leaves the     *)
(* robot in the service slot.                                               *)
LEMMA ActionSlots ==
    ASSUME SlotInv, HandleActions, TypeOK'
    PROVE  SlotsMatchStages' /\ StagesFitMode'
<1>1. /\ slot' = slot /\ mode' = mode
      /\ \A r \in Robots : \/ stage'[r] = stage[r]
                           \/ /\ stage[r] = "away"
                              /\ stage'[r] = IF mode = Fifo THEN "waiting" ELSE "ready"
                           \/ stage[r] = "delivering" /\ stage'[r] = "exiting"
  BY DEF HandleActions, PickDone, ServiceDone, NothingDone, Acts, UsesExplicitWaiting,
         SlotInv, IndInv, TypeOK
<1>2. SlotsMatchStages'  BY <1>1, QuietStep DEF Outside
<1>3. StagesFitMode'  BY <1>1 DEF SlotInv, StagesFitMode
<1>4. QED  BY <1>2, <1>3

LEMMA NextSlots == SlotInv /\ [Next]_vars => SlotInv'
<1> SUFFICES ASSUME SlotInv, [Next]_vars PROVE SlotInv'
  OBVIOUS
<1>1. IndInv' /\ TypeOK'  BY NextInv DEF SlotInv, IndInv
<1>2. SlotsMatchStages' /\ StagesFitMode'
  <2>1. CASE Cascade
    <3>1. \A r \in Robots : stage'[r] = stage[r] \/ stage'[r] = "delivering"
      BY <2>1 DEF Cascade, CascadeTo
    <3>2. mode' = mode  BY <2>1 DEF Cascade, CascadeTo
    <3>3. StagesFitMode'  BY <3>1, <3>2 DEF SlotInv, StagesFitMode
    <3>4. QED  BY <2>1, <3>3, <1>1, CascadeSlots
  <2>2. CASE ProcessExits
    <3>1. \A r \in Robots : stage'[r] = stage[r] \/ stage'[r] \in {"exited", "leaving"}
      BY <2>2 DEF ProcessExits
    <3>2. mode' = mode  BY <2>2 DEF ProcessExits
    <3>3. StagesFitMode'  BY <3>1, <3>2 DEF SlotInv, StagesFitMode
    <3>4. QED  BY <2>2, <3>3, <1>1, ProcessExitsSlots
  <2>3. CASE AbsorbStranded \/ AbsorbArrivals
    BY <2>3, <1>1, CheckInSlots DEF AbsorbStranded, AbsorbArrivals
  <2>4. CASE PlanAndActivate  BY <2>4, <1>1, PlanSlots
  <2>5. CASE Move  BY <2>5, <1>1, MoveSlots
  <2>6. CASE HandleActions  BY <2>6, <1>1, ActionSlots
  <2>7. CASE PruneWaiting \/ StartActions \/ UNCHANGED vars
    <3>1. stage' = stage /\ slot' = slot /\ mode' = mode
      BY <2>7 DEF PruneWaiting, StartActions, vars
    <3>2. StagesFitMode'  BY <3>1 DEF SlotInv, StagesFitMode
    <3>3. QED  BY <3>1, <3>2, <1>1, QuietStep
  <2>8. QED  BY <2>1, <2>2, <2>3, <2>4, <2>5, <2>6, <2>7 DEF Next
<1>3. QED  BY <1>1, <1>2 DEF SlotInv

LEMMA SlotsInductive == Spec => []SlotInv
BY InitSlots, NextSlots, PTL DEF Spec

-----------------------------------------------------------------------------
(* A robot that reaches the entry with a token finds a slot: the others in  *)
(* the slots hold tokens too, and there are no more tokens than slots.      *)
LEMMA RoomForOneMore == SlotInv => ArrivalFindsRoom
<1> SUFFICES ASSUME SlotInv, mode # Legacy, NEW r \in Robots, stage[r] = "arrived", ~FreeSlot
             PROVE  FALSE
  BY DEF ArrivalFindsRoom
<1>1. IsFiniteSet(assigned) /\ Cardinality(assigned) <= Capacity
  <2>1. CommittedRobots = assigned  BY CommittedAreAssigned DEF SlotInv, IndInv
  <2>2. IsFiniteSet(assigned)
    BY RobotsAssumption, FS_Subset DEF SlotInv, IndInv, TypeOK
  <2>3. QED  BY <2>1, <2>2 DEF SlotInv, IndInv, CommittedWithinCapacity
<1>2. \A c \in Cells : slot[c] \in assigned \ {r}
  <2>1. SUFFICES ASSUME NEW c \in Cells PROVE slot[c] \in assigned \ {r}
    OBVIOUS
  <2>2. slot[c] \in Robots /\ slot[c] # Nobody
    BY DEF FreeSlot, SlotInv, IndInv, TypeOK
  <2>3. stage[slot[c]] \in {"queuing", "delivering", "exiting"}
    BY <2>2 DEF SlotInv, IndInv, SlotsHoldVisitors
  <2>4. QED  BY <2>2, <2>3 DEF SlotInv, IndInv, TokensMatchStages
<1>3. r \in assigned  BY DEF SlotInv, IndInv, TokensMatchStages
<1>4. /\ IsFiniteSet(assigned \ {r})
      /\ Cardinality(assigned \ {r}) = Cardinality(assigned) - 1
      /\ Cardinality(assigned) \in Nat
  BY <1>1, <1>3, FS_RemoveElement, FS_CardinalityType
<1>5. IsFiniteSet(Cells) /\ Cardinality(Cells) = Capacity
  BY CapacityAssumption, FS_Interval DEF Cells
<1>6. Cardinality(assigned \ {r}) < Cardinality(Cells)
  BY <1>1, <1>4, <1>5, CapacityAssumption
<1>7. slot \in [Cells -> assigned \ {r}]  BY <1>2 DEF SlotInv, IndInv, TypeOK
<1>8. \E c, d \in Cells : c # d /\ slot[c] = slot[d]
  BY <1>4, <1>5, <1>6, <1>7, FS_PigeonHole
<1>9. QED  BY <1>8 DEF FreeSlot, SlotInv, SlotsMatchStages

-----------------------------------------------------------------------------
(* What a step does to the tokens and to the waiting list. In FIFO mode a   *)
(* token goes to the head of the list, who gives up its place.              *)
LEMMA GrantToHead ==
    ASSUME SlotInv, mode = Fifo, NEW r \in Robots, Considered(r), ReserveGrants(r)
    PROVE  waiting # <<>> /\ Head(waiting) = r /\ WaitingAfterReserve(r) = Tail(waiting)
<1>1. stage[r] = "waiting" /\ r \notin CommittedRobots
  BY ConsideredFacts DEF SlotInv, StagesFitMode
<1>2. waiting # <<>> /\ Head(waiting) = r  BY <1>1 DEF Considered, CanPromote, NextInLine
<1>3. QED  BY <1>1, <1>2 DEF WaitingAfterReserve

(* Outside the planning scan and the exits no token changes hands.          *)
LEMMA TokensAtRest ==
    ASSUME SlotInv, [Next]_vars
    PROVE  \/ CommittedRobots' = CommittedRobots
           \/ ProcessExits
           \/ \E r \in Robots : ActivateGranted(r)
<1> SUFFICES ASSUME ~ProcessExits, ~\E r \in Robots : ActivateGranted(r)
             PROVE  CommittedRobots' = CommittedRobots
  OBVIOUS
<1>1. SlotInv'  BY NextSlots
<1>2. CommittedRobots = assigned /\ CommittedRobots' = assigned'
  BY <1>1, CommittedAreAssigned, CommittedAreAssignedPrime DEF SlotInv, IndInv
<1>3. ASSUME NEW here, NEW next, CheckQueueArrivals(here, next) PROVE assigned' = assigned
  BY <1>3 DEF CheckQueueArrivals, CheckIn, CommittedRobots, SlotInv, IndInv, TokensMatchStages
<1>4. ASSUME NEW r \in Robots, ActivateRolledBack(r) PROVE assigned' = assigned
  <2>1. r \notin assigned /\ r \notin Physical
    BY <1>4, ConsideredFacts DEF ActivateRolledBack, SlotInv, CommittedRobots
  <2>2. QED  BY <1>4, <2>1 DEF ActivateRolledBack
<1>5. assigned' = assigned
  <2>1. CASE AbsorbStranded \/ AbsorbArrivals
    BY <2>1, <1>3 DEF AbsorbStranded, AbsorbArrivals
  <2>2. CASE PlanAndActivate
    BY <2>2, <1>4 DEF PlanAndActivate, ActivateSkip, ActivateRejected
  <2>3. CASE Cascade \/ PruneWaiting \/ Move \/ StartActions \/ HandleActions \/ UNCHANGED vars
    BY <2>3 DEF Cascade, CascadeTo, PruneWaiting, Move, MoveAgents, StartActions,
                HandleActions, PickDone, ServiceDone, NothingDone, Acts, vars
  <2>4. QED  BY <2>1, <2>2, <2>3 DEF Next
<1>6. QED  BY <1>2, <1>5

LEMMA GrantsInTurn ==
    SlotInv /\ [Next]_vars =>
        [mode = Fifo =>
            \A r \in Robots : r \notin CommittedRobots /\ r \in CommittedRobots' =>
                waiting # <<>> /\ Head(waiting) = r]_vars
<1> SUFFICES ASSUME SlotInv, [Next]_vars, mode = Fifo, NEW r \in Robots,
                    r \notin CommittedRobots, r \in CommittedRobots'
             PROVE  waiting # <<>> /\ Head(waiting) = r
  OBVIOUS
<1>1. SlotInv'  BY NextSlots
<1>2. CommittedRobots = assigned /\ CommittedRobots' = assigned'
  BY <1>1, CommittedAreAssigned, CommittedAreAssignedPrime DEF SlotInv, IndInv
<1>3. ~ProcessExits  BY <1>2 DEF ProcessExits
<1>4. PICK q \in Robots : ActivateGranted(q)  BY <1>3, TokensAtRest
<1>5. q = r  BY <1>2, <1>4 DEF ActivateGranted
<1>6. QED  BY <1>4, <1>5, GrantToHead DEF ActivateGranted

-----------------------------------------------------------------------------
(* Every slot of the zone, its stage and the handoff cells agree, in every  *)
(* zone, contract and fleet.                                                *)
THEOREM SlotsExact == Spec => []SlotsMatchStages
<1>1. SlotInv => SlotsMatchStages  BY DEF SlotInv
<1>2. QED  BY <1>1, SlotsInductive, PTL

(* Under the committed contracts check-in never refuses a robot for want of *)
(* a slot.                                                                  *)
THEOREM ArrivalsFit == Spec => []ArrivalFindsRoom
BY SlotsInductive, RoomForOneMore, PTL

(* In FIFO mode tokens are granted in the order of the waiting list.        *)
THEOREM GrantsInOrder == Spec => GrantsFollowTheQueue
<1>1. SlotInv /\ [Next]_vars =>
        [mode = Fifo =>
            \A r \in Robots : r \notin CommittedRobots /\ r \in CommittedRobots' =>
                waiting # <<>> /\ Head(waiting) = r]_vars
  BY GrantsInTurn
<1>2. QED  BY <1>1, SlotsInductive, PTL DEF Spec, GrantsFollowTheQueue

-----------------------------------------------------------------------------
(* The tokens AdmissionContract speaks of.                                  *)
Held == IF mode = Legacy THEN {} ELSE CommittedRobots

LEMMA SameCount == ASSUME NEW S PROVE Contract!Cardinality(S) = Cardinality(S)
BY DEF Contract!Cardinality, Cardinality

LEMMA InitKeepsContract == Init => Contract!Init
<1> SUFFICES ASSUME Init PROVE Contract!Init
  OBVIOUS
<1>1. SlotInv  BY InitSlots
<1>2. CommittedRobots = assigned  BY <1>1, CommittedAreAssigned DEF SlotInv, IndInv
<1>3. QED  BY <1>2 DEF Init, EmptyStation, Contract!Init

(* A list without entries is empty.                                         *)
LEMMA EmptyRange == ASSUME NEW S, NEW q \in Seq(S), Range(q) = {} PROVE q = <<>>
<1>1. Len(q) \in Nat /\ DOMAIN q = 1 .. Len(q)  BY LenProperties
<1>2. Len(q) = 0
  <2>1. ASSUME Len(q) >= 1 PROVE FALSE
    <3>1. q[1] \in Range(q)  BY <1>1, <2>1 DEF Range
    <3>2. QED  BY <3>1
  <2>2. QED  BY <1>1, <2>1
<1>3. QED  BY <1>2, EmptySeq

(* Outside FIFO mode nobody is on the waiting list.                         *)
LEMMA NobodyWaits == ASSUME SlotInv, mode # Fifo PROVE waiting = <<>>
<1>1. Range(waiting) = {} /\ waiting \in Seq(Robots)
  BY WaitingList DEF SlotInv, StagesFitMode
<1>2. QED  BY <1>1, EmptyRange

LEMMA NobodyWaitsPrime == ASSUME SlotInv', mode' # Fifo PROVE waiting' = <<>>
<1>1. Range(waiting') = {} /\ waiting' \in Seq(Robots)
  BY DEF SlotInv, StagesFitMode, IndInv, TypeOK, WaitersMatchStages, Waiters
<1>2. QED  BY <1>1, EmptyRange

(* In FIFO mode a robot whose token is rolled back goes to the tail.        *)
LEMMA RolledBackToTail ==
    ASSUME SlotInv, mode = Fifo, NEW r \in Robots, ActivateRolledBack(r)
    PROVE  waiting # <<>> /\ waiting' = Append(Tail(waiting), Head(waiting))
<1>1. waiting # <<>> /\ Head(waiting) = r /\ WaitingAfterReserve(r) = Tail(waiting)
  BY GrantToHead DEF ActivateRolledBack
<1>2. Range(Tail(waiting)) = Range(waiting) \ {r}
  BY <1>1, WaitingList, TailDistinct DEF SlotInv
<1>3. Without(Tail(waiting), {r}) = Tail(waiting)  BY <1>2 DEF Without
<1>4. QED  BY <1>1, <1>3 DEF ActivateRolledBack, UsesExplicitWaiting

(* A granted token is a Grant of the contract, but for the legacy mode.     *)
LEMMA GrantedKeepsContract ==
    ASSUME SlotInv, SlotInv', NEW r \in Robots, ActivateGranted(r)
    PROVE  Contract!Grant(r) \/ UNCHANGED <<Held, waiting>>
<1>1. /\ Considered(r) /\ ReserveGrants(r) /\ waiting' = WaitingAfterReserve(r)
      /\ assigned' = assigned \cup {r} /\ mode' = mode
      /\ r \notin CommittedRobots
  BY ConsideredFacts DEF ActivateGranted, SlotInv
<1>2. CommittedRobots = assigned /\ CommittedRobots' = assigned'
  BY CommittedAreAssigned, CommittedAreAssignedPrime DEF SlotInv, IndInv
<1>3. CASE mode = Legacy
  <2>1. waiting' = waiting  BY <1>1, <1>3 DEF WaitingAfterReserve, Legacy, Fifo
  <2>2. QED  BY <2>1, <1>1, <1>3 DEF Held
<1>4. CASE mode # Legacy
  <2>1. Cardinality(CommittedRobots) < Capacity  BY <1>1, <1>4 DEF ReserveGrants, Load
  <2>2. /\ waiting # <<>> => Head(waiting) = r
        /\ waiting' = IF waiting = <<>> THEN waiting ELSE Tail(waiting)
    <3>1. CASE mode = Fifo  BY <3>1, <1>1, GrantToHead
    <3>2. CASE mode # Fifo
      <4>1. waiting = <<>>  BY <3>2, NobodyWaits
      <4>2. waiting' = waiting  BY <3>2, <1>1 DEF WaitingAfterReserve
      <4>3. QED  BY <4>1, <4>2
    <3>3. QED  BY <3>1, <3>2
  <2>3. QED  BY <1>1, <1>2, <1>4, <2>1, <2>2, SameCount DEF Contract!Grant
<1>5. QED  BY <1>3, <1>4

(* At most one token comes back at a time: that of the service slot.        *)
LEMMA ExitKeepsContract ==
    ASSUME SlotInv, SlotInv', ProcessExits
    PROVE  (\E r \in Robots : Contract!Release(r)) \/ UNCHANGED <<Held, waiting>>
<1>1. PICK out \in SUBSET {r \in Robots : stage[r] = "exiting"} :
        /\ assigned' = assigned \ out
        /\ waiting' = Without(waiting, out)
        /\ mode' = mode
  BY DEF ProcessExits
<1>2. waiting' = waiting
  <2>1. Range(waiting) \cap out = {}  BY WaitingList DEF SlotInv
  <2>2. QED  BY <1>1, <2>1 DEF Without
<1>3. CommittedRobots = assigned /\ CommittedRobots' = assigned'
  BY CommittedAreAssigned, CommittedAreAssignedPrime DEF SlotInv, IndInv
<1>4. out \subseteq assigned /\ \A r, s \in out : r = s
  BY <1>1 DEF SlotInv, IndInv, TokensMatchStages, SlotsMatchStages
<1>5. CASE mode = Legacy \/ out = {}  BY <1>1, <1>2, <1>3, <1>5 DEF Held
<1>6. CASE mode # Legacy /\ out # {}
  <2>1. PICK r \in out : TRUE  BY <1>6
  <2>2. out = {r} /\ r \in Robots /\ r \in assigned  BY <2>1, <1>1, <1>4
  <2>3. Contract!Release(r)
    BY <1>1, <1>2, <1>3, <1>6, <2>2 DEF Contract!Release
  <2>4. QED  BY <2>2, <2>3
<1>7. QED  BY <1>5, <1>6

(* The rest of the planning scan leaves the tokens alone; a rollback sends  *)
(* the head of the list to its tail.                                        *)
LEMMA PlanKeepsContract ==
    ASSUME SlotInv, SlotInv', PlanAndActivate
    PROVE  \/ \E r \in Robots : Contract!Grant(r)
           \/ Contract!GiveBack
           \/ UNCHANGED <<Held, waiting>>
<1>1. CASE \E r \in Robots : ActivateGranted(r)  BY <1>1, GrantedKeepsContract
<1>2. ASSUME NEW r \in Robots, ActivateRejected(r) PROVE UNCHANGED <<Held, waiting>>
  <2>1. /\ assigned' = assigned /\ mode' = mode /\ slot' = slot
        /\ ~ReserveGrants(r) /\ r \notin CommittedRobots
        /\ stage[r] \in {"waiting", "ready"}
        /\ waiting' = WaitingAfterReserve(r)
    BY <1>2, ConsideredFacts DEF ActivateRejected, SlotInv
  <2>2. waiting' = waiting
    <3>1. CASE mode = Fifo
      <4>1. r \in Range(waiting)  BY <2>1, <3>1, WaitingList DEF SlotInv, StagesFitMode
      <4>2. QED  BY <2>1, <3>1, <4>1 DEF WaitingAfterReserve, Enqueued
    <3>2. CASE mode # Fifo  BY <2>1, <3>2 DEF WaitingAfterReserve
    <3>3. QED  BY <3>1, <3>2
  <2>3. Held' = Held  BY <2>1 DEF Held, CommittedRobots, Physical
  <2>4. QED  BY <2>2, <2>3
<1>3. ASSUME NEW r \in Robots, ActivateRolledBack(r)
      PROVE  Contract!GiveBack \/ UNCHANGED <<Held, waiting>>
  <2>1. /\ Considered(r) /\ ReserveGrants(r) /\ r \notin CommittedRobots
        /\ mode' = mode /\ slot' = slot
    BY <1>3, ConsideredFacts DEF ActivateRolledBack, SlotInv
  <2>2. assigned' = assigned
    BY <1>3, <2>1 DEF ActivateRolledBack, CommittedRobots
  <2>3. CommittedRobots' = CommittedRobots /\ Held' = Held
    BY <2>1, <2>2 DEF Held, CommittedRobots, Physical
  <2>4. CASE mode = Fifo
    <3>1. waiting # <<>> /\ waiting' = Append(Tail(waiting), Head(waiting))
      BY <1>3, <2>4, RolledBackToTail
    <3>2. Cardinality(CommittedRobots) < Capacity
      BY <2>1, <2>4 DEF ReserveGrants, Load, Legacy, Fifo
    <3>3. mode # Legacy /\ mode' # Legacy  BY <2>1, <2>4 DEF Legacy, Fifo
    <3>4. QED  BY <2>3, <3>1, <3>2, <3>3, SameCount DEF Contract!GiveBack
  <2>5. CASE mode # Fifo
    <3>1. waiting = <<>> /\ waiting' = <<>>  BY <2>1, <2>5, NobodyWaits, NobodyWaitsPrime
    <3>2. QED  BY <2>3, <3>1
  <2>6. QED  BY <2>4, <2>5
<1>4. CASE UNCHANGED <<slot, assigned, waiting, mode>>
  BY <1>4 DEF Held, CommittedRobots, Physical
<1>5. QED  BY <1>1, <1>2, <1>3, <1>4 DEF PlanAndActivate, ActivateSkip

(* Of the other steps only a pickup in FIFO mode shows: the robot asks to   *)
(* be admitted.                                                             *)
LEMMA PickKeepsContract ==
    ASSUME SlotInv, NEW r \in Robots, PickDone(r)
    PROVE  Contract!Request(r) \/ UNCHANGED <<Held, waiting>>
<1>1. /\ stage[r] = "away" /\ mode' = mode /\ slot' = slot /\ assigned' = assigned
      /\ waiting' = IF mode = Fifo THEN Enqueued(waiting, r) ELSE waiting
  BY DEF PickDone, Acts, UsesExplicitWaiting
<1>2. Held' = Held  BY <1>1 DEF Held, CommittedRobots, Physical
<1>3. r \notin Range(waiting) /\ r \notin CommittedRobots
  BY <1>1, WaitingList, CommittedAreAssigned DEF SlotInv, IndInv, TokensMatchStages
<1>4. CASE mode = Fifo
  <2>1. waiting' = Append(waiting, r)  BY <1>1, <1>3, <1>4 DEF Enqueued
  <2>2. QED  BY <1>2, <1>3, <2>1 DEF Contract!Request, Contract!Range, Range, Held
<1>5. CASE mode # Fifo  BY <1>1, <1>2, <1>5
<1>6. QED  BY <1>4, <1>5

LEMMA StepKeepsContract ==
    SlotInv /\ [Next]_vars => [Contract!Next]_<<Held, waiting>>
<1> SUFFICES ASSUME SlotInv, [Next]_vars PROVE Contract!Next \/ UNCHANGED <<Held, waiting>>
  OBVIOUS
<1>1. SlotInv'  BY NextSlots
<1>2. CASE ProcessExits  BY <1>1, <1>2, ExitKeepsContract DEF Contract!Next
<1>3. CASE PlanAndActivate  BY <1>1, <1>3, PlanKeepsContract DEF Contract!Next
<1>4. CASE HandleActions
  <2>1. CASE \E r \in Robots : PickDone(r)  BY <2>1, PickKeepsContract DEF Contract!Next
  <2>2. CASE UNCHANGED <<slot, assigned, waiting, mode>>
    BY <2>2 DEF Held, CommittedRobots, Physical
  <2>3. QED  BY <1>4, <2>1, <2>2 DEF HandleActions, ServiceDone, NothingDone, Acts
<1>5. CASE ~ProcessExits /\ ~PlanAndActivate /\ ~HandleActions
  <2>1. CommittedRobots' = CommittedRobots
    BY <1>5, TokensAtRest DEF PlanAndActivate
  <2>2. mode' = mode
    BY <1>5 DEF Next, vars, Cascade, CascadeTo, AbsorbStranded, AbsorbArrivals,
                CheckQueueArrivals, PruneWaiting, Move, MoveAgents, StartActions
  <2>3. waiting' = waiting
    <3>1. CASE PruneWaiting
      <4>1. Range(waiting) \cap {r \in Robots : stage[r] # "waiting"} = {}
        BY WaitingList DEF SlotInv
      <4>2. QED  BY <3>1, <4>1 DEF PruneWaiting, Without
    <3>2. CASE AbsorbStranded \/ AbsorbArrivals
      BY <3>2 DEF AbsorbStranded, AbsorbArrivals, CheckQueueArrivals, CheckIn,
                  CommittedRobots, SlotInv, IndInv, TokensMatchStages
    <3>3. CASE Cascade \/ Move \/ StartActions \/ UNCHANGED vars
      BY <3>3 DEF Cascade, CascadeTo, Move, MoveAgents, StartActions, vars
    <3>4. QED  BY <1>5, <3>1, <3>2, <3>3 DEF Next
  <2>4. QED  BY <2>1, <2>2, <2>3 DEF Held
<1>6. QED  BY <1>2, <1>3, <1>4, <1>5

(* The station implements AdmissionContract: the committed contracts keep   *)
(* its bound and its order, the legacy one hands out no tokens at all.      *)
THEOREM ImplementsContract == Spec => ContractSpec
<1>1. SlotInv /\ [Next]_vars => [Contract!Next]_<<Held, waiting>>  BY StepKeepsContract
<1>2. Init => Contract!Init  BY InitKeepsContract
<1>3. QED
  BY <1>1, <1>2, SlotsInductive, PTL DEF Spec, ContractSpec, Contract!Spec, Held

===============================================================================
