----------------------- MODULE DynamicAdmission_proofs -----------------------
(***************************************************************************)
(* Machine-checked theorems about DynamicAdmission, for any finite set of   *)
(* robots, any capacity, hard limit, weights, windows and thresholds.       *)
(***************************************************************************)
EXTENDS DynamicAdmission, FiniteSetTheorems, SequenceTheorems, TLAPS

Visiting == {"travelling", "arrived", "queuing", "delivering", "exiting"}
Inside   == {"queuing", "delivering", "exiting"}

(* What the induction needs to know of the types.                           *)
Standing ==
    /\ todo \subseteq Robots
    /\ stage \in [Robots -> Stage]
    /\ slot \in [Cells -> Robots \cup {Nobody}]
    /\ assigned \subseteq Robots
    /\ distance \in [Robots -> 0 .. Far]
    /\ eta \in [Robots -> Nat \cup {NoToken}]

(* Everybody in a slot is a visitor, so the slots add nothing to the load.  *)
SlotsHoldVisitors ==
    \A c \in Cells : slot[c] # Nobody => stage[slot[c]] \in Inside

(* The scan has only robots before it that ask for a token.                 *)
ScanAwaitsTokens ==
    step = "plan" => \A r \in todo : stage[r] \in {"waiting", "ready"}

(* The inductive invariant.                                                 *)
DynamicInv ==
    /\ Standing
    /\ LedgersAgree
    /\ SlotsHoldVisitors
    /\ ScanAwaitsTokens
    /\ HardLimitHolds

-----------------------------------------------------------------------------
LEMMA CommittedAreAssigned ==
    ASSUME Standing, LedgersAgree, SlotsHoldVisitors
    PROVE  CommittedRobots = assigned
<1>1. Physical \subseteq assigned
  <2>1. SUFFICES ASSUME NEW c \in Cells, slot[c] # Nobody PROVE slot[c] \in assigned
    BY DEF Physical
  <2>2. slot[c] \in Robots  BY <2>1 DEF Standing
  <2>3. stage[slot[c]] \in Inside  BY <2>1 DEF SlotsHoldVisitors
  <2>4. QED  BY <2>2, <2>3 DEF LedgersAgree, TokensMatchStages, Inside
<1>2. QED  BY <1>1 DEF CommittedRobots

LEMMA CommittedAreAssignedPrime ==
    ASSUME Standing', LedgersAgree', SlotsHoldVisitors'
    PROVE  CommittedRobots' = assigned'
<1>1. Physical' \subseteq assigned'
  <2>1. SUFFICES ASSUME NEW c \in Cells, slot'[c] # Nobody PROVE slot'[c] \in assigned'
    BY DEF Physical
  <2>2. slot'[c] \in Robots  BY <2>1 DEF Standing
  <2>3. stage'[slot'[c]] \in Inside  BY <2>1 DEF SlotsHoldVisitors
  <2>4. QED  BY <2>2, <2>3 DEF LedgersAgree, TokensMatchStages, Inside
<1>2. QED  BY <1>1 DEF CommittedRobots

(* The load stays within the hard limit if no token is given, or one while  *)
(* the load is below it.                                                    *)
LEMMA LoadBounded ==
    ASSUME DynamicInv, Standing', LedgersAgree', SlotsHoldVisitors',
           \/ assigned' \subseteq assigned
           \/ /\ Cardinality(CommittedRobots) < HardLimit
              /\ \E r \in Robots \ assigned : assigned' = assigned \cup {r}
    PROVE  HardLimitHolds'
<1>1. CommittedRobots = assigned /\ CommittedRobots' = assigned'
  BY CommittedAreAssigned, CommittedAreAssignedPrime DEF DynamicInv
<1>2. IsFiniteSet(assigned)
  BY RobotsAssumption, FS_Subset DEF DynamicInv, Standing
<1>3. Cardinality(assigned) \in Nat  BY <1>2, FS_CardinalityType
<1>4. CASE assigned' \subseteq assigned
  <2>1. Cardinality(assigned') <= Cardinality(assigned)  BY <1>2, <1>4, FS_Subset
  <2>2. Cardinality(assigned') \in Nat  BY <1>2, <1>4, FS_Subset, FS_CardinalityType
  <2>3. QED  BY <2>1, <2>2, <1>1, <1>3, LimitsAssumption DEF DynamicInv, HardLimitHolds
<1>5. CASE /\ Cardinality(CommittedRobots) < HardLimit
           /\ \E r \in Robots \ assigned : assigned' = assigned \cup {r}
  <2>1. Cardinality(assigned') = Cardinality(assigned) + 1
    BY <1>2, <1>5, FS_AddElement
  <2>2. QED  BY <2>1, <1>1, <1>3, <1>5, LimitsAssumption DEF HardLimitHolds
<1>6. QED  BY <1>4, <1>5

(* A step that moves robots without touching a slot or a token.             *)
LEMMA CalmStep ==
    ASSUME DynamicInv, Standing', ScanAwaitsTokens', UNCHANGED <<slot, assigned>>,
           \A r \in Robots : /\ eta'[r] # NoToken <=> eta[r] # NoToken
                             /\ stage'[r] \in Visiting <=> stage[r] \in Visiting
                             /\ stage[r] \in Inside => stage'[r] \in Inside
    PROVE  DynamicInv'
<1>1. LedgersAgree'
  BY DEF DynamicInv, LedgersAgree, TokensMatchStages, Visiting
<1>2. SlotsHoldVisitors'
  <2>1. SUFFICES ASSUME NEW c \in Cells, slot'[c] # Nobody PROVE stage'[slot'[c]] \in Inside
    BY DEF SlotsHoldVisitors
  <2>2. slot[c] \in Robots /\ stage[slot[c]] \in Inside
    BY <2>1 DEF DynamicInv, Standing, SlotsHoldVisitors
  <2>3. QED  BY <2>2
<1>3. HardLimitHolds'  BY <1>1, <1>2, LoadBounded
<1>4. QED  BY <1>1, <1>2, <1>3 DEF DynamicInv

-----------------------------------------------------------------------------
LEMMA InitInv == DynamicInit => DynamicInv
<1> SUFFICES ASSUME DynamicInit PROVE DynamicInv
  OBVIOUS
<1>1. Standing
  BY EtasAssumption DEF DynamicInit, EmptyStation, Standing, Stage, NoToken
<1>2. LedgersAgree
  BY DEF DynamicInit, EmptyStation, LedgersAgree, TokensMatchStages
<1>3. SlotsHoldVisitors /\ ScanAwaitsTokens
  BY DEF DynamicInit, EmptyStation, SlotsHoldVisitors, ScanAwaitsTokens
<1>4. CommittedRobots = {}
  BY <1>1, <1>2, <1>3, CommittedAreAssigned DEF DynamicInit, EmptyStation
<1>5. HardLimitHolds
  BY <1>4, FS_EmptySet, LimitsAssumption DEF HardLimitHolds
<1>6. QED  BY <1>1, <1>2, <1>3, <1>5 DEF DynamicInv

LEMMA CascadeInv == DynamicInv /\ CascadeAndObserve => DynamicInv'
<1> SUFFICES ASSUME DynamicInv, CascadeAndObserve PROVE DynamicInv'
  OBVIOUS
<1> DEFINE Queuing == {r \in Robots : stage[r] = "queuing"}
           Serving == {c \in Cells : slot[c] \notin Queuing \cup {Nobody}}
<1>1. PICK place \in [Queuing -> 0 .. Capacity] :
        /\ slot' = [c \in Cells |-> IF \E r \in Queuing : place[r] = c
                                    THEN CHOOSE r \in Queuing : place[r] = c
                                    ELSE IF c \in Serving THEN slot[c] ELSE Nobody]
        /\ stage' = [r \in Robots |-> IF r \in Queuing /\ place[r] = 0
                                      THEN "delivering" ELSE stage[r]]
        /\ step' = "exits"
        /\ UNCHANGED <<todo, assigned, distance, eta>>
  BY DEF CascadeAndObserve, Cascade, CascadeTo
<1>2. \A r \in Robots : \/ stage'[r] = stage[r]
                        \/ stage[r] = "queuing" /\ stage'[r] = "delivering"
  BY <1>1
<1>3. \A c \in Cells : \/ slot'[c] = Nobody
                       \/ slot'[c] \in Robots /\ stage[slot'[c]] \in Inside
  <2>1. TAKE c \in Cells
  <2>2. CASE \E r \in Queuing : place[r] = c
    <3>1. slot'[c] \in Queuing  BY <1>1, <2>2
    <3>2. QED  BY <3>1 DEF Inside
  <2>3. CASE ~\E r \in Queuing : place[r] = c
    <3>1. slot'[c] = slot[c] \/ slot'[c] = Nobody  BY <1>1, <2>3
    <3>2. QED  BY <3>1 DEF DynamicInv, Standing, SlotsHoldVisitors
  <2>4. QED  BY <2>2, <2>3
<1>4. slot' \in [Cells -> Robots \cup {Nobody}]
  <2>1. slot' = [c \in Cells |-> slot'[c]]  BY <1>1
  <2>2. QED  BY <2>1, <1>3
<1>5. Standing'  BY <1>1, <1>4 DEF DynamicInv, Standing, Stage
<1>6. LedgersAgree'
  BY <1>1, <1>2 DEF DynamicInv, LedgersAgree, TokensMatchStages
<1>7. SlotsHoldVisitors'
  <2>1. SUFFICES ASSUME NEW c \in Cells, slot'[c] # Nobody PROVE stage'[slot'[c]] \in Inside
    BY DEF SlotsHoldVisitors
  <2>2. slot'[c] \in Robots /\ stage[slot'[c]] \in Inside  BY <2>1, <1>3
  <2>3. QED  BY <2>2, <1>2 DEF Inside
<1>8. ScanAwaitsTokens'  BY <1>1 DEF ScanAwaitsTokens
<1>9. HardLimitHolds'  BY <1>1, <1>5, <1>6, <1>7, LoadBounded
<1>10. QED  BY <1>5, <1>6, <1>7, <1>8, <1>9 DEF DynamicInv

LEMMA ExitInv == DynamicInv /\ ExitAndRecord => DynamicInv'
<1> SUFFICES ASSUME DynamicInv, ExitAndRecord PROVE DynamicInv'
  OBVIOUS
<1>1. PICK out \in SUBSET {r \in Robots : stage[r] = "exiting"} :
        /\ stage' = [r \in Robots |-> IF stage[r] = "exited" THEN "leaving"
                                      ELSE IF r \in out THEN "exited" ELSE stage[r]]
        /\ slot' = [c \in Cells |-> IF slot[c] \in out THEN Nobody ELSE slot[c]]
        /\ assigned' = assigned \ out
        /\ step' = "absorb"
        /\ UNCHANGED <<todo, distance>>
  BY DEF ExitAndRecord, ProcessExits
<1>2. eta' = [r \in Robots |-> IF r \in assigned \ assigned' THEN NoToken ELSE eta[r]]
  BY DEF ExitAndRecord
<1>3. \A r \in Robots : stage'[r] = IF stage[r] = "exited" THEN "leaving"
                                    ELSE IF r \in out THEN "exited" ELSE stage[r]
  BY <1>1
<1>4. Standing'
  <2>1. stage' \in [Robots -> Stage]
    <3>1. \A r \in Robots : stage'[r] \in Stage  BY <1>3 DEF DynamicInv, Standing, Stage
    <3>2. QED  BY <1>1, <3>1
  <2>2. slot' \in [Cells -> Robots \cup {Nobody}]  BY <1>1 DEF DynamicInv, Standing
  <2>3. eta' \in [Robots -> Nat \cup {NoToken}]  BY <1>2 DEF DynamicInv, Standing
  <2>4. QED  BY <1>1, <2>1, <2>2, <2>3 DEF DynamicInv, Standing
<1>5. LedgersAgree'
  <2>1. TokensMatchStages'
    BY <1>1, <1>3 DEF DynamicInv, LedgersAgree, TokensMatchStages
  <2>2. \A r \in Robots : eta'[r] # NoToken <=> r \in assigned'
    BY <1>1, <1>2 DEF DynamicInv, LedgersAgree
  <2>3. QED  BY <2>1, <2>2 DEF LedgersAgree
<1>6. SlotsHoldVisitors'
  <2>1. SUFFICES ASSUME NEW c \in Cells, slot'[c] # Nobody PROVE stage'[slot'[c]] \in Inside
    BY DEF SlotsHoldVisitors
  <2>2. slot'[c] = slot[c] /\ slot[c] \notin out /\ slot[c] \in Robots
    BY <1>1, <2>1 DEF DynamicInv, Standing
  <2>3. stage[slot[c]] \in Inside  BY <2>1, <2>2 DEF DynamicInv, SlotsHoldVisitors
  <2>4. QED  BY <1>3, <2>2, <2>3 DEF Inside
<1>7. ScanAwaitsTokens'  BY <1>1 DEF ScanAwaitsTokens
<1>8. HardLimitHolds'  BY <1>1, <1>4, <1>5, <1>6, LoadBounded
<1>9. QED  BY <1>4, <1>5, <1>6, <1>7, <1>8 DEF DynamicInv

(* A robot on the entry cell always holds its token, so that checking it in *)
(* changes its status only.                                                 *)
LEMMA AbsorbInv ==
    ASSUME NEW here, NEW next, DynamicInv, Absorb(here, next), next # "plan"
    PROVE  DynamicInv'
<1>1. /\ UNCHANGED <<todo, slot, assigned, distance, eta>> /\ step' = next
      /\ \/ stage' = stage
         \/ \E r \in Robots : stage[r] = "arrived" /\ stage' = [stage EXCEPT ![r] = "queuing"]
  <2>1. CASE \E r \in Robots : CheckInDynamic(r, next)
    <3>1. PICK r \in Robots : CheckInDynamic(r, next)  BY <2>1
    <3>2. r \in assigned /\ r \in CommittedRobots /\ eta[r] # NoToken
      BY <3>1 DEF CheckInDynamic, DynamicInv, LedgersAgree, TokensMatchStages, CommittedRobots
    <3>3. assigned' = assigned /\ eta' = eta
      BY <3>1, <3>2 DEF CheckInDynamic, Token
    <3>4. stage[r] = "arrived" /\ step' = next
          /\ (stage' = stage \/ stage' = [stage EXCEPT ![r] = "queuing"])
      BY <3>1 DEF CheckInDynamic
    <3>5. QED  BY <3>3, <3>4 DEF Absorb
  <2>2. CASE UNCHANGED <<stage, assigned, waiting, eta>> /\ step' = next
    BY <2>2 DEF Absorb
  <2>3. QED  BY <2>1, <2>2 DEF Absorb
<1>2. /\ stage' \in [Robots -> Stage]
      /\ \A r \in Robots : \/ stage'[r] = stage[r]
                           \/ stage[r] = "arrived" /\ stage'[r] = "queuing"
  BY <1>1 DEF DynamicInv, Standing, Stage
<1>3. Standing'  BY <1>1, <1>2 DEF DynamicInv, Standing
<1>4. ScanAwaitsTokens'  BY <1>1 DEF ScanAwaitsTokens
<1>5. QED  BY <1>1, <1>2, <1>3, <1>4, CalmStep DEF Visiting, Inside

LEMMA PruneInv == DynamicInv /\ Prune => DynamicInv'
<1> SUFFICES ASSUME DynamicInv, Prune PROVE DynamicInv'
  OBVIOUS
<1>1. /\ UNCHANGED <<stage, slot, assigned, distance, eta>>
      /\ todo' = {r \in Robots : stage[r] \in {"waiting", "ready"}}
  BY DEF Prune, PruneWaiting, dynamic
<1>2. Standing' /\ ScanAwaitsTokens'
  BY <1>1 DEF DynamicInv, Standing, ScanAwaitsTokens
<1>3. QED  BY <1>1, <1>2, CalmStep

-----------------------------------------------------------------------------
(* What the scan knows of the robot whose turn it is.                       *)
LEMMA AskingFacts ==
    ASSUME DynamicInv, NEW r \in Robots, Tries(r)
    PROVE  /\ stage[r] \in {"waiting", "ready"}
           /\ r \notin assigned /\ r \notin CommittedRobots /\ eta[r] = NoToken
           /\ todo' = todo \ {r} /\ step = "plan"
           /\ UNCHANGED <<step, slot>>
<1>1. stage[r] \in {"waiting", "ready"} /\ step = "plan"
  BY DEF Tries, IsNext, DynamicInv, ScanAwaitsTokens
<1>2. r \notin assigned
  BY <1>1 DEF DynamicInv, LedgersAgree, TokensMatchStages
<1>3. QED
  BY <1>1, <1>2, CommittedAreAssigned DEF Tries, DynamicInv, LedgersAgree

(* A refused or rolled back robot is as it was before it asked.             *)
LEMMA StaysInv ==
    ASSUME DynamicInv, NEW r \in Robots, Reject(r) \/ RollBack(r)
    PROVE  DynamicInv'
<1>1. Tries(r) /\ StaysPut(r)  BY DEF Reject, RollBack
<1>2. /\ stage[r] \in {"waiting", "ready"} /\ r \notin assigned /\ r \notin CommittedRobots
      /\ eta[r] = NoToken /\ todo' = todo \ {r} /\ UNCHANGED <<step, slot>>
  BY <1>1, AskingFacts
<1>3. assigned' = assigned /\ eta' = eta
  <2>1. CASE Reject(r)  BY <2>1 DEF Reject
  <2>2. CASE RollBack(r)
    <3>1. assigned' = assigned \ {r} /\ eta' = [eta EXCEPT ![r] = NoToken]
      BY <2>2, <1>2 DEF RollBack, CommittedRobots
    <3>2. QED  BY <3>1, <1>2 DEF DynamicInv, Standing
  <2>3. QED  BY <2>1, <2>2
<1>4. /\ distance' = distance
      /\ stage' \in [Robots -> Stage]
      /\ \A s \in Robots : stage'[s] = stage[s] \/ (s = r /\ stage'[s] = "waiting")
  BY <1>1 DEF StaysPut, DynamicInv, Standing, Stage
<1>5. Standing' /\ ScanAwaitsTokens'
  BY <1>2, <1>3, <1>4 DEF DynamicInv, Standing, ScanAwaitsTokens
<1>6. QED  BY <1>2, <1>3, <1>4, <1>5, CalmStep DEF Visiting, Inside

LEMMA SetOutInv == ASSUME DynamicInv, NEW r \in Robots, SetOut(r) PROVE DynamicInv'
<1>1. /\ stage[r] \in {"waiting", "ready"} /\ r \notin assigned /\ r \notin CommittedRobots
      /\ eta[r] = NoToken /\ todo' = todo \ {r} /\ UNCHANGED <<step, slot>>
  BY AskingFacts DEF SetOut
<1>2. /\ assigned' = assigned \cup {r}
      /\ eta' = [eta EXCEPT ![r] = distance[r]]
      /\ stage' = [stage EXCEPT ![r] = "travelling"]
      /\ distance' = [distance EXCEPT ![r] = 0]
  BY <1>1 DEF SetOut, Token
<1>3. distance[r] \in Nat /\ distance[r] # NoToken /\ 0 \in 0 .. Far
  BY EtasAssumption DEF DynamicInv, Standing, NoToken
<1>4. /\ stage \in [Robots -> Stage] /\ stage' \in [Robots -> Stage]
      /\ stage'[r] = "travelling" /\ \A s \in Robots \ {r} : stage'[s] = stage[s]
  BY <1>2 DEF DynamicInv, Standing, Stage
<1>5. Standing'
  BY <1>1, <1>2, <1>3, <1>4 DEF DynamicInv, Standing
<1>6. LedgersAgree'
  <2>1. TokensMatchStages'
    BY <1>2, <1>4 DEF DynamicInv, LedgersAgree, TokensMatchStages
  <2>2. \A s \in Robots : eta'[s] # NoToken <=> s \in assigned'
    BY <1>2, <1>3 DEF DynamicInv, Standing, LedgersAgree
  <2>3. QED  BY <2>1, <2>2 DEF LedgersAgree
<1>7. SlotsHoldVisitors'
  <2>1. SUFFICES ASSUME NEW c \in Cells, slot'[c] # Nobody PROVE stage'[slot'[c]] \in Inside
    BY DEF SlotsHoldVisitors
  <2>2. slot'[c] = slot[c] /\ slot[c] \in Robots /\ stage[slot[c]] \in Inside
    BY <1>1, <2>1 DEF DynamicInv, Standing, SlotsHoldVisitors
  <2>3. slot[c] # r  BY <2>2, <1>1 DEF Inside
  <2>4. QED  BY <2>2, <2>3, <1>4
<1>8. ScanAwaitsTokens'
  BY <1>1, <1>4 DEF DynamicInv, Standing, ScanAwaitsTokens
<1>9. Cardinality(CommittedRobots) < HardLimit
  BY <1>1 DEF SetOut, Grants, Admits
<1>10. HardLimitHolds'  BY <1>1, <1>2, <1>5, <1>6, <1>7, <1>9, LoadBounded
<1>11. QED  BY <1>5, <1>6, <1>7, <1>8, <1>10 DEF DynamicInv

-----------------------------------------------------------------------------
LEMMA MoveInv == DynamicInv /\ DynamicMove => DynamicInv'
<1> SUFFICES ASSUME DynamicInv, DynamicMove PROVE DynamicInv'
  OBVIOUS
<1>1. PICK comers \in Comers, goers \in Goers, entry \in EntryTraffic, exit \in BOOLEAN :
        MoveAgents(comers, goers, entry, exit)
  BY DEF DynamicMove, Move
<1>2. /\ stage' = [r \in Robots |-> IF r \in comers THEN "arrived"
                                     ELSE IF r \in goers THEN "away" ELSE stage[r]]
      /\ step' = "arrive"
      /\ UNCHANGED <<todo, slot, assigned, distance, eta>>
  BY <1>1 DEF MoveAgents, DynamicMove, dynamic
<1>3. /\ \A r \in comers : r \in Robots /\ stage[r] = "travelling"
      /\ \A r \in goers : r \in Robots /\ stage[r] = "leaving"
  BY <1>1 DEF Comers, Goers
<1>4. \A r \in Robots : \/ stage'[r] = stage[r]
                        \/ stage[r] = "travelling" /\ stage'[r] = "arrived"
                        \/ stage[r] = "leaving" /\ stage'[r] = "away"
  BY <1>2, <1>3
<1>5. stage' \in [Robots -> Stage]
  <2>1. \A r \in Robots : stage'[r] \in Stage  BY <1>4 DEF DynamicInv, Standing, Stage
  <2>2. QED  BY <1>2, <2>1
<1>6. Standing' /\ ScanAwaitsTokens'
  BY <1>2, <1>5 DEF DynamicInv, Standing, ScanAwaitsTokens
<1>7. QED  BY <1>2, <1>4, <1>6, CalmStep DEF Visiting, Inside

LEMMA ActInv == DynamicInv /\ Act => DynamicInv'
<1> SUFFICES ASSUME DynamicInv, Act PROVE DynamicInv'
  OBVIOUS
<1>1. CASE StartActions /\ UNCHANGED dynamic
  <2>1. /\ UNCHANGED <<stage, slot, assigned, distance, eta>>
        /\ todo' \subseteq Robots /\ step' = "acting"
    BY <1>1 DEF StartActions, dynamic
  <2>2. Standing' /\ ScanAwaitsTokens'
    BY <2>1 DEF DynamicInv, Standing, ScanAwaitsTokens
  <2>3. QED  BY <2>1, <2>2, CalmStep
<1>2. CASE \E r \in Robots : PickedUp(r) \/ Served(r) \/ Nothing(r)
  <2>1. PICK r \in Robots : PickedUp(r) \/ Served(r) \/ Nothing(r)  BY <1>2
  <2>2. /\ todo' = todo \ {r} /\ step = "acting"
        /\ UNCHANGED <<step, slot, assigned, eta>>
    BY <2>1 DEF PickedUp, Served, Nothing, ServiceDone, NothingDone, Acts, dynamic
  <2>3. /\ stage' \in [Robots -> Stage]
        /\ \A s \in Robots : \/ stage'[s] = stage[s]
                             \/ stage[s] = "away" /\ stage'[s] \in {"waiting", "ready"}
                             \/ stage[s] = "delivering" /\ stage'[s] = "exiting"
    BY <2>1 DEF PickedUp, Served, Nothing, ServiceDone, NothingDone, DynamicInv, Standing, Stage
  <2>4. distance' \in [Robots -> 0 .. Far]
    <3>1. CASE PickedUp(r)
      <4>1. PICK d \in 1 .. Far : distance' = [distance EXCEPT ![r] = d]
        BY <3>1 DEF PickedUp
      <4>2. d \in 0 .. Far  BY <4>1, EtasAssumption
      <4>3. QED  BY <4>1, <4>2 DEF DynamicInv, Standing
    <3>2. CASE Served(r) \/ Nothing(r)
      BY <3>2 DEF Served, Nothing, dynamic, DynamicInv, Standing
    <3>3. QED  BY <2>1, <3>1, <3>2
  <2>5. Standing' /\ ScanAwaitsTokens'
    BY <2>2, <2>3, <2>4 DEF DynamicInv, Standing, ScanAwaitsTokens
  <2>6. QED  BY <2>2, <2>3, <2>5, CalmStep DEF Visiting, Inside
<1>3. QED  BY <1>1, <1>2 DEF Act

LEMMA AdvanceInv == DynamicInv /\ AdvanceTick => DynamicInv'
<1> SUFFICES ASSUME DynamicInv, AdvanceTick PROVE DynamicInv'
  OBVIOUS
<1>1. /\ UNCHANGED <<todo, stage, slot, assigned, distance>>
      /\ step' = "cascade"
      /\ eta' = [r \in Robots |-> IF eta[r] > 0 THEN eta[r] - 1 ELSE eta[r]]
  BY DEF AdvanceTick
<1>2. \A r \in Robots : /\ eta'[r] \in Nat \cup {NoToken}
                        /\ eta'[r] # NoToken <=> eta[r] # NoToken
  BY <1>1 DEF DynamicInv, Standing, NoToken
<1>3. Standing' /\ ScanAwaitsTokens'
  BY <1>1, <1>2 DEF DynamicInv, Standing, ScanAwaitsTokens
<1>4. QED  BY <1>1, <1>2, <1>3, CalmStep

(* The end of the scan, and stuttering.                                     *)
LEMMA PauseInv ==
    ASSUME DynamicInv, UNCHANGED <<todo, stage, slot, assigned, distance, eta>>,
           step' = step \/ step' = "move"
    PROVE  DynamicInv'
<1>1. Standing' /\ ScanAwaitsTokens'
  BY DEF DynamicInv, Standing, ScanAwaitsTokens
<1>2. QED  BY <1>1, CalmStep

LEMMA NextInv == DynamicInv /\ [DynamicNext]_dynamicVars => DynamicInv'
<1> SUFFICES ASSUME DynamicInv, [DynamicNext]_dynamicVars PROVE DynamicInv'
  OBVIOUS
<1>1. CASE CascadeAndObserve  BY <1>1, CascadeInv
<1>2. CASE ExitAndRecord  BY <1>2, ExitInv
<1>3. CASE Absorb("absorb", "prune") \/ Absorb("arrive", "act")  BY <1>3, AbsorbInv
<1>4. CASE Prune  BY <1>4, PruneInv
<1>5. CASE Plan
  <2>1. CASE \E r \in Robots : Reject(r) \/ RollBack(r)  BY <2>1, StaysInv
  <2>2. CASE \E r \in Robots : SetOut(r)  BY <2>2, SetOutInv
  <2>3. CASE ScanDone  BY <2>3, PauseInv DEF ScanDone, dynamic
  <2>4. QED  BY <1>5, <2>1, <2>2, <2>3 DEF Plan
<1>6. CASE DynamicMove  BY <1>6, MoveInv
<1>7. CASE Act  BY <1>7, ActInv
<1>8. CASE AdvanceTick  BY <1>8, AdvanceInv
<1>9. CASE UNCHANGED dynamicVars  BY <1>9, PauseInv DEF dynamicVars, vars, dynamic
<1>10. QED
  BY <1>1, <1>2, <1>3, <1>4, <1>5, <1>6, <1>7, <1>8, <1>9 DEF DynamicNext

LEMMA Inductive == DynamicSpec => []DynamicInv
BY InitInv, NextInv, PTL DEF DynamicSpec

(* However the weights, windows and thresholds are tuned, the robots inside *)
(* and on their way stay within the hard limit: the RuntimeError of reserve *)
(* is unreachable.                                                          *)
THEOREM OverbookingBounded == DynamicSpec => []HardLimitHolds
<1>1. DynamicInv => HardLimitHolds  BY DEF DynamicInv
<1>2. QED  BY <1>1, Inductive, PTL

(* _assigned_agents and _dynamic_tokens hold the same robots, those between *)
(* the activation of their DELIVER and their exit: no grant is revoked on   *)
(* the way, and no prediction outlives its token.                           *)
THEOREM PredictionsMatchTokens == DynamicSpec => []LedgersAgree
<1>1. DynamicInv => LedgersAgree  BY DEF DynamicInv
<1>2. QED  BY <1>1, Inductive, PTL

(***************************************************************************)
(* The order in which the dynamic contracts serve: the dispatch queue and   *)
(* who may pass whom.                                                       *)
(***************************************************************************)

(* Robots wait explicitly under the dispatch-queue contract and nowhere else.*)
StagesFitContract ==
    \A r \in Robots : stage[r] # (IF mode = DispatchQueue THEN "ready" ELSE "waiting")

(* The inductive invariant, extended by the dispatch queue.                 *)
OrderInv == /\ DynamicInv
            /\ waiting \in Seq(Robots)
            /\ WaitersMatchStages
            /\ StagesFitContract
            /\ cadence \in Intervals

-----------------------------------------------------------------------------
(* Lists without repetitions: what removing and inserting one element do.   *)
Distinct(q) == \A i, j \in DOMAIN q : q[i] = q[j] => i = j

KeepsOrder(q, s) ==
    \A i, j \in DOMAIN q, k, l \in DOMAIN s :
        i < j /\ q[i] = s[k] /\ q[j] = s[l] => k < l

LEMMA RemovedElements ==
    ASSUME NEW S, NEW q \in Seq(S), NEW p \in 1 .. Len(q)
    PROVE  /\ RemoveAt(q, p) \in Seq(S)
           /\ Len(RemoveAt(q, p)) = Len(q) - 1
           /\ \A k \in 1 .. Len(q) - 1 :
                  RemoveAt(q, p)[k] = IF k < p THEN q[k] ELSE q[k + 1]
<1> DEFINE front == SubSeq(q, 1, p - 1)
           back == SubSeq(q, p + 1, Len(q))
<1>1. Len(q) \in Nat /\ p \in Nat  BY LenProperties
<1>2. /\ front \in Seq(S) /\ Len(front) = p - 1
      /\ \A i \in 1 .. p - 1 : front[i] = q[i]
  <2>1. 1 \in 1 .. Len(q) + 1 /\ p - 1 \in 0 .. Len(q)  BY <1>1
  <2>2. QED  BY <2>1, <1>1, SubSeqProperties
<1>3. /\ back \in Seq(S) /\ Len(back) = Len(q) - p
      /\ \A i \in 1 .. Len(q) - p : back[i] = q[p + i]
  <2>1. p + 1 \in 1 .. Len(q) + 1 /\ Len(q) \in 0 .. Len(q)  BY <1>1
  <2>2. QED  BY <2>1, <1>1, SubSeqProperties
<1> HIDE DEF front, back
<1>4. /\ front \o back \in Seq(S)
      /\ Len(front \o back) = Len(front) + Len(back)
      /\ \A i \in 1 .. Len(front) + Len(back) :
             (front \o back)[i] = IF i <= Len(front) THEN front[i] ELSE back[i - Len(front)]
  BY <1>2, <1>3, ConcatProperties
<1>5. Len(front \o back) = Len(q) - 1  BY <1>1, <1>2, <1>3, <1>4
<1>6. \A k \in 1 .. Len(q) - 1 :
          (front \o back)[k] = IF k < p THEN q[k] ELSE q[k + 1]
  <2>1. TAKE k \in 1 .. Len(q) - 1
  <2>2. (front \o back)[k] = IF k <= p - 1 THEN front[k] ELSE back[k - (p - 1)]
    BY <1>1, <1>2, <1>3, <1>4
  <2>3. CASE k < p
    <3>1. k \in 1 .. p - 1 /\ k <= p - 1  BY <2>3, <1>1
    <3>2. QED  BY <3>1, <2>2, <2>3, <1>2
  <2>4. CASE k >= p
    <3>1. k - (p - 1) \in 1 .. Len(q) - p /\ ~(k <= p - 1) /\ p + (k - (p - 1)) = k + 1
      BY <2>4, <1>1
    <3>2. QED  BY <3>1, <2>2, <2>4, <1>1, <1>3
  <2>5. k < p \/ k >= p  BY <1>1
  <2>6. QED  BY <2>3, <2>4, <2>5, Zenon
<1>7. QED  BY <1>4, <1>5, <1>6 DEF RemoveAt, front, back

LEMMA RemoveFirstIs ==
    ASSUME NEW S, NEW q \in Seq(S), Distinct(q), NEW r
    PROVE  \/ r \notin Range(q) /\ RemoveFirst(q, r) = q
           \/ \E p \in 1 .. Len(q) : q[p] = r /\ RemoveFirst(q, r) = RemoveAt(q, p)
<1>1. DOMAIN q = 1 .. Len(q)  BY LenProperties
<1>2. CASE r \notin Range(q)
  <2>1. ~\E i \in 1 .. Len(q) : q[i] = r  BY <1>1, <1>2 DEF Range
  <2>2. QED  BY <2>1, <1>2 DEF RemoveFirst
<1>3. CASE r \in Range(q)
  <2>1. PICK p \in 1 .. Len(q) : q[p] = r  BY <1>1, <1>3 DEF Range
  <2>2. {i \in 1 .. Len(q) : q[i] = r} = {p}  BY <2>1, <1>1 DEF Distinct
  <2>3. Min({p}) = p  BY LenProperties DEF Min
  <2>4. SelectInSeq(q, LAMBDA v : v = r) = p
    BY <2>2, <2>3 DEF SelectInSeq
  <2>5. QED  BY <2>1, <2>4 DEF RemoveFirst
<1>4. QED  BY <1>2, <1>3

LEMMA InsertedElements ==
    ASSUME NEW S, NEW q \in Seq(S), NEW n \in 1 .. Len(q) + 1, NEW r \in S
    PROVE  /\ InsertAt(q, n, r) \in Seq(S)
           /\ Len(InsertAt(q, n, r)) = Len(q) + 1
           /\ \A k \in 1 .. Len(q) + 1 :
                  InsertAt(q, n, r)[k]
                      = IF k < n THEN q[k] ELSE IF k = n THEN r ELSE q[k - 1]
<1> DEFINE front == SubSeq(q, 1, n - 1)
           back == SubSeq(q, n, Len(q))
<1>1. Len(q) \in Nat /\ n \in Nat  BY LenProperties
<1>2. /\ front \in Seq(S) /\ Len(front) = n - 1
      /\ \A i \in 1 .. n - 1 : front[i] = q[i]
  <2>1. 1 \in 1 .. Len(q) + 1 /\ n - 1 \in 0 .. Len(q)  BY <1>1
  <2>2. QED  BY <2>1, <1>1, SubSeqProperties
<1>3. /\ back \in Seq(S) /\ Len(back) = Len(q) - n + 1
      /\ \A i \in 1 .. Len(q) - n + 1 : back[i] = q[n + i - 1]
  <2>1. Len(q) \in 0 .. Len(q)  BY <1>1
  <2>2. QED  BY <2>1, <1>1, SubSeqProperties
<1> HIDE DEF front, back
<1>4. /\ <<r>> \in Seq(S) /\ Len(<<r>>) = 1 /\ <<r>>[1] = r
  OBVIOUS
<1>5. /\ front \o <<r>> \in Seq(S)
      /\ Len(front \o <<r>>) = n
      /\ \A i \in 1 .. n :
             (front \o <<r>>)[i] = IF i < n THEN q[i] ELSE r
  BY <1>1, <1>2, <1>4, ConcatProperties
<1> DEFINE most == front \o <<r>>
<1> HIDE DEF most
<1>6. /\ most \in Seq(S) /\ Len(most) = n
      /\ \A i \in 1 .. n : most[i] = IF i < n THEN q[i] ELSE r
  BY <1>5 DEF most
<1>7. /\ most \o back \in Seq(S)
      /\ Len(most \o back) = Len(most) + Len(back)
      /\ \A i \in 1 .. Len(most) + Len(back) :
             (most \o back)[i] = IF i <= Len(most) THEN most[i] ELSE back[i - Len(most)]
  BY <1>3, <1>6, ConcatProperties
<1>8. Len(most \o back) = Len(q) + 1  BY <1>1, <1>3, <1>6, <1>7
<1>9. \A k \in 1 .. Len(q) + 1 :
          (most \o back)[k] = IF k < n THEN q[k] ELSE IF k = n THEN r ELSE q[k - 1]
  <2>1. TAKE k \in 1 .. Len(q) + 1
  <2>2. (most \o back)[k] = IF k <= n THEN most[k] ELSE back[k - n]
    BY <2>1, <1>1, <1>3, <1>6, <1>7
  <2>3. CASE k <= n
    <3>1. k \in 1 .. n  BY <2>1, <2>3, <1>1
    <3>2. QED  BY <3>1, <2>2, <2>3, <1>6, <1>1
  <2>4. CASE k > n
    <3>1. k - n \in 1 .. Len(q) - n + 1 /\ ~(k <= n) /\ n + (k - n) - 1 = k - 1
      BY <2>1, <2>4, <1>1
    <3>2. back[k - n] = q[k - 1]  BY <3>1, <1>3
    <3>3. QED  BY <3>1, <3>2, <2>1, <2>2, <2>4, <1>1
  <2>5. k <= n \/ k > n  BY <1>1
  <2>6. QED  BY <2>3, <2>4, <2>5, Zenon
<1>10. QED  BY <1>7, <1>8, <1>9 DEF InsertAt, most, front, back

(* Removing or inserting one element leaves the others in their order.      *)
LEMMA RemovalKeepsOrder ==
    ASSUME NEW S, NEW q \in Seq(S), Distinct(q), NEW r
    PROVE  /\ RemoveFirst(q, r) \in Seq(S)
           /\ Distinct(RemoveFirst(q, r))
           /\ Range(RemoveFirst(q, r)) = Range(q) \ {r}
           /\ KeepsOrder(q, RemoveFirst(q, r))
<1> DEFINE s == RemoveFirst(q, r)
<1>1. DOMAIN q = 1 .. Len(q) /\ Len(q) \in Nat  BY LenProperties
<1>2. CASE r \notin Range(q) /\ s = q
  <2>1. KeepsOrder(q, q)
    BY <1>1 DEF KeepsOrder, Distinct
  <2>2. QED  BY <1>2, <2>1
<1>3. CASE \E p \in 1 .. Len(q) : q[p] = r /\ s = RemoveAt(q, p)
  <2>1. PICK p \in 1 .. Len(q) : q[p] = r /\ s = RemoveAt(q, p)  BY <1>3
  <2> HIDE DEF s
  <2>2. /\ s \in Seq(S) /\ Len(s) = Len(q) - 1
        /\ \A k \in 1 .. Len(q) - 1 : s[k] = IF k < p THEN q[k] ELSE q[k + 1]
    BY <2>1, RemovedElements
  <2>3. DOMAIN s = 1 .. Len(q) - 1  BY <2>2, LenProperties
  <2>4. Distinct(s)
    <3>1. SUFFICES ASSUME NEW k \in 1 .. Len(q) - 1, NEW l \in 1 .. Len(q) - 1, s[k] = s[l]
                   PROVE  k = l
      BY <2>3 DEF Distinct
    <3> DEFINE From(m) == IF m < p THEN m ELSE m + 1
    <3>2. From(k) \in 1 .. Len(q) /\ From(l) \in 1 .. Len(q)  BY <1>1
    <3>3. s[k] = q[From(k)] /\ s[l] = q[From(l)]  BY <2>2
    <3>4. From(k) = From(l)  BY <3>1, <3>2, <3>3, <1>1 DEF Distinct
    <3>5. QED  BY <3>4, <1>1
  <2>5. Range(s) = Range(q) \ {r}
    <3>1. ASSUME NEW v \in Range(s) PROVE v \in Range(q) \ {r}
      <4>1. PICK k \in 1 .. Len(q) - 1 : v = s[k]  BY <2>3 DEF Range
      <4>2. PICK i \in 1 .. Len(q) : v = q[i] /\ i # p
        BY <4>1, <2>2, <1>1
      <4>3. QED  BY <4>2, <2>1, <1>1 DEF Distinct, Range
    <3>2. ASSUME NEW v \in Range(q) \ {r} PROVE v \in Range(s)
      <4>1. PICK i \in 1 .. Len(q) : v = q[i]  BY <1>1 DEF Range
      <4>2. i # p  BY <4>1, <2>1
      <4>3. PICK k \in 1 .. Len(q) - 1 : v = s[k]
        <5>1. CASE i < p
          <6>1. i \in 1 .. Len(q) - 1 /\ s[i] = q[i]  BY <5>1, <2>2, <1>1
          <6>2. QED  BY <6>1, <4>1
        <5>2. CASE i > p
          <6>1. i - 1 \in 1 .. Len(q) - 1 /\ s[i - 1] = q[i]  BY <5>2, <2>2, <1>1
          <6>2. QED  BY <6>1, <4>1
        <5>3. QED  BY <5>1, <5>2, <4>2, <1>1
      <4>4. QED  BY <4>3, <2>3 DEF Range
    <3>3. QED  BY <3>1, <3>2
  <2>6. KeepsOrder(q, s)
    <3>1. SUFFICES ASSUME NEW i \in 1 .. Len(q), NEW j \in 1 .. Len(q),
                          NEW k \in 1 .. Len(q) - 1, NEW l \in 1 .. Len(q) - 1,
                          i < j, q[i] = s[k], q[j] = s[l]
                   PROVE  k < l
      BY <1>1, <2>3 DEF KeepsOrder
    <3> DEFINE From(m) == IF m < p THEN m ELSE m + 1
    <3>2. From(k) \in 1 .. Len(q) /\ From(l) \in 1 .. Len(q)  BY <1>1
    <3>3. s[k] = q[From(k)] /\ s[l] = q[From(l)]  BY <2>2
    <3>4. i = From(k)  BY <3>1, <3>2, <3>3, <1>1 DEF Distinct
    <3>5. j = From(l)  BY <3>1, <3>2, <3>3, <1>1 DEF Distinct
    <3>6. QED  BY <3>1, <3>4, <3>5, <1>1
  <2>7. QED  BY <2>2, <2>4, <2>5, <2>6 DEF s
<1>4. QED  BY <1>2, <1>3, RemoveFirstIs

LEMMA InsertionKeepsOrder ==
    ASSUME NEW S, NEW q \in Seq(S), Distinct(q), NEW r \in S \ Range(q),
           NEW n \in 1 .. Len(q) + 1
    PROVE  /\ InsertAt(q, n, r) \in Seq(S)
           /\ Distinct(InsertAt(q, n, r))
           /\ Range(InsertAt(q, n, r)) = Range(q) \cup {r}
           /\ KeepsOrder(q, InsertAt(q, n, r))
<1> DEFINE s == InsertAt(q, n, r)
<1>1. DOMAIN q = 1 .. Len(q) /\ Len(q) \in Nat  BY LenProperties
<1>2. /\ s \in Seq(S) /\ Len(s) = Len(q) + 1
      /\ \A k \in 1 .. Len(q) + 1 :
             s[k] = IF k < n THEN q[k] ELSE IF k = n THEN r ELSE q[k - 1]
  <2>1. /\ InsertAt(q, n, r) \in Seq(S)
        /\ Len(InsertAt(q, n, r)) = Len(q) + 1
        /\ \A k \in 1 .. Len(q) + 1 :
               InsertAt(q, n, r)[k]
                   = IF k < n THEN q[k] ELSE IF k = n THEN r ELSE q[k - 1]
    <3>1. r \in S /\ q \in Seq(S) /\ n \in 1 .. Len(q) + 1  OBVIOUS
    <3>2. QED  BY ONLY <3>1, InsertedElements
  <2>2. QED  BY <2>1
<1> HIDE DEF s
<1>3. DOMAIN s = 1 .. Len(q) + 1  BY <1>2, LenProperties
<1>4. \A i \in 1 .. Len(q) : q[i] # r  BY <1>1 DEF Range
<1>5. ASSUME NEW k \in 1 .. Len(q) + 1, NEW i \in 1 .. Len(q), s[k] = q[i]
      PROVE  k # n /\ i = (IF k < n THEN k ELSE k - 1)
  <2>1. k # n  BY <1>5, <1>2, <1>4
  <2>2. CASE k < n
    <3>1. k \in 1 .. Len(q) /\ q[k] = q[i]  BY <2>2, <1>1, <1>2, <1>5
    <3>2. QED  BY <2>1, <2>2, <3>1, <1>1 DEF Distinct
  <2>3. CASE k > n
    <3>1. k - 1 \in 1 .. Len(q) /\ q[k - 1] = q[i]  BY <2>3, <1>1, <1>2, <1>5
    <3>2. k - 1 = i  BY <3>1, <1>1 DEF Distinct
    <3>3. QED  BY <2>1, <2>3, <3>2, <1>1
  <2>4. QED  BY <2>1, <2>2, <2>3, <1>1
<1>6. Distinct(s)
  <2>1. SUFFICES ASSUME NEW k \in 1 .. Len(q) + 1, NEW l \in 1 .. Len(q) + 1, s[k] = s[l]
                 PROVE  k = l
    BY <1>3 DEF Distinct
  <2>2. CASE k = n
    BY <2>1, <2>2, <1>1, <1>2, <1>4
  <2>3. CASE k # n
    <3>1. PICK i \in 1 .. Len(q) : s[k] = q[i]  BY <2>3, <1>1, <1>2
    <3>2. s[l] = q[i]  BY <2>1, <3>1
    <3>3. k # n /\ i = (IF k < n THEN k ELSE k - 1)  BY <3>1, <1>5
    <3>4. l # n /\ i = (IF l < n THEN l ELSE l - 1)  BY <3>2, <1>5
    <3>5. QED  BY <3>3, <3>4, <1>1
  <2>4. QED  BY <2>2, <2>3
<1>7. Range(s) = Range(q) \cup {r}
  <2>1. ASSUME NEW v \in Range(s) PROVE v \in Range(q) \cup {r}
    <3>1. PICK k \in 1 .. Len(q) + 1 : v = s[k]  BY <1>3 DEF Range
    <3>2. v = r \/ \E i \in 1 .. Len(q) : v = q[i]  BY <3>1, <1>1, <1>2
    <3>3. QED  BY <3>2, <1>1 DEF Range
  <2>2. ASSUME NEW v \in Range(q) PROVE v \in Range(s)
    <3>1. PICK i \in 1 .. Len(q) : v = q[i]  BY <1>1 DEF Range
    <3>2. CASE i < n
      <4>1. i \in 1 .. Len(q) + 1 /\ s[i] = q[i]  BY <3>2, <1>1, <1>2
      <4>2. QED  BY <4>1, <3>1, <1>3 DEF Range
    <3>3. CASE i >= n
      <4>1. i + 1 \in 1 .. Len(q) + 1 /\ s[i + 1] = q[i]  BY <3>3, <1>1, <1>2
      <4>2. QED  BY <4>1, <3>1, <1>3 DEF Range
    <3>4. QED  BY <3>2, <3>3, <1>1
  <2>3. n \in DOMAIN s /\ s[n] = r  BY <1>1, <1>2, <1>3
  <2>4. QED  BY <2>1, <2>2, <2>3 DEF Range
<1>8. KeepsOrder(q, s)
  <2>1. SUFFICES ASSUME NEW i \in 1 .. Len(q), NEW j \in 1 .. Len(q),
                        NEW k \in 1 .. Len(q) + 1, NEW l \in 1 .. Len(q) + 1,
                        i < j, q[i] = s[k], q[j] = s[l]
                 PROVE  k < l
    BY <1>1, <1>3 DEF KeepsOrder
  <2>2. k # n /\ i = (IF k < n THEN k ELSE k - 1)  BY <2>1, <1>5
  <2>3. l # n /\ j = (IF l < n THEN l ELSE l - 1)  BY <2>1, <1>5
  <2>4. QED  BY <2>1, <2>2, <2>3, <1>1
<1>9. QED  BY <1>2, <1>6, <1>7, <1>8 DEF s

-----------------------------------------------------------------------------
(* What a step does to the queue: who waits stays listed in the order.      *)
QueueKept == /\ waiting' \in Seq(Robots)
             /\ WaitersMatchStages'
             /\ StagesFitContract'
             /\ KeepsOrder(waiting, waiting')

(* A step after which the same robots wait as before, in the same queue.    *)
LEMMA SameQueue ==
    ASSUME OrderInv, UNCHANGED <<waiting, mode>>,
           \A r \in Robots : /\ stage'[r] = "waiting" <=> stage[r] = "waiting"
                             /\ stage'[r] = "ready" => stage[r] = "ready"
    PROVE  QueueKept
<1>1. WaitersMatchStages' /\ StagesFitContract'
  BY DEF OrderInv, WaitersMatchStages, Waiters, StagesFitContract
<1>2. KeepsOrder(waiting, waiting')
  BY DEF OrderInv, WaitersMatchStages, KeepsOrder
<1>3. QED  BY <1>1, <1>2 DEF OrderInv, QueueKept

(* Nobody but waiting robots is listed, so dropping others changes nothing. *)
LEMMA NobodyToDrop ==
    ASSUME OrderInv, NEW T, \A r \in T : stage[r] # "waiting"
    PROVE  Without(waiting, T) = waiting
<1>1. Range(waiting) \cap T = {}
  BY DEF OrderInv, WaitersMatchStages, Waiters
<1>2. QED  BY <1>1 DEF Without

LEMMA CascadeQueue == OrderInv /\ CascadeAndObserve => QueueKept
<1> SUFFICES ASSUME OrderInv, CascadeAndObserve PROVE QueueKept
  OBVIOUS
<1> DEFINE Queuing == {r \in Robots : stage[r] = "queuing"}
<1>1. PICK place \in [Queuing -> 0 .. Capacity] :
        /\ stage' = [r \in Robots |-> IF r \in Queuing /\ place[r] = 0
                                      THEN "delivering" ELSE stage[r]]
        /\ UNCHANGED <<waiting, mode>>
  BY DEF CascadeAndObserve, Cascade, CascadeTo
<1>2. \A r \in Robots : \/ stage'[r] = stage[r]
                        \/ stage[r] = "queuing" /\ stage'[r] = "delivering"
  BY <1>1
<1>3. QED  BY <1>1, <1>2, SameQueue

LEMMA ExitQueue == OrderInv /\ ExitAndRecord => QueueKept
<1> SUFFICES ASSUME OrderInv, ExitAndRecord PROVE QueueKept
  OBVIOUS
<1>1. PICK out \in SUBSET {r \in Robots : stage[r] = "exiting"} :
        /\ stage' = [r \in Robots |-> IF stage[r] = "exited" THEN "leaving"
                                      ELSE IF r \in out THEN "exited" ELSE stage[r]]
        /\ waiting' = Without(waiting, out)
        /\ mode' = mode
  BY DEF ExitAndRecord, ProcessExits
<1>2. waiting' = waiting  BY <1>1, NobodyToDrop
<1>3. \A r \in Robots : \/ stage'[r] = stage[r]
                        \/ stage[r] = "exited" /\ stage'[r] = "leaving"
                        \/ stage[r] = "exiting" /\ stage'[r] = "exited"
  BY <1>1
<1>4. QED  BY <1>1, <1>2, <1>3, SameQueue

LEMMA AbsorbQueue ==
    ASSUME NEW here, NEW next, OrderInv, Absorb(here, next)
    PROVE  QueueKept
<1>1. mode' = mode  BY DEF Absorb
<1>2. CASE \E r \in Robots : CheckInDynamic(r, next)
  <2>1. PICK r \in Robots : CheckInDynamic(r, next)  BY <1>2
  <2>2. stage[r] = "arrived" /\ r \in CommittedRobots
    BY <2>1 DEF CheckInDynamic, OrderInv, DynamicInv, LedgersAgree, TokensMatchStages,
                CommittedRobots
  <2>3. waiting' = waiting /\ (stage' = stage \/ stage' = [stage EXCEPT ![r] = "queuing"])
    BY <2>1, <2>2 DEF CheckInDynamic
  <2>4. \A t \in Robots : \/ stage'[t] = stage[t]
                          \/ stage[t] = "arrived" /\ stage'[t] = "queuing"
    BY <2>2, <2>3 DEF OrderInv, DynamicInv, Standing
  <2>5. QED  BY <1>1, <2>3, <2>4, SameQueue
<1>3. CASE UNCHANGED <<stage, waiting>>
  BY <1>1, <1>3, SameQueue
<1>4. QED  BY <1>2, <1>3 DEF Absorb

LEMMA PruneQueue == OrderInv /\ Prune => QueueKept
<1> SUFFICES ASSUME OrderInv, Prune PROVE QueueKept
  OBVIOUS
<1>1. waiting' = waiting
  BY NobodyToDrop DEF Prune, PruneWaiting
<1>2. QED  BY <1>1, SameQueue DEF Prune, PruneWaiting

LEMMA StaysQueue ==
    ASSUME OrderInv, NEW r \in Robots, Reject(r) \/ RollBack(r)
    PROVE  QueueKept
<1>1. /\ Tries(r) /\ StaysPut(r) /\ UNCHANGED <<waiting, mode>>
  BY DEF Reject, RollBack, Tries
<1>2. stage[r] \in {"waiting", "ready"}
  BY <1>1, AskingFacts DEF OrderInv
<1>3. stage' = stage
  <2>1. CASE mode = DispatchQueue
    <3>1. stage[r] = "waiting"
      BY <2>1, <1>2 DEF OrderInv, StagesFitContract
    <3>2. QED  BY <1>1, <2>1, <3>1 DEF StaysPut, OrderInv, DynamicInv, Standing
  <2>2. CASE mode # DispatchQueue
    BY <1>1, <2>2 DEF StaysPut
  <2>3. QED  BY <2>1, <2>2
<1>4. QED  BY <1>1, <1>3, SameQueue

LEMMA SetOutQueue == ASSUME OrderInv, NEW r \in Robots, SetOut(r) PROVE QueueKept
<1>1. /\ waiting' = RemoveFirst(waiting, r) /\ mode' = mode
      /\ stage' = [stage EXCEPT ![r] = "travelling"]
  BY DEF SetOut, Tries
<1>2. /\ stage'[r] = "travelling"
      /\ \A t \in Robots \ {r} : stage'[t] = stage[t]
  BY <1>1 DEF OrderInv, DynamicInv, Standing
<1>3. waiting \in Seq(Robots) /\ Distinct(waiting)
  BY DEF OrderInv, WaitersMatchStages, Distinct
<1>4. /\ waiting' \in Seq(Robots) /\ Distinct(waiting')
      /\ Range(waiting') = Range(waiting) \ {r}
      /\ KeepsOrder(waiting, waiting')
  BY <1>1, <1>3, RemovalKeepsOrder
<1>5. WaitersMatchStages'
  <2>1. Waiters' = {t \in Robots : stage'[t] = "waiting"}
    BY <1>2, <1>4 DEF OrderInv, WaitersMatchStages, Waiters
  <2>2. QED  BY <2>1, <1>4 DEF WaitersMatchStages, Distinct
<1>6. StagesFitContract'
  BY <1>1, <1>2 DEF OrderInv, StagesFitContract
<1>7. QED  BY <1>4, <1>5, <1>6 DEF QueueKept

LEMMA MoveQueue == OrderInv /\ DynamicMove => QueueKept
<1> SUFFICES ASSUME OrderInv, DynamicMove PROVE QueueKept
  OBVIOUS
<1>1. PICK comers \in Comers, goers \in Goers, entry \in EntryTraffic, exit \in BOOLEAN :
        MoveAgents(comers, goers, entry, exit)
  BY DEF DynamicMove, Move
<1>2. /\ stage' = [r \in Robots |-> IF r \in comers THEN "arrived"
                                     ELSE IF r \in goers THEN "away" ELSE stage[r]]
      /\ UNCHANGED <<waiting, mode>>
  BY <1>1 DEF MoveAgents
<1>3. /\ \A r \in comers : stage[r] = "travelling"
      /\ \A r \in goers : stage[r] = "leaving"
  BY DEF Comers, Goers
<1>4. \A r \in Robots : \/ stage'[r] = stage[r]
                        \/ stage[r] = "travelling" /\ stage'[r] = "arrived"
                        \/ stage[r] = "leaving" /\ stage'[r] = "away"
  BY <1>2, <1>3
<1>5. QED  BY <1>2, <1>4, SameQueue

(* A robot that picks late is inserted; nobody else changes places.         *)
LEMMA PickedUpQueue == ASSUME OrderInv, NEW r \in Robots, PickedUp(r) PROVE QueueKept
<1>1. stage[r] = "away" /\ mode' = mode  BY DEF PickedUp, Acts
<1>2. CASE mode # DispatchQueue
  <2>1. waiting' = waiting /\ stage' = [stage EXCEPT ![r] = "ready"]
    BY <1>2 DEF PickedUp
  <2>2. stage'[r] = "ready" /\ \A t \in Robots \ {r} : stage'[t] = stage[t]
    BY <2>1 DEF OrderInv, DynamicInv, Standing
  <2>3. WaitersMatchStages'
    BY <1>1, <2>1, <2>2 DEF OrderInv, WaitersMatchStages, Waiters
  <2>4. StagesFitContract'
    BY <1>1, <1>2, <2>2 DEF OrderInv, StagesFitContract
  <2>5. KeepsOrder(waiting, waiting')
    BY <2>1 DEF OrderInv, WaitersMatchStages, KeepsOrder
  <2>6. QED  BY <2>1, <2>3, <2>4, <2>5 DEF OrderInv, QueueKept
<1>3. CASE mode = DispatchQueue
  <2>1. stage' = [stage EXCEPT ![r] = "waiting"]  BY <1>3 DEF PickedUp
  <2>2. PICK n \in 1 .. Len(waiting) + 1 : waiting' = InsertAt(waiting, n, r)
    BY <1>3 DEF PickedUp
  <2>3. stage'[r] = "waiting" /\ \A t \in Robots \ {r} : stage'[t] = stage[t]
    BY <2>1 DEF OrderInv, DynamicInv, Standing
  <2>4. waiting \in Seq(Robots) /\ Distinct(waiting)
    BY DEF OrderInv, WaitersMatchStages, Distinct
  <2>5. r \in Robots \ Range(waiting)
    BY <1>1 DEF OrderInv, WaitersMatchStages, Waiters
  <2>6. /\ waiting' \in Seq(Robots) /\ Distinct(waiting')
        /\ Range(waiting') = Range(waiting) \cup {r}
        /\ KeepsOrder(waiting, waiting')
    BY <2>2, <2>4, <2>5, InsertionKeepsOrder
  <2>7. WaitersMatchStages'
    <3>1. Waiters' = {t \in Robots : stage'[t] = "waiting"}
      BY <2>3, <2>6 DEF OrderInv, WaitersMatchStages, Waiters
    <3>2. QED  BY <3>1, <2>6 DEF WaitersMatchStages, Distinct
  <2>8. StagesFitContract'
    BY <1>1, <1>3, <2>3 DEF OrderInv, StagesFitContract
  <2>9. QED  BY <2>6, <2>7, <2>8 DEF QueueKept
<1>4. QED  BY <1>2, <1>3

LEMMA ActQueue == OrderInv /\ Act => QueueKept
<1> SUFFICES ASSUME OrderInv, Act PROVE QueueKept
  OBVIOUS
<1>1. CASE StartActions
  BY <1>1, SameQueue DEF StartActions
<1>2. CASE \E r \in Robots : PickedUp(r) \/ Served(r) \/ Nothing(r)
  <2>1. PICK r \in Robots : PickedUp(r) \/ Served(r) \/ Nothing(r)  BY <1>2
  <2>2. CASE PickedUp(r)  BY <2>2, PickedUpQueue
  <2>3. CASE Served(r) \/ Nothing(r)
    <3>1. UNCHANGED <<waiting, mode>>
      BY <2>3 DEF Served, Nothing, ServiceDone, NothingDone, Acts
    <3>2. \A t \in Robots : \/ stage'[t] = stage[t]
                            \/ stage[t] = "delivering" /\ stage'[t] = "exiting"
      BY <2>3 DEF Served, Nothing, ServiceDone, NothingDone, OrderInv, DynamicInv, Standing
    <3>3. QED  BY <3>1, <3>2, SameQueue
  <2>4. QED  BY <2>1, <2>2, <2>3
<1>3. QED  BY <1>1, <1>2 DEF Act

LEMMA StepQueue == OrderInv /\ [DynamicNext]_dynamicVars => QueueKept
<1> SUFFICES ASSUME OrderInv, [DynamicNext]_dynamicVars PROVE QueueKept
  OBVIOUS
<1>1. CASE CascadeAndObserve  BY <1>1, CascadeQueue
<1>2. CASE ExitAndRecord  BY <1>2, ExitQueue
<1>3. CASE Absorb("absorb", "prune") \/ Absorb("arrive", "act")  BY <1>3, AbsorbQueue
<1>4. CASE Prune  BY <1>4, PruneQueue
<1>5. CASE Plan
  <2>1. CASE \E r \in Robots : Reject(r) \/ RollBack(r) \/ SetOut(r)
    BY <2>1, StaysQueue, SetOutQueue
  <2>2. CASE ScanDone  BY <2>2, SameQueue DEF ScanDone
  <2>3. QED  BY <1>5, <2>1, <2>2 DEF Plan
<1>6. CASE DynamicMove  BY <1>6, MoveQueue
<1>7. CASE Act  BY <1>7, ActQueue
<1>8. CASE AdvanceTick  BY <1>8, SameQueue DEF AdvanceTick
<1>9. CASE UNCHANGED dynamicVars  BY <1>9, SameQueue DEF dynamicVars, vars
<1>10. QED
  BY <1>1, <1>2, <1>3, <1>4, <1>5, <1>6, <1>7, <1>8, <1>9 DEF DynamicNext

(* The release interval stays within its bounds.                            *)
LEMMA CadenceKept ==
    ASSUME cadence \in Intervals, [DynamicNext]_dynamicVars
    PROVE  cadence' \in Intervals
<1>1. CASE ExitAndRecord  BY <1>1 DEF ExitAndRecord
<1>2. CASE UNCHANGED cadence  BY <1>2
<1>3. ~ExitAndRecord => UNCHANGED cadence
  BY DEF DynamicNext, dynamicVars, dynamic, CascadeAndObserve, Absorb, Prune, Plan, Reject,
         RollBack, SetOut, Tries, ScanDone, DynamicMove, Act, PickedUp, Served, Nothing,
         AdvanceTick
<1>4. Intervals' = Intervals  BY DEF Intervals
<1>5. QED  BY <1>1, <1>2, <1>3

LEMMA OrderInductive == DynamicSpec => []OrderInv
<1>1. DynamicInit => OrderInv
  <2> SUFFICES ASSUME DynamicInit PROVE OrderInv
    OBVIOUS
  <2>1. waiting = <<>> /\ \A r \in Robots : stage[r] = "away"
    BY DEF DynamicInit, EmptyStation
  <2>2. waiting \in Seq(Robots) /\ DOMAIN waiting = {}  BY <2>1
  <2>3. WaitersMatchStages
    BY <2>1, <2>2 DEF WaitersMatchStages, Waiters, Range
  <2>4. cadence \in Intervals  BY DEF DynamicInit, Intervals
  <2>5. QED  BY <2>1, <2>2, <2>3, <2>4, InitInv DEF OrderInv, StagesFitContract
<1>2. OrderInv /\ [DynamicNext]_dynamicVars => OrderInv'
  BY NextInv, StepQueue, CadenceKept DEF OrderInv, QueueKept
<1>3. QED  BY <1>1, <1>2, PTL DEF DynamicSpec

(* A robot that asks has a distance, at every step of the tick: it gets one *)
(* when it picks up its pod and keeps it until it sets out.                 *)
AskersHaveDistance ==
    \A r \in Robots : stage[r] \in {"waiting", "ready"} => distance[r] > 0

LEMMA NoNewAskers ==
    ASSUME AskersHaveDistance, UNCHANGED distance,
           \A r \in Robots : stage'[r] \in {"waiting", "ready"} =>
                                 stage[r] \in {"waiting", "ready"}
    PROVE  AskersHaveDistance'
BY DEF AskersHaveDistance

LEMMA AskersKept ==
    ASSUME OrderInv, AskersHaveDistance, [DynamicNext]_dynamicVars
    PROVE  AskersHaveDistance'
<1> USE DEF AskersHaveDistance
<1>1. /\ stage \in [Robots -> Stage] /\ distance \in [Robots -> 0 .. Far] /\ Far \in Nat
      /\ step = "plan" => \A r \in todo : stage[r] \in {"waiting", "ready"}
  BY EtasAssumption DEF OrderInv, DynamicInv, Standing, ScanAwaitsTokens
<1>2. CASE CascadeAndObserve
  BY <1>1, <1>2, NoNewAskers DEF CascadeAndObserve, Cascade, CascadeTo
<1>3. CASE ExitAndRecord
  BY <1>1, <1>3, NoNewAskers DEF ExitAndRecord, ProcessExits
<1>4. CASE Absorb("absorb", "prune") \/ Absorb("arrive", "act")
  BY <1>1, <1>4, NoNewAskers DEF Absorb, CheckInDynamic
<1>5. CASE Prune
  BY <1>1, <1>5, NoNewAskers DEF Prune, PruneWaiting, dynamic
<1>6. CASE Plan
  <2>1. ASSUME NEW r \in Robots, Reject(r) \/ RollBack(r) PROVE AskersHaveDistance'
    BY <1>1, <2>1, NoNewAskers DEF Reject, RollBack, StaysPut, Tries, IsNext
  <2>2. ASSUME NEW r \in Robots, SetOut(r) PROVE AskersHaveDistance'
    BY <1>1, <2>2 DEF SetOut
  <2>3. CASE ScanDone  BY <2>3, NoNewAskers DEF ScanDone, dynamic
  <2>4. QED  BY <1>6, <2>1, <2>2, <2>3 DEF Plan
<1>7. CASE DynamicMove
  BY <1>1, <1>7, NoNewAskers DEF DynamicMove, Move, MoveAgents, dynamic
<1>8. CASE Act
  <2>1. CASE StartActions /\ UNCHANGED dynamic  BY <2>1, NoNewAskers DEF StartActions, dynamic
  <2>2. ASSUME NEW r \in Robots, PickedUp(r) PROVE AskersHaveDistance'
    BY <1>1, <2>2 DEF PickedUp
  <2>3. ASSUME NEW r \in Robots, Served(r) PROVE AskersHaveDistance'
    BY <1>1, <2>3, NoNewAskers DEF Served, ServiceDone, dynamic
  <2>4. ASSUME NEW r \in Robots, Nothing(r) PROVE AskersHaveDistance'
    BY <2>4, NoNewAskers DEF Nothing, NothingDone, dynamic
  <2>5. QED  BY <1>8, <2>1, <2>2, <2>3, <2>4 DEF Act
<1>9. CASE AdvanceTick  BY <1>9, NoNewAskers DEF AdvanceTick
<1>10. CASE UNCHANGED dynamicVars  BY <1>10, NoNewAskers DEF dynamicVars, vars, dynamic
<1>11. QED
  BY <1>2, <1>3, <1>4, <1>5, <1>6, <1>7, <1>8, <1>9, <1>10 DEF DynamicNext

(* The phases of a tick follow each other, and the contract stays as chosen. *)
Phases == {"cascade", "exits", "absorb", "prune", "plan", "move", "arrive", "act", "acting"}
InPhase == step \in Phases /\ mode \in Contracts

LEMMA PhaseKept == InPhase /\ [DynamicNext]_dynamicVars => InPhase'
<1> SUFFICES ASSUME InPhase, [DynamicNext]_dynamicVars PROVE InPhase'
  OBVIOUS
<1> USE DEF InPhase, Phases
<1>1. CASE CascadeAndObserve  BY <1>1 DEF CascadeAndObserve, Cascade, CascadeTo
<1>2. CASE ExitAndRecord  BY <1>2 DEF ExitAndRecord, ProcessExits
<1>3. CASE Absorb("absorb", "prune") \/ Absorb("arrive", "act")
  BY <1>3 DEF Absorb, CheckInDynamic
<1>4. CASE Prune  BY <1>4 DEF Prune, PruneWaiting
<1>5. CASE Plan  BY <1>5 DEF Plan, Reject, RollBack, SetOut, Tries, ScanDone
<1>6. CASE DynamicMove  BY <1>6 DEF DynamicMove, Move, MoveAgents
<1>7. CASE Act
  BY <1>7 DEF Act, StartActions, PickedUp, Served, ServiceDone, Nothing, NothingDone, Acts
<1>8. CASE AdvanceTick  BY <1>8 DEF AdvanceTick
<1>9. CASE UNCHANGED dynamicVars  BY <1>9 DEF dynamicVars, vars
<1>10. QED  BY <1>1, <1>2, <1>3, <1>4, <1>5, <1>6, <1>7, <1>8, <1>9 DEF DynamicNext

(* DynamicTypeOK is invariant: lists, ledgers and predictions keep their    *)
(* types, and whoever asks for a token has a distance to ask with.          *)
THEOREM DynamicTypes == DynamicSpec => []DynamicTypeOK
<1>1. DynamicInit => InPhase /\ AskersHaveDistance
  BY DEF DynamicInit, EmptyStation, InPhase, Phases, AskersHaveDistance
<1>2. InPhase /\ AskersHaveDistance /\ OrderInv /\ [DynamicNext]_dynamicVars =>
          InPhase' /\ AskersHaveDistance'
  BY AskersKept, PhaseKept
<1>3. InPhase /\ AskersHaveDistance /\ OrderInv => DynamicTypeOK
  BY DEF InPhase, Phases, AskersHaveDistance, OrderInv, DynamicInv, Standing, DynamicTypeOK
<1>4. QED  BY <1>1, <1>2, <1>3, OrderInductive, PTL DEF DynamicSpec

(* DispatchOrderKept holds: whatever is refused, rolled back, served or     *)
(* picked late, two robots that wait before and after a step wait in the    *)
(* same order.                                                              *)
THEOREM OrderKept == DynamicSpec => DispatchOrderKept
<1>1. OrderInv /\ [DynamicNext]_dynamicVars =>
          [\A i, j \in DOMAIN waiting, k, l \in DOMAIN waiting' :
               i < j /\ waiting[i] = waiting'[k] /\ waiting[j] = waiting'[l] => k < l]_waiting
  BY StepQueue DEF QueueKept, KeepsOrder
<1>2. QED  BY <1>1, OrderInductive, PTL DEF DynamicSpec, DispatchOrderKept

-----------------------------------------------------------------------------
(* Who comes next in the scan has nobody of the queue still to try before it.*)
LEMMA NextInQueue ==
    ASSUME OrderInv, mode = DispatchQueue, NEW j \in DOMAIN waiting, IsNext(waiting[j]),
           NEW i \in 1 .. j - 1
    PROVE  i \in DOMAIN waiting /\ waiting[i] \notin todo
<1>1. DOMAIN waiting = 1 .. Len(waiting) /\ Len(waiting) \in Nat
  BY LenProperties DEF OrderInv
<1>2. i \in DOMAIN waiting /\ i < j /\ i # j  BY <1>1
<1>3. ASSUME NEW k \in DOMAIN waiting PROVE ScanRank(waiting[k]) = k
  <2>1. waiting[k] \in Waiters  BY DEF Waiters, Range
  <2>2. stage[waiting[k]] = "waiting"  BY <2>1 DEF OrderInv, WaitersMatchStages
  <2>3. (CHOOSE m \in DOMAIN waiting : waiting[m] = waiting[k]) = k
    BY DEF OrderInv, WaitersMatchStages
  <2>4. QED  BY <2>1, <2>2, <2>3 DEF ScanRank
<1>4. ScanRank(waiting[j]) = j /\ ScanRank(waiting[i]) = i  BY <1>2, <1>3
<1>5. waiting[i] # waiting[j]  BY <1>2 DEF OrderInv, WaitersMatchStages
<1>6. ASSUME waiting[i] \in todo PROVE FALSE
  <2>1. \/ j < i
        \/ j = i
    BY <1>4, <1>5, <1>6 DEF IsNext
  <2>2. QED  BY <2>1, <1>1, <1>2
<1>7. QED  BY <1>2, <1>6

(* Sizes that the admission compares are numbers.                           *)
LEMMA LoadsAreNumbers ==
    ASSUME DynamicInv, cadence \in Intervals, mode \in Contracts
    PROVE  /\ Cardinality(Physical) \in Nat
           /\ \A h \in Nat : Due(h) \in Nat
           /\ Mass \in Nat
           /\ WeightLimit[mode][HealthNow] \in Nat
           /\ \A h \in Nat : h \div cadence \in Nat
           /\ Slack[HealthNow] \in Nat
<1>1. /\ Physical \subseteq Robots
      /\ IsFiniteSet(Robots)
  BY RobotsAssumption DEF Physical, DynamicInv, Standing
<1>2. Cardinality(Physical) \in Nat
  BY <1>1, FS_Subset, FS_CardinalityType
<1>3. ASSUME NEW h \in Nat PROVE Due(h) \in Nat
  <2>1. {r \in Robots \ Physical : eta[r] # NoToken /\ eta[r] <= h} \subseteq Robots
    OBVIOUS
  <2>2. QED  BY <2>1, <1>1, FS_Subset, FS_CardinalityType DEF Due
<1>4. Mass \in Nat
  <2> DEFINE bound(b) == {r \in assigned \ Physical : Bucket(Remaining(r)) = b}
  <2>1. ASSUME NEW b PROVE Cardinality(bound(b)) \in Nat
    <3>1. bound(b) \subseteq Robots  BY DEF DynamicInv, Standing
    <3>2. QED  BY <3>1, <1>1, FS_Subset, FS_CardinalityType
  <2>2. /\ Cardinality(bound("near")) \in Nat
        /\ Cardinality(bound("mid")) \in Nat
        /\ Cardinality(bound("far")) \in Nat
    BY <2>1
  <2> HIDE DEF bound
  <2>3. /\ Weight["near"] * Cardinality(bound("near")) \in Nat
        /\ Weight["mid"] * Cardinality(bound("mid")) \in Nat
        /\ Weight["far"] * Cardinality(bound("far")) \in Nat
    BY <2>2 DEF Weight
  <2>4. 4 * Cardinality(Physical) \in Nat  BY <1>2
  <2>5. Mass = 4 * Cardinality(Physical) + Weight["near"] * Cardinality(bound("near"))
                   + Weight["mid"] * Cardinality(bound("mid"))
                   + Weight["far"] * Cardinality(bound("far"))
    BY DEF Mass, bound
  <2>6. QED  BY <2>3, <2>4, <2>5
<1>5. HealthNow \in Health  BY DEF HealthNow, Health
<1>6. WeightLimit[mode][HealthNow] \in Nat  BY <1>5, LimitsAssumption
<1>7. cadence \in Nat /\ cadence > 0
  BY LimitsAssumption DEF Intervals
<1>8. \A h \in Nat : h \div cadence \in Nat  BY <1>7
<1>9. Slack[HealthNow] \in Nat  BY <1>5 DEF Slack, Health
<1>10. QED  BY <1>2, <1>3, <1>4, <1>6, <1>8, <1>9

(* A window that fits an arrival fits a later one, and so does the mass.    *)
LEMMA LaterFits ==
    ASSUME DynamicInv, cadence \in Intervals, mode \in Contracts,
           NEW a \in Nat, NEW b \in Nat, Admits(a),
           b >= a \/ Bucket(a) = Bucket(b)
    PROVE  Admits(b)
<1>1. /\ Cardinality(Physical) \in Nat
      /\ \A h \in Nat : Due(h) \in Nat
      /\ Mass \in Nat
      /\ WeightLimit[mode][HealthNow] \in Nat
      /\ \A h \in Nat : h \div cadence \in Nat
      /\ Slack[HealthNow] \in Nat
  BY LoadsAreNumbers
<1>2. Near \in Nat /\ Mid \in Nat /\ Near < Mid  BY EtasAssumption
<1>3. /\ b <= Near => a <= Near
      /\ b <= Mid => a <= Mid
  BY <1>2 DEF Bucket
<1>4. ASSUME NEW h \in Nat, b <= h => a <= h, FitsWindow(a, h)
      PROVE  FitsWindow(b, h)
  <2> DEFINE credits == h \div cadence + (IF h > Near THEN 1 ELSE 0)
             load  == Cardinality(Physical) + Due(h)
             room == UpTo(Capacity + credits + Slack[HealthNow], HardLimit)
  <2>1. load \in Nat  BY <1>1
  <2>2. room \in Nat
    <3>1. credits \in Nat  BY <1>1, <1>2
    <3>2. Capacity + credits + Slack[HealthNow] \in Nat
      BY <3>1, <1>1, CapacityAssumption
    <3>3. QED  BY <3>2, LimitsAssumption DEF UpTo
  <2>3. load + (IF a <= h THEN 1 ELSE 0) <= room
    BY <1>4 DEF FitsWindow
  <2> HIDE DEF load, room
  <2>4. load + (IF b <= h THEN 1 ELSE 0) <= room
    BY <2>1, <2>2, <2>3, <1>4
  <2>5. QED  BY <2>4 DEF FitsWindow, load, room
<1>5. FitsWindow(b, Near) /\ FitsWindow(b, Mid)
  BY <1>2, <1>3, <1>4 DEF Admits
<1>6. Weight[Bucket(b)] <= Weight[Bucket(a)]
      /\ Weight[Bucket(a)] \in Nat /\ Weight[Bucket(b)] \in Nat
  BY <1>2 DEF Bucket, Weight
<1>7. Mass + Weight[Bucket(b)] <= WeightLimit[mode][HealthNow]
  <2>1. Mass + Weight[Bucket(a)] <= WeightLimit[mode][HealthNow]  BY DEF Admits
  <2>2. QED  BY <2>1, <1>1, <1>6
<1>8. QED  BY <1>5, <1>7 DEF Admits

(* Tokens are granted to a robot that sets out in its turn, and to no other *)
(* robot of the queue.                                                      *)
LEMMA OnlySetOutGrants ==
    ASSUME OrderInv, [DynamicNext]_dynamicVars, step = "plan",
           NEW r, r \in assigned' \ assigned
    PROVE  r \in Robots /\ IsNext(r) /\ Admits(distance[r])
<1>1. CASE Plan
  <2>1. PICK s \in Robots : SetOut(s) \/ Reject(s) \/ RollBack(s)
    BY <1>1 DEF Plan, ScanDone
  <2>2. Tries(s)  BY <2>1 DEF SetOut, Reject, RollBack
  <2>3. s \notin CommittedRobots  BY <2>2, AskingFacts DEF OrderInv
  <2>4. s \notin Physical  BY <2>3 DEF CommittedRobots
  <2>5. SetOut(s)
    BY <2>1, <2>4 DEF Reject, RollBack
  <2>6. r = s  BY <2>5 DEF SetOut
  <2>7. QED  BY <2>2, <2>3, <2>5, <2>6 DEF SetOut, Tries, Grants
<1>2. CASE UNCHANGED dynamicVars
  BY <1>2 DEF dynamicVars, vars
<1>3. ~(CascadeAndObserve \/ ExitAndRecord \/ Absorb("absorb", "prune") \/ Prune
        \/ DynamicMove \/ Absorb("arrive", "act") \/ Act \/ AdvanceTick)
  BY DEF CascadeAndObserve, Cascade, CascadeTo, ExitAndRecord, ProcessExits, Absorb, Prune,
         PruneWaiting, DynamicMove, Move, MoveAgents, Act, StartActions, PickedUp, Served,
         Nothing, ServiceDone, NothingDone, Acts, AdvanceTick
<1>4. QED  BY <1>1, <1>2, <1>3 DEF DynamicNext

(* PassesOnlyTheRefused holds: with a dispatch queue, the planning scan of  *)
(* _plan_and_activate lets a robot pass one that waits ahead of it only     *)
(* after that one has tried, and only where that one was rolled back, or is *)
(* nearer and was refused because its earlier window is full.               *)
THEOREM PassesOnly == DynamicSpec => PassesOnlyTheRefused
<1> DEFINE Passing ==
      mode = DispatchQueue /\ step = "plan" =>
          \A j \in DOMAIN waiting : waiting[j] \in assigned' \ assigned =>
              \A i \in 1 .. j - 1 :
                  /\ waiting[i] \notin todo
                  /\ \/ Admits(distance[waiting[i]])
                     \/ /\ distance[waiting[i]] < distance[waiting[j]]
                        /\ Bucket(distance[waiting[i]]) # Bucket(distance[waiting[j]])
<1>1. OrderInv /\ [DynamicNext]_dynamicVars => Passing
  <2> SUFFICES ASSUME OrderInv, [DynamicNext]_dynamicVars, mode = DispatchQueue, step = "plan",
                      NEW j \in DOMAIN waiting, waiting[j] \in assigned' \ assigned,
                      NEW i \in 1 .. j - 1
               PROVE  /\ waiting[i] \notin todo
                      /\ \/ Admits(distance[waiting[i]])
                         \/ /\ distance[waiting[i]] < distance[waiting[j]]
                            /\ Bucket(distance[waiting[i]]) # Bucket(distance[waiting[j]])
    OBVIOUS
  <2>1. IsNext(waiting[j]) /\ Admits(distance[waiting[j]])
    BY OnlySetOutGrants
  <2>2. i \in DOMAIN waiting /\ waiting[i] \notin todo
    BY <2>1, NextInQueue
  <2>3. distance[waiting[i]] \in Nat /\ distance[waiting[j]] \in Nat
    <3>1. waiting[i] \in Robots /\ waiting[j] \in Robots
      BY <2>2, ElementOfSeq, LenProperties DEF OrderInv
    <3>2. QED  BY <3>1, EtasAssumption DEF OrderInv, DynamicInv, Standing
  <2>4. mode \in Contracts  BY DEF Contracts
  <2>5. \/ distance[waiting[i]] >= distance[waiting[j]]
        \/ Bucket(distance[waiting[i]]) = Bucket(distance[waiting[j]])
        => Admits(distance[waiting[i]])
    BY <2>1, <2>3, <2>4, LaterFits DEF OrderInv
  <2>6. QED  BY <2>2, <2>3, <2>5
<1>2. QED
  BY <1>1, OrderInductive, PTL DEF DynamicSpec, PassesOnlyTheRefused

=============================================================================
