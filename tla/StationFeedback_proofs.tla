------------------------ MODULE StationFeedback_proofs ------------------------
(***************************************************************************)
(* Machine-checked theorems about StationFeedback, for any finite set of   *)
(* robots, any capacity, any accepted thresholds and every profile.        *)
(***************************************************************************)
EXTENDS StationFeedback, StationAdmission_proofs

(* What the induction needs of the loop's own variables.                    *)
LoopTypes ==
    /\ errand \in [Robots -> {"none", "pick", "return"}]
    /\ assigning \in BOOLEAN
    /\ profile \in Profiles
    /\ memory \in [state : {"open", "caution", "brake", "recovery", "locked"},
                   clear : 0 .. Recovery.clear, releases : 0 .. Recovery.releases,
                   exit : 0 .. LockedExit, drought : 0 .. DroughtLimit,
                   rejection : 0 .. Brake.rejection, pressure : 0 .. Early.pressure,
                   seen : SUBSET Robots]
    /\ ledger \in [rejected : BOOLEAN, granted : BOOLEAN]
    /\ jammed \in 0 .. LockedExit
    /\ late \in 0 .. Grace + 1

(* No streak is longer than what really happened: the heart of the gap      *)
(* policy.                                                                  *)
StreaksAreReal ==
    /\ memory.exit <= jammed
    /\ ReleaseAware => memory.drought <= late \/ late > Grace

-----------------------------------------------------------------------------
(* The thresholds as numbers.                                               *)
LEMMA Thresholds ==
    /\ LockedExit \in Nat /\ Grace \in Nat
    /\ Caution.exit \in Nat \ {0} /\ Caution.drought \in Nat \ {0} /\ Caution.rejection \in Nat \ {0}
    /\ Brake.exit \in Nat /\ Brake.drought \in Nat /\ Brake.rejection \in Nat
    /\ Early.exit \in Nat \ {0} /\ Early.drought \in Nat \ {0} /\ Early.rejection \in Nat \ {0}
    /\ Early.pressure \in Nat \ {0}
    /\ Recovery.clear \in Nat \ {0} /\ Recovery.releases \in Nat \ {0}
    /\ Brake.exit < LockedExit /\ Caution.drought < Brake.drought
    /\ DroughtLimit \in Nat
<1>1. {"exit", "drought", "rejection"} \subseteq Signals  BY DEF Signals
<1>2. QED  BY <1>1, ThresholdsAssumption DEF DroughtLimit

(* A streak counts up to its limit and restarts at 0.                       *)
LEMMA StreakBounded ==
    ASSUME NEW limit \in Nat, NEW count \in Nat, NEW signal
    PROVE  /\ Streak(count, signal, limit) \in 0 .. limit
           /\ Streak(count, signal, limit) <= count + 1
           /\ ~signal => Streak(count, signal, limit) = 0
           /\ signal => Streak(count, signal, limit) = Smaller(count + 1, limit)
BY DEF Streak, Smaller

(* The streaks of an observation are numbers within their limits.           *)
LEMMA ReadingTyped ==
    ASSUME LoopTypes
    PROVE  Reading \in [exit : 0 .. LockedExit, drought : 0 .. DroughtLimit,
                        rejection : 0 .. Brake.rejection, pressure : 0 .. Early.pressure]
<1>1. memory.exit \in Nat /\ memory.drought \in Nat /\ memory.rejection \in Nat
      /\ memory.pressure \in Nat
  BY Thresholds DEF LoopTypes
<1>2. QED  BY <1>1, Thresholds, StreakBounded DEF Reading

LEMMA SmallerBounded ==
    ASSUME NEW m \in Nat, NEW n \in Nat
    PROVE  Smaller(m, n) \in 0 .. n
BY DEF Smaller

-----------------------------------------------------------------------------
(* The state machine moves between its five states.                         *)
LEMMA VerdictTyped ==
    ASSUME LoopTypes, NEW r
    PROVE  /\ Verdict(r).state \in {"open", "caution", "brake", "recovery", "locked"}
           /\ Verdict(r).clear \in 0 .. Recovery.clear
           /\ Verdict(r).releases \in 0 .. Recovery.releases
<1> DEFINE Flow == Cardinality(memory.seen \ Physical)
<1>1. Flow \in Nat
  <2>1. IsFiniteSet(memory.seen \ Physical)
    BY RobotsAssumption, FS_Subset DEF LoopTypes
  <2>2. QED  BY <2>1, FS_CardinalityType
<1>2. /\ memory.clear \in 0 .. Recovery.clear
      /\ memory.releases \in 0 .. Recovery.releases
      /\ memory.state \in {"open", "caution", "brake", "recovery", "locked"}
  BY DEF LoopTypes
<1>3. 0 \in 0 .. Recovery.clear /\ 0 \in 0 .. Recovery.releases  BY Thresholds
<1>4. Smaller(Flow, Recovery.releases) \in 0 .. Recovery.releases
  BY <1>1, Thresholds, SmallerBounded
<1>5. /\ Recovering(r, Flow).state \in {"open", "recovery"}
      /\ Recovering(r, Flow).clear \in 0 .. Recovery.clear
      /\ Recovering(r, Flow).releases \in 0 .. Recovery.releases
  <2>1. Streak(memory.clear, ~CautionCondition(r) /\ r.exit = 0, Recovery.clear)
            \in 0 .. Recovery.clear
    <3>1. memory.clear \in Nat  BY <1>2, Thresholds
    <3>2. QED  BY <3>1, Thresholds, StreakBounded
  <2>2. Smaller(memory.releases + Flow, Recovery.releases) \in 0 .. Recovery.releases
    <3>1. memory.releases + Flow \in Nat  BY <1>1, <1>2, Thresholds
    <3>2. QED  BY <3>1, Thresholds, SmallerBounded
  <2>3. QED  BY <2>1, <2>2, <1>3 DEF Recovering, Progress
<1>6. QED  BY <1>2, <1>3, <1>4, <1>5, Zenon DEF Verdict, Progress

-----------------------------------------------------------------------------
(* Every step of the loop is a step of the station, or leaves it alone.     *)
LEMMA StepIsStationStep == [FeedbackNext]_all => [Next]_vars
<1> SUFFICES ASSUME [FeedbackNext]_all PROVE [Next]_vars
  OBVIOUS
<1>1. CASE Assign  BY <1>1 DEF Assign, Observe, Overlook
<1>2. CASE Scan  BY <1>2 DEF Scan, Requested, Next, PlanAndActivate
<1>3. CASE Actions  BY <1>3 DEF Actions, Fetched, Returned, Next, HandleActions
<1>4. CASE TickEnds  BY <1>4 DEF TickEnds, Next
<1>5. CASE Elsewhere  BY <1>5 DEF Elsewhere, MoveOn, Next
<1>6. CASE UNCHANGED all  BY <1>6 DEF all
<1>7. QED  BY <1>1, <1>2, <1>3, <1>4, <1>5, <1>6 DEF FeedbackNext

(* The feedback loop only restricts when robots set out: it is an           *)
(* implementation of the station, so the theorems about the station hold    *)
(* under every profile of the controller.                                   *)
THEOREM LoopKeepsStation == FeedbackSpec => Spec
<1>1. FeedbackInit => Init  BY DEF FeedbackInit
<1>2. QED  BY <1>1, StepIsStationStep, PTL DEF FeedbackSpec, Spec

-----------------------------------------------------------------------------
LEMMA LoopInit == FeedbackInit => LoopTypes /\ StreaksAreReal
BY Thresholds DEF FeedbackInit, LoopTypes, StreaksAreReal

(* Outside the assignment step only errands, the ledger and the phase of    *)
(* the loop change.                                                         *)
LEMMA RestOfTick ==
    ASSUME LoopTypes, Scan \/ Actions \/ TickEnds \/ Elsewhere \/ UNCHANGED all
    PROVE  LoopTypes' /\ UNCHANGED <<profile, memory, jammed, late>>
<1>1. CASE Scan
  <2>1. UNCHANGED <<errand, assigning, profile, memory, jammed, late>>
        /\ ledger' \in [rejected : BOOLEAN, granted : BOOLEAN]
    BY <1>1 DEF Scan, Requested, LoopTypes
  <2>2. QED  BY <2>1 DEF LoopTypes
<1>2. CASE Actions
  <2>1. UNCHANGED <<assigning, profile, memory, ledger, jammed, late>>
        /\ errand' \in [Robots -> {"none", "pick", "return"}]
    BY <1>2 DEF Actions, Fetched, Returned, LoopTypes
  <2>2. QED  BY <2>1 DEF LoopTypes
<1>3. CASE TickEnds  BY <1>3 DEF TickEnds, LoopTypes
<1>4. CASE Elsewhere \/ UNCHANGED all  BY <1>4 DEF Elsewhere, all, loop, LoopTypes
<1>5. QED  BY <1>1, <1>2, <1>3, <1>4

(* The real counts are numbers within their limits.                         *)
LEMMA RecordTyped ==
    ASSUME LoopTypes, Record
    PROVE  jammed' \in 0 .. LockedExit /\ late' \in 0 .. Grace + 1
<1>1. jammed \in Nat /\ late \in Nat  BY Thresholds DEF LoopTypes
<1>2. Grace + 1 \in Nat  BY Thresholds
<1>3. QED  BY <1>1, <1>2, Thresholds, StreakBounded DEF Record

LEMMA ObserveTypes ==
    ASSUME TypeOK, LoopTypes, NEW sent \in SUBSET Idle, Observe(sent)
    PROVE  LoopTypes'
<1>1. /\ Verdict(Reading).state \in {"open", "caution", "brake", "recovery", "locked"}
      /\ Verdict(Reading).clear \in 0 .. Recovery.clear
      /\ Verdict(Reading).releases \in 0 .. Recovery.releases
  BY VerdictTyped
<1>2. Physical \subseteq Robots  BY DEF TypeOK, Physical
<1>3. memory' \in [state : {"open", "caution", "brake", "recovery", "locked"},
                   clear : 0 .. Recovery.clear, releases : 0 .. Recovery.releases,
                   exit : 0 .. LockedExit, drought : 0 .. DroughtLimit,
                   rejection : 0 .. Brake.rejection, pressure : 0 .. Early.pressure,
                   seen : SUBSET Robots]
  BY <1>1, <1>2, ReadingTyped DEF Observe
<1>4. jammed' \in 0 .. LockedExit /\ late' \in 0 .. Grace + 1
  BY RecordTyped DEF Observe
<1>5. errand' \in [Robots -> {"none", "pick", "return"}]  BY DEF Observe, LoopTypes
<1>6. /\ assigning' \in BOOLEAN /\ profile' = profile
      /\ ledger' \in [rejected : BOOLEAN, granted : BOOLEAN]
  BY DEF Observe
<1>7. QED  BY <1>3, <1>4, <1>5, <1>6 DEF LoopTypes

LEMMA OverlookTypes ==
    ASSUME LoopTypes, Overlook
    PROVE  LoopTypes'
<1>1. jammed' \in 0 .. LockedExit /\ late' \in 0 .. Grace + 1
  BY RecordTyped DEF Overlook
<1>2. memory' \in [state : {"open", "caution", "brake", "recovery", "locked"},
                   clear : 0 .. Recovery.clear, releases : 0 .. Recovery.releases,
                   exit : 0 .. LockedExit, drought : 0 .. DroughtLimit,
                   rejection : 0 .. Brake.rejection, pressure : 0 .. Early.pressure,
                   seen : SUBSET Robots]
  <2>1. /\ 0 \in 0 .. LockedExit /\ 0 \in 0 .. DroughtLimit /\ 0 \in 0 .. Brake.rejection
        /\ 0 \in 0 .. Early.pressure /\ 0 \in 0 .. Recovery.clear
    BY Thresholds
  <2>2. QED  BY <2>1 DEF Overlook, Remembered, LoopTypes
<1>3. QED  BY <1>1, <1>2 DEF Overlook, LoopTypes

-----------------------------------------------------------------------------
(* An observation's streaks stay within what really happened.               *)
LEMMA ObservedStreaks ==
    ASSUME LoopTypes, StreaksAreReal, Record
    PROVE  /\ Reading.exit <= jammed'
           /\ ReleaseAware => Reading.drought <= late' \/ late' > Grace
<1> DEFINE Still == memory.seen \subseteq Physical
           Jam   == ExitBlocked /\ (ReleaseAware => ReleaseDue)
<1>1. /\ memory.exit \in Nat /\ memory.drought \in Nat
      /\ jammed \in Nat /\ late \in Nat /\ Grace + 1 \in Nat
      /\ DroughtLimit \in Nat /\ LockedExit \in Nat /\ Grace \in Nat
  BY Thresholds DEF LoopTypes
<1>2. Reading.exit <= jammed'
  <2>1. Reading.exit = Streak(memory.exit, Still /\ Jam, LockedExit)  BY DEF Reading
  <2>2. jammed' = Streak(jammed, Jam, LockedExit)  BY DEF Record
  <2>3. memory.exit <= jammed  BY DEF StreaksAreReal
  <2>4. QED  BY <2>1, <2>2, <2>3, <1>1 DEF Streak, Smaller
<1>3. ASSUME ReleaseAware PROVE Reading.drought <= late' \/ late' > Grace
  <2>1. Reading.drought = Streak(memory.drought, Still /\ ReleaseDue, DroughtLimit)
    BY <1>3 DEF Reading
  <2>2. late' = Streak(late, ReleaseDue, Grace + 1)  BY DEF Record
  <2>3. memory.drought <= late \/ late > Grace  BY <1>3 DEF StreaksAreReal
  <2>4. QED  BY <2>1, <2>2, <2>3, <1>1 DEF Streak, Smaller
<1>4. QED  BY <1>2, <1>3

LEMMA StreaksStep ==
    ASSUME LoopTypes, StreaksAreReal, [FeedbackNext]_all
    PROVE  StreaksAreReal'
<1>1. ASSUME NEW sent \in SUBSET Idle, Observe(sent) PROVE StreaksAreReal'
  <2>1. Record /\ profile' = profile  BY <1>1 DEF Observe
  <2>2. memory'.exit = Reading.exit /\ memory'.drought = Reading.drought  BY <1>1 DEF Observe
  <2>3. QED  BY <2>1, <2>2, ObservedStreaks DEF StreaksAreReal, ReleaseAware
<1>2. CASE Overlook
  <2>1. Record /\ profile' = profile  BY <1>2 DEF Overlook
  <2>2. memory'.exit = 0 /\ memory'.drought = 0
    BY <1>2 DEF Overlook, Remembered, LoopTypes
  <2>3. jammed' \in Nat /\ late' \in Nat  BY <2>1, RecordTyped, Thresholds
  <2>4. QED  BY <2>1, <2>2, <2>3 DEF StreaksAreReal
<1>3. CASE Scan \/ Actions \/ TickEnds \/ Elsewhere \/ UNCHANGED all
  BY <1>3, RestOfTick DEF StreaksAreReal, ReleaseAware
<1>4. QED  BY <1>1, <1>2, <1>3 DEF FeedbackNext, Assign

LEMMA LoopStep ==
    ASSUME TypeOK, LoopTypes, [FeedbackNext]_all
    PROVE  LoopTypes'
<1>1. CASE \E sent \in SUBSET Idle : Observe(sent)  BY <1>1, ObserveTypes
<1>2. CASE Overlook  BY <1>2, OverlookTypes
<1>3. CASE Scan \/ Actions \/ TickEnds \/ Elsewhere \/ UNCHANGED all  BY <1>3, RestOfTick
<1>4. QED  BY <1>1, <1>2, <1>3 DEF FeedbackNext, Assign

LEMMA LoopInductive == FeedbackSpec => [](TypeOK /\ LoopTypes /\ StreaksAreReal)
<1>1. FeedbackSpec => []TypeOK  BY LoopKeepsStation, TypeCorrect, PTL
<1>2. TypeOK /\ LoopTypes /\ StreaksAreReal /\ [FeedbackNext]_all => (LoopTypes /\ StreaksAreReal)'
  BY LoopStep, StreaksStep
<1>3. QED  BY <1>1, <1>2, LoopInit, PTL DEF FeedbackSpec

(* Type correctness of the loop and the station in it.                      *)
THEOREM FeedbackTypes == FeedbackSpec => []FeedbackTypeOK
<1>1. TypeOK /\ LoopTypes => FeedbackTypeOK  BY DEF FeedbackTypeOK, LoopTypes
<1>2. QED  BY <1>1, LoopInductive, PTL

-----------------------------------------------------------------------------
(* A release-aware brake has a release overdue, or a long streak of blocked *)
(* exits, behind it.                                                        *)
LEMMA AwareBrake ==
    ASSUME NEW r, r.exit \in Nat, r.drought \in Nat, ReleaseAware, BrakeCondition(r)
    PROVE  r.exit >= Brake.exit \/ r.drought > Grace
<1>1. Drought(r) = Larger(0, r.drought - Grace)  BY DEF Drought
<1>2. Drought(r) >= 1 => r.drought > Grace  BY <1>1, Thresholds DEF Larger
<1>3. CASE EarlyBrake(r)
  <2>1. "drought" \in EarlyEvidence(r)  BY <1>3 DEF EarlyBrake
  <2>2. Drought(r) >= Early.drought  BY <2>1 DEF EarlyEvidence, Signals
  <2>3. Drought(r) \in Int  BY <1>1, Thresholds DEF Larger
  <2>4. QED  BY <2>2, <2>3, <1>2, Thresholds
<1>4. CASE Drought(r) >= Brake.drought
  <2>1. Drought(r) \in Int  BY <1>1, Thresholds DEF Larger
  <2>2. QED  BY <1>4, <2>1, <1>2, Thresholds
<1>5. CASE BrakesOnRejection(r)
  <2>1. Drought(r) >= Caution.drought  BY <1>5 DEF BrakesOnRejection
  <2>2. Drought(r) \in Int  BY <1>1, Thresholds DEF Larger
  <2>3. QED  BY <2>1, <2>2, <1>2, Thresholds
<1>6. QED  BY <1>3, <1>4, <1>5 DEF BrakeCondition

(* What a verdict of the state machine has behind it.                       *)
LEMMA VerdictGrounds ==
    ASSUME LoopTypes, NEW r
    PROVE  /\ Verdict(r).state = "locked" => memory.state = "locked" \/ r.exit >= LockedExit
           /\ Verdict(r).state = "brake" => memory.state = "brake" \/ BrakeCondition(r)
<1>1. memory.state \in {"open", "caution", "brake", "recovery", "locked"}  BY DEF LoopTypes
<1>2. \A flow : Recovering(r, flow).state \in {"open", "recovery"}  BY DEF Recovering, Progress
<1>3. QED  BY <1>1, <1>2, Zenon DEF Verdict, Progress

(* No alarm is raised on anything but consecutive real ticks, for any       *)
(* thresholds the configuration accepts and any pattern of observation.     *)
THEOREM AlarmsSound == FeedbackSpec => AlarmsAreReal
<1> DEFINE Sound == memory'.state # memory.state =>
                        /\ memory'.state = "locked" => jammed' >= LockedExit
                        /\ memory'.state = "brake" /\ ReleaseAware =>
                               late' > Grace \/ jammed' >= Brake.exit
<1>1. ASSUME TypeOK, LoopTypes, StreaksAreReal, [FeedbackNext]_all PROVE [Sound]_all
  <2>1. CASE Scan \/ Actions \/ TickEnds \/ Elsewhere \/ UNCHANGED all
    BY <1>1, <2>1, RestOfTick
  <2>2. CASE Overlook
    <3>1. memory'.state = memory.state  BY <1>1, <2>2 DEF Overlook, Remembered, LoopTypes
    <3>2. QED  BY <3>1
  <2>3. ASSUME NEW sent \in SUBSET Idle, Observe(sent), memory'.state # memory.state PROVE Sound
    <3>1. memory'.state = Verdict(Reading).state  BY <2>3 DEF Observe
    <3>2. Record  BY <2>3 DEF Observe
    <3>3. /\ Reading.exit <= jammed'
          /\ ReleaseAware => Reading.drought <= late' \/ late' > Grace
      BY <1>1, <3>2, ObservedStreaks
    <3>4. /\ Reading.exit \in Nat /\ Reading.drought \in Nat
          /\ jammed' \in Nat /\ late' \in Nat
      BY <1>1, <3>2, ReadingTyped, RecordTyped, Thresholds
    <3>5. ASSUME memory'.state = "locked" PROVE jammed' >= LockedExit
      <4>1. Reading.exit >= LockedExit  BY <1>1, <2>3, <3>1, <3>5, VerdictGrounds
      <4>2. QED  BY <3>3, <3>4, <4>1, Thresholds
    <3>6. ASSUME memory'.state = "brake", ReleaseAware
          PROVE  late' > Grace \/ jammed' >= Brake.exit
      <4>1. BrakeCondition(Reading)  BY <1>1, <2>3, <3>1, <3>6, VerdictGrounds
      <4>2. Reading.exit >= Brake.exit \/ Reading.drought > Grace
        BY <3>4, <3>6, <4>1, AwareBrake
      <4>3. QED  BY <3>3, <3>4, <3>6, <4>2, Thresholds
    <3>7. QED  BY <3>5, <3>6
  <2>4. QED  BY <1>1, <2>1, <2>2, <2>3 DEF FeedbackNext, Assign
<1>2. QED  BY <1>1, LoopInductive, PTL DEF FeedbackSpec, AlarmsAreReal

=============================================================================
