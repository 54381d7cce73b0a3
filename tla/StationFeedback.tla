---------------------------- MODULE StationFeedback ----------------------------
(***************************************************************************)
(* The feedback loop around one station: StationFeedbackController         *)
(* (src/src/WorldModel/core/station_feedback_control.py) watches the       *)
(* station of StationAdmission at the assignment step of a tick and, while *)
(* the station is in BRAKE or LOCKED, the active assigner                  *)
(* (StationFeedbackClosedLoopPipelinePhiDynamicPsiAssigner) sends no robot *)
(* to fetch a pod for it.                                                  *)
(*                                                                         *)
(* The controller sees the station only in ticks in which there are        *)
(* contexts to assign and idle robots to assign them to; what it does not  *)
(* see it must not infer. The contexts, and which of the idle robots the   *)
(* ranking sends when the filter lets it, are arbitrary.                   *)
(***************************************************************************)
EXTENDS StationAdmission

CONSTANTS
    Profiles,     \* the active_v1, active_v2 and active_v3 modes of the assigner
    Caution,      \* caution_*: thresholds [exit, drought, rejection]
    Brake,        \* brake_*: thresholds [exit, drought, rejection]
    Early,        \* early_brake_*: [exit, drought, rejection, pressure, evidence]
    LockedExit,   \* locked_exit_block_streak
    Recovery,     \* recovery_*: [clear, releases]
    Grace         \* release_handoff_grace_ticks

Signals == {"exit", "drought", "rejection"}

(* What StationFeedbackConfig.__post_init__ accepts.                        *)
ASSUME ThresholdsAssumption ==
    /\ Profiles \subseteq {"v1", "v2", "v3"}
    /\ \A s \in Signals : /\ Caution[s] \in Nat \ {0}
                          /\ Brake[s] \in Nat /\ Caution[s] < Brake[s]
                          /\ Early[s] \in Nat \ {0} /\ Early[s] < Brake[s]
    /\ LockedExit \in Nat /\ Brake["exit"] < LockedExit
    /\ Early["pressure"] \in Nat \ {0} /\ Early["evidence"] \in 1 .. 3
    /\ Recovery["clear"] \in Nat \ {0} /\ Recovery["releases"] \in Nat \ {0}
    /\ Grace \in Nat

VARIABLES
    errand,     \* robot -> what it is away for
    assigning,  \* the assignment step of this tick is still to come
    profile,    \* the mode the assigner runs in
    memory,     \* _StationFeedbackMemory of the station
    ledger,     \* the admission counters' increments since the last observation
    jammed,     \* for how many ticks in a row the exit has really been blocked
    late        \* for how many ticks in a row a release has really been due

loop == <<errand, assigning, profile, memory, ledger, jammed, late>>
all  == <<vars, loop>>

-----------------------------------------------------------------------------
ReleaseAware == profile = "v3"
EarlyBrakes  == profile # "v1"

Larger(m, n)  == IF m > n THEN m ELSE n
Smaller(m, n) == IF m < n THEN m ELSE n

(* _station_exit_blocked and _service_release_projection.                   *)
ExitBlocked == slot[0] # Nobody /\ (atExit \/ \E r \in Robots : AtExitCell(r))
ReleaseDue  == slot[0] # Nobody /\ stage[slot[0]] = "exiting"

Crowded == Cardinality(Physical) >= Larger(1, Capacity - 1)

(* build_station_dispatch_snapshots: a robot fetching a pod for the station *)
(* and one that carries its pod without a token, which a robot released to  *)
(* the exit cell does until its DELIVER is finalized.                       *)
Committing == Cardinality(CommittedRobots)
PrePick == {r \in Robots : stage[r] = "away" /\ errand[r] = "pick"}
ReadyUnadmitted ==
    {r \in Robots : stage[r] \in {"ready", "waiting", "arrived", "exited"}} \ CommittedRobots

Pressed == \/ ReadyUnadmitted # {}
           \/ Committing + Cardinality(PrePick) > Capacity

(* max(capacity + 1, ceil(capacity * 1.4))                                  *)
Overbooked == Larger(Capacity + 1, (7 * Capacity + 4) \div 5)

(* A streak goes on over consecutive observations; limit is the largest     *)
(* threshold it is compared with.                                           *)
Streak(count, signal, limit) == IF signal THEN Smaller(count + 1, limit) ELSE 0

DroughtLimit == Brake.drought + Grace

(* The streaks the state machine listens to after this observation: the     *)
(* release-aware profile counts a blocked exit, or a station without        *)
(* release, only while the robot in service is due to leave.                *)
Reading ==
    LET still == memory.seen \subseteq Physical
    IN  [exit      |-> Streak(memory.exit,
                              still /\ ExitBlocked /\ (ReleaseAware => ReleaseDue),
                              LockedExit),
         drought   |-> Streak(memory.drought,
                              still /\ (IF ReleaseAware THEN ReleaseDue ELSE Crowded),
                              DroughtLimit),
         rejection |-> Streak(memory.rejection,
                              still /\ ledger.rejected /\ ~ledger.granted,
                              Brake.rejection),
         pressure  |-> Streak(memory.pressure,
                              EarlyBrakes /\ Crowded /\ Pressed /\ Committing >= Overbooked,
                              Early.pressure)]

(* Ticks without release beyond those a normal service or hand-off takes.   *)
Drought(r) == IF ReleaseAware THEN Larger(0, r.drought - Grace) ELSE r.drought

EarlyEvidence(r) ==
    LET measured == [exit |-> r.exit, drought |-> Drought(r), rejection |-> r.rejection]
    IN  {s \in Signals : measured[s] >= Early[s]}

EarlyBrake(r) ==
    /\ EarlyBrakes /\ r.pressure >= Early.pressure
    /\ IF ReleaseAware THEN {"exit", "drought"} \subseteq EarlyEvidence(r)
       ELSE Cardinality(EarlyEvidence(r)) >= Early.evidence

BrakesOnRejectionAlone(r) ==                                     \* faulty
    r.rejection >= Brake.rejection /\ ReadyUnadmitted # {}

BrakesOnRejection(r) ==
    /\ r.rejection >= Brake.rejection
    /\ ReadyUnadmitted # {}
    /\ ReleaseAware => Drought(r) >= Caution.drought

BrakeCondition(r) ==
    \/ EarlyBrake(r)
    \/ r.exit >= Brake.exit /\ Crowded /\ Pressed
    \/ Drought(r) >= Brake.drought /\ Pressed
    \/ BrakesOnRejection(r)

CautionCondition(r) ==
    \/ /\ Pressed
       /\ \/ r.exit >= Caution.exit
          \/ Drought(r) >= Caution.drought
          \/ r.rejection >= Caution.rejection /\ (ReleaseAware => Drought(r) > 0)
    \/ /\ EarlyBrakes /\ r.pressure >= Early.pressure
       /\ EarlyEvidence(r) \ (IF ReleaseAware THEN {"rejection"} ELSE {}) # {}

-----------------------------------------------------------------------------
(* The state machine of _update_one: the next state with the progress of    *)
(* the recovery. Releases and clear ticks count only during a recovery.     *)
Progress(state, clear, releases) == [state |-> state, clear |-> clear, releases |-> releases]

Recovering(r, flow) ==
    LET clear == Streak(memory.clear, ~CautionCondition(r) /\ r.exit = 0, Recovery.clear)
        releases == Smaller(memory.releases + flow, Recovery.releases)
    IN  IF clear >= Recovery.clear /\ releases >= Recovery.releases
        THEN Progress("open", 0, 0)
        ELSE Progress("recovery", clear, releases)

Verdict(r) ==
    LET flow == Cardinality(memory.seen \ Physical)
    IN  IF memory.state = "locked" \/ r.exit >= LockedExit
        THEN Progress("locked", memory.clear, memory.releases)
        ELSE IF BrakeCondition(r) THEN Progress("brake", 0, 0)
        ELSE CASE memory.state = "brake" ->
                      IF flow = 0 THEN Progress("brake", 0, 0)
                      ELSE Progress("recovery", 0, Smaller(flow, Recovery.releases))
               [] memory.state = "recovery" -> Recovering(r, flow)
               [] OTHER ->
                      Progress(IF CautionCondition(r) THEN "caution" ELSE "open", 0, 0)

Defers(state) == state \in {"brake", "locked"}

Idle == {r \in Robots : stage[r] = "away" /\ errand[r] = "none"}

(* What really happens, seen or not. A robot released in a tick leaves the  *)
(* service slot empty until after the next assignment step, so neither      *)
(* count runs on over a release.                                            *)
Record ==
    /\ jammed' = Streak(jammed, ExitBlocked /\ (ReleaseAware => ReleaseDue), LockedExit)
    /\ late' = Streak(late, ReleaseDue, Grace + 1)

(* assign() with contexts and idle robots: the controller is updated, then  *)
(* the filter removes the contexts of a station that is to be left alone.   *)
Observe(sent) ==
    LET reading == Reading
        verdict == Verdict(reading)
    IN  /\ assigning
        /\ Defers(verdict.state) => sent = {}
        /\ memory' = [state |-> verdict.state, clear |-> verdict.clear,
                      releases |-> verdict.releases, exit |-> reading.exit,
                      drought |-> reading.drought, rejection |-> reading.rejection,
                      pressure |-> reading.pressure, seen |-> Physical]
        /\ ledger' = [rejected |-> FALSE, granted |-> FALSE]
        /\ errand' = [r \in Robots |-> IF r \in sent THEN "pick" ELSE errand[r]]
        /\ assigning' = FALSE
        /\ Record
        /\ UNCHANGED <<vars, profile>>

RememberedOverGaps == memory                                     \* faulty

(* After an unobserved tick no streak is carried on: the code restarts it at *)
(* the next observation, the model forgets it here.                         *)
Remembered ==
    [memory EXCEPT !.exit = 0, !.drought = 0, !.rejection = 0, !.pressure = 0, !.clear = 0]

(* assign() returns without looking at the stations.                        *)
Overlook ==
    /\ assigning
    /\ memory' = Remembered
    /\ assigning' = FALSE
    /\ Record
    /\ UNCHANGED <<vars, profile, errand, ledger>>

Assign == (\E sent \in SUBSET Idle : Observe(sent)) \/ Overlook

-----------------------------------------------------------------------------
FeedbackInit ==
    /\ Init
    /\ errand = [r \in Robots |-> "none"]
    /\ assigning = TRUE
    /\ profile \in Profiles
    /\ memory = [state |-> "open", clear |-> 0, releases |-> 0, exit |-> 0, drought |-> 0,
                 rejection |-> 0, pressure |-> 0, seen |-> {}]
    /\ ledger = [rejected |-> FALSE, granted |-> FALSE]
    /\ jammed = 0
    /\ late = 0

(* The rest of the tick, as far as the controller and the assigner can tell. *)
(* reserve() counts a grant also when it is rolled back afterwards.         *)
Requested(r) ==
    \/ ActivateRejected(r) /\ ledger' = [ledger EXCEPT !.rejected = TRUE]
    \/ /\ ActivateGranted(r) \/ ActivateRolledBack(r)
       /\ ledger' = [ledger EXCEPT !.granted = TRUE]
    \/ ActivateSkip(r) /\ UNCHANGED ledger

Scan ==
    /\ \/ \E r \in Robots : Requested(r)
       \/ PlanAndActivate /\ todo = {} /\ UNCHANGED ledger
    /\ UNCHANGED <<errand, assigning, profile, memory, jammed, late>>

(* PICK completes; when the robot is away again it has its pod to return.   *)
Fetched(r) ==
    /\ errand[r] = "pick"
    /\ PickDone(r)
    /\ errand' = [errand EXCEPT ![r] = "return"]

Returned(r) ==
    /\ errand[r] = "return" /\ stage[r] = "away"
    /\ NothingDone(r)
    /\ errand' = [errand EXCEPT ![r] = "none"]

Actions ==
    /\ \E r \in Robots :
           \/ Fetched(r)
           \/ Returned(r)
           \/ (ServiceDone(r) \/ NothingDone(r)) /\ UNCHANGED errand
    /\ UNCHANGED <<assigning, profile, memory, ledger, jammed, late>>

TickEnds ==
    /\ HandleActions /\ todo = {}
    /\ assigning' = TRUE
    /\ UNCHANGED <<errand, profile, memory, ledger, jammed, late>>

(* Bound: other robots cross the exit cell, which the controller watches,   *)
(* and not the entry cell.                                                  *)
MoveOn == Move /\ atEntry' = "clear"

Elsewhere ==
    /\ \/ Cascade \/ ProcessExits \/ AbsorbStranded \/ PruneWaiting
       \/ MoveOn \/ AbsorbArrivals \/ StartActions
    /\ UNCHANGED loop

FeedbackNext == Assign \/ (~assigning /\ (Scan \/ Actions \/ TickEnds \/ Elsewhere))

FeedbackSpec == FeedbackInit /\ [][FeedbackNext]_all

ExitClears == Move /\ ~atExit' /\ \A r \in Robots : stage'[r] \notin {"exited", "leaving"}

(* Robots in the station are served, the exit cell gets free again, and the *)
(* controller looks again and again: orders keep coming and robots of the   *)
(* fleet keep getting idle.                                                 *)
Draining ==
    /\ WF_all(FeedbackNext)
    /\ SF_vars(\E r \in Robots : ServiceDone(r))
    /\ SF_vars(ExitClears)
    /\ SF_all(\E sent \in SUBSET Idle : Observe(sent))

DrainingSpec == FeedbackSpec /\ Draining

(* Admitted robots get there as well: all the fairness of StationAdmission. *)
FairFeedbackSpec == FeedbackSpec /\ Draining /\ Fairness

-----------------------------------------------------------------------------
(* The variables have their types.                                          *)
FeedbackTypeOK ==
    /\ TypeOK
    /\ errand \in [Robots -> {"none", "pick", "return"}]
    /\ assigning \in BOOLEAN
    /\ profile \in Profiles
    /\ memory \in [state : {"open", "caution", "brake", "recovery", "locked"},
                   clear : 0 .. Recovery.clear, releases : 0 .. Recovery.releases,
                   exit : 0 .. LockedExit, drought : 0 .. DroughtLimit,
                   rejection : 0 .. Brake.rejection, pressure : 0 .. Early.pressure,
                   seen : SUBSET Robots]
    /\ ledger \in [rejected : BOOLEAN, granted : BOOLEAN]
    /\ jammed \in 0 .. LockedExit
    /\ late \in 0 .. Grace + 1

(* The absorbing LOCKED state is entered only when the exit has really been *)
(* blocked, without any release, for as many consecutive ticks as the       *)
(* threshold says, and the release-aware profile brakes only when a release *)
(* has been due for longer than the hand-off takes or the exit really       *)
(* blocked for long enough: ticks in which the controller did not look are  *)
(* never taken for evidence.                                                *)
AlarmsAreReal ==
    [][memory'.state # memory.state =>
          /\ memory'.state = "locked" => jammed' >= LockedExit
          /\ memory'.state = "brake" /\ ReleaseAware =>
                 late' > Grace \/ jammed' >= Brake.exit]_all

(* A brake that was applied, or kept, with a robot in the station is lifted *)
(* (or the station found locked): the release of that robot is noticed      *)
(* however long nobody looks. The release-aware profile brakes only then.   *)
BrakeLifts ==
    memory.state = "brake" /\ (ReleaseAware \/ memory.seen # {}) ~> memory.state # "brake"

(* The module's docstring: BRAKE is preventive and reversible, whatever the *)
(* profile.                                                                 *)
BrakeIsReversible == memory.state = "brake" ~> memory.state # "brake"

=============================================================================
