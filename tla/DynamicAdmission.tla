--------------------------- MODULE DynamicAdmission ---------------------------
(***************************************************************************)
(* Admission under the two dynamic contracts, which let more robots set out *)
(* for a station than it has slots. A robot asks with its rough distance to *)
(* the entry as its ETA; whether it is admitted depends on who is inside,   *)
(* when the others are due, and how well the station has been moving.       *)
(*                                                                         *)
(* The phases of a tick, the slots and the handoff cells are those of       *)
(* StationAdmission. Times are relative to the current tick: a token keeps  *)
(* the ticks left until its predicted arrival, the station the ticks since  *)
(* its last release. Counters that nothing reads above a threshold stop     *)
(* there. Weights and weight limits are counted in quarters of a robot.     *)
(*                                                                         *)
(* Abstracted: the mean interval between releases, of which only the value  *)
(* clipped to Service .. 3*Service is ever read; it is any such value, and  *)
(* changes at a release only.                                               *)
(***************************************************************************)
EXTENDS StationAdmission, SequencesExt

CONSTANTS
    Near, Mid,      \* ETAs up to Near are near, up to Mid are mid, others far
    Far,            \* bound: the longest distance a robot asks from
    Service,        \* _dynamic_service_ticks
    HardLimit,      \* dynamic_hard_limit()
    WeightLimit,    \* contract -> health -> dynamic_weight_limit(), in quarters
    BlockStreak,    \* thresholds of a blocked entry or exit, in ticks
    Drought         \* thresholds of a station that releases nobody, in ticks

EtaOverbooking == "dynamic_eta_overbooking_v1"
DispatchQueue  == "dynamic_eta_dispatch_queue_v1"

Contracts == {EtaOverbooking, DispatchQueue}

Health == {"healthy", "caution", "brake"}

ASSUME EtasAssumption ==
    /\ Near \in Nat /\ Mid \in Nat /\ Far \in Nat
    /\ Near < Mid /\ Mid < Far
ASSUME LimitsAssumption ==
    /\ Service \in Nat \ {0}
    /\ HardLimit \in Nat /\ HardLimit >= Capacity
    /\ WeightLimit \in [Contracts -> [Health -> Nat]]
    /\ BlockStreak \in [{"caution", "brake"} -> Nat]
    /\ Drought \in [{"caution", "brake"} -> Nat]

VARIABLES
    distance,      \* robot -> its distance to the entry while it asks
    eta,           \* _dynamic_tokens: robot -> ticks to its predicted arrival
    entryStreak,   \* ticks in a row with the entry cell blocked
    exitStreak,    \* ticks in a row with the exit cell blocked
    sinceRelease,  \* ticks since a robot was last released to the exit
    cadence        \* dynamic_release_interval_estimate()

dynamic == <<distance, eta, entryStreak, exitStreak, sinceRelease, cadence>>
dynamicVars == <<vars, dynamic>>

NoToken == -1

Intervals == Service .. 3 * Service \cup {Service + 2}

UpTo(n, limit) == IF n < limit THEN n ELSE limit

-----------------------------------------------------------------------------
(* How well the station moves. A station that is all but full is in drought *)
(* when its last release is long ago, even if it stood empty meanwhile.     *)
NearlyFull == Cardinality(Physical) >= Capacity - 1 /\ Physical # {}

At(level) ==
    \/ entryStreak >= BlockStreak[level]
    \/ exitStreak >= BlockStreak[level]
    \/ NearlyFull /\ sinceRelease >= Drought[level]

HealthNow == IF At("brake") THEN "brake" ELSE IF At("caution") THEN "caution" ELSE "healthy"

Slack == [healthy |-> 2, caution |-> 1, brake |-> 0]

Bucket(ticks) == IF ticks <= Near THEN "near" ELSE IF ticks <= Mid THEN "mid" ELSE "far"

WeightsSwapped == [near |-> 1, mid |-> 2, far |-> 4]             \* faulty
Weight == [near |-> 4, mid |-> 2, far |-> 1]

Remaining(r) == IF eta[r] = NoToken THEN 0 ELSE eta[r]

Mass ==
    LET bound(b) == {r \in assigned \ Physical : Bucket(Remaining(r)) = b}
        mass(b)  == Weight[b] * Cardinality(bound(b))
    IN  4 * Cardinality(Physical) + mass("near") + mass("mid") + mass("far")

Due(horizon) ==
    Cardinality({r \in Robots \ Physical : eta[r] # NoToken /\ eta[r] <= horizon})

(* Whether the robots inside and those due within the horizon, one of them  *)
(* asking, are no more than the slots and the releases predicted by then.   *)
FitsWindow(ticks, horizon) ==
    LET credits == horizon \div cadence + (IF horizon > Near THEN 1 ELSE 0)
        asking  == IF ticks <= horizon THEN 1 ELSE 0
    IN  Cardinality(Physical) + Due(horizon) + asking
            <= UpTo(Capacity + credits + Slack[HealthNow], HardLimit)

AdmitsUncounted(ticks) ==                                        \* faulty
    /\ HealthNow = "brake" => Cardinality(CommittedRobots) < Capacity
    /\ FitsWindow(ticks, Near)
    /\ FitsWindow(ticks, Mid)
    /\ Mass + Weight[Bucket(ticks)] <= WeightLimit[mode][HealthNow]

(* The checks reserve makes for a robot that is not committed yet.          *)
Admits(ticks) ==
    /\ HealthNow = "brake" => Cardinality(CommittedRobots) < Capacity
    /\ Cardinality(CommittedRobots) < HardLimit
    /\ FitsWindow(ticks, Near)
    /\ FitsWindow(ticks, Mid)
    /\ Mass + Weight[Bucket(ticks)] <= WeightLimit[mode][HealthNow]

Grants(r, ticks) == r \in CommittedRobots \/ Admits(ticks)

Token(r, ticks) ==
    IF r \in CommittedRobots /\ eta[r] # NoToken THEN eta ELSE [eta EXCEPT ![r] = ticks]

-----------------------------------------------------------------------------
DynamicInit ==
    /\ EmptyStation
    /\ mode \in Contracts
    /\ distance = [r \in Robots |-> 0]
    /\ eta = [r \in Robots |-> NoToken]
    /\ entryStreak = 0
    /\ exitStreak = 0
    /\ sinceRelease = 0
    /\ cadence = Service + 2

EntryBlocked ==
    \/ atEntry # "clear"
    \/ Cardinality(Physical) >= Capacity /\ \E r \in Robots : AtEntryCell(r)

ExitBlocked == atExit \/ \E r \in Robots : stage[r] = "leaving"

(* The cascade, after which the station looks at its handoff cells.         *)
CascadeAndObserve ==
    /\ Cascade
    /\ entryStreak' = IF EntryBlocked' THEN UpTo(entryStreak + 1, BlockStreak["brake"]) ELSE 0
    /\ exitStreak' = IF ExitBlocked' THEN UpTo(exitStreak + 1, BlockStreak["brake"]) ELSE 0
    /\ UNCHANGED <<distance, eta, sinceRelease, cadence>>

ExitKeepsEta ==                                                  \* faulty
    /\ ProcessExits
    /\ UNCHANGED dynamic

ExitAndRecord ==
    LET out == assigned \ assigned'
    IN  /\ ProcessExits
        /\ eta' = [r \in Robots |-> IF r \in out THEN NoToken ELSE eta[r]]
        /\ IF out = {} THEN UNCHANGED <<sinceRelease, cadence>>
           ELSE sinceRelease' = 0 /\ cadence' \in Intervals
        /\ UNCHANGED <<distance, entryStreak, exitStreak>>

(* An overbooked station may have no slot for a robot with a token: it      *)
(* stays on the entry cell and tries again in the next pass.                *)
CheckInDynamic(r, next) ==
    LET needsToken == r \notin CommittedRobots
        granted    == needsToken /\ Admits(0)
        accepted   == (needsToken => granted) /\ FreeSlot
    IN  /\ stage[r] = "arrived"
        /\ stage' = IF accepted THEN [stage EXCEPT ![r] = "queuing"] ELSE stage
        /\ assigned' = IF granted \/ accepted THEN assigned \cup {r} ELSE assigned
        /\ waiting' = IF granted THEN RemoveFirst(waiting, r) ELSE waiting
        /\ eta' = IF granted \/ accepted THEN Token(r, 0) ELSE eta
        /\ step' = next

Absorb(here, next) ==
    /\ step = here
    /\ \/ \E r \in Robots : CheckInDynamic(r, next)
       \/ /\ \A r \in Robots : stage[r] # "arrived"
          /\ step' = next
          /\ UNCHANGED <<stage, assigned, waiting, eta>>
    /\ UNCHANGED <<todo, slot, atEntry, atExit, mode, distance,
                   entryStreak, exitStreak, sinceRelease, cadence>>

-----------------------------------------------------------------------------
(* The planning scan. With a dispatch queue every waiting robot may try, in *)
(* the order in which the scheduler handed out the tasks; "waiting" lists   *)
(* the robots in that order.                                                *)
Prune == PruneWaiting /\ UNCHANGED dynamic

Tries(r) ==
    /\ step = "plan"
    /\ IsNext(r)
    /\ todo' = todo \ {r}
    /\ UNCHANGED <<step, slot, atEntry, atExit, mode,
                   entryStreak, exitStreak, sinceRelease, cadence>>

StaysPut(r) ==
    /\ stage' = IF mode = DispatchQueue THEN [stage EXCEPT ![r] = "waiting"] ELSE stage
    /\ UNCHANGED distance

Reject(r) ==
    /\ Tries(r)
    /\ ~Grants(r, distance[r])
    /\ StaysPut(r)
    /\ UNCHANGED <<assigned, waiting, eta>>

RollBackToTail(r) ==                                             \* faulty
    /\ Tries(r)
    /\ Grants(r, distance[r])
    /\ StaysPut(r)
    /\ waiting' = IF mode = DispatchQueue THEN Append(RemoveFirst(waiting, r), r) ELSE waiting
    /\ assigned' = assigned \ {r}
    /\ eta' = [eta EXCEPT ![r] = NoToken]

(* The entry is taken or there is no path: the token is given back, and the *)
(* request re-enters the queue with the sequence number it had.             *)
RollBack(r) ==
    /\ Tries(r)
    /\ Grants(r, distance[r])
    /\ StaysPut(r)
    /\ IF r \in Physical THEN assigned' = assigned \cup {r} /\ eta' = Token(r, distance[r])
       ELSE assigned' = assigned \ {r} /\ eta' = [eta EXCEPT ![r] = NoToken]
    /\ UNCHANGED waiting

SetOut(r) ==
    /\ Tries(r)
    /\ Grants(r, distance[r])
    /\ ~EntryTaken(r)
    /\ waiting' = RemoveFirst(waiting, r)
    /\ assigned' = assigned \cup {r}
    /\ eta' = Token(r, distance[r])
    /\ stage' = [stage EXCEPT ![r] = "travelling"]
    /\ distance' = [distance EXCEPT ![r] = 0]

ScanDone ==
    /\ step = "plan" /\ todo = {}
    /\ step' = "move"
    /\ UNCHANGED <<todo, stage, slot, assigned, waiting, atEntry, atExit, mode, dynamic>>

Plan == (\E r \in Robots : Reject(r) \/ RollBack(r) \/ SetOut(r)) \/ ScanDone

-----------------------------------------------------------------------------
(* The distance is a lower bound: nobody arrives more than a tick early.    *)
DynamicMove ==
    /\ step = "move"
    /\ Move
    /\ \A r \in Robots : stage'[r] = "arrived" /\ stage[r] # "arrived" => eta[r] <= 1
    /\ UNCHANGED dynamic

PickedUpStale(r) ==                                              \* faulty
    /\ Acts(r)
    /\ stage[r] = "away"
    /\ IF mode = DispatchQueue
       THEN /\ stage' = [stage EXCEPT ![r] = "waiting"]
            /\ waiting' = Append(waiting, r)
       ELSE /\ stage' = [stage EXCEPT ![r] = "ready"]
            /\ UNCHANGED waiting
    /\ UNCHANGED dynamic

PickedUp(r) ==
    /\ Acts(r)
    /\ stage[r] = "away"
    /\ \E d \in 1 .. Far : distance' = [distance EXCEPT ![r] = d]
    /\ IF mode = DispatchQueue
       THEN /\ stage' = [stage EXCEPT ![r] = "waiting"]
            /\ \E n \in 1 .. Len(waiting) + 1 : waiting' = InsertAt(waiting, n, r)
       ELSE /\ stage' = [stage EXCEPT ![r] = "ready"]
            /\ UNCHANGED waiting
    /\ UNCHANGED <<eta, entryStreak, exitStreak, sinceRelease, cadence>>

Served(r)  == ServiceDone(r) /\ UNCHANGED dynamic
Nothing(r) == NothingDone(r) /\ UNCHANGED dynamic

AdvanceTick ==
    /\ step = "acting" /\ todo = {}
    /\ step' = "cascade"
    /\ eta' = [r \in Robots |-> IF eta[r] > 0 THEN eta[r] - 1 ELSE eta[r]]
    /\ sinceRelease' = UpTo(sinceRelease + 1, Drought["brake"])
    /\ UNCHANGED <<todo, stage, slot, assigned, waiting, atEntry, atExit, mode,
                   distance, entryStreak, exitStreak, cadence>>

Act ==
    \/ StartActions /\ UNCHANGED dynamic
    \/ \E r \in Robots : PickedUp(r) \/ Served(r) \/ Nothing(r)

DynamicNext ==
    \/ CascadeAndObserve
    \/ ExitAndRecord
    \/ Absorb("absorb", "prune")
    \/ Prune
    \/ Plan
    \/ DynamicMove
    \/ Absorb("arrive", "act")
    \/ Act
    \/ AdvanceTick

DynamicSpec == DynamicInit /\ [][DynamicNext]_dynamicVars

-----------------------------------------------------------------------------
(* The variables have their types; a robot that asks has a distance.        *)
DynamicTypeOK ==
    /\ step \in {"cascade", "exits", "absorb", "prune", "plan", "move",
                 "arrive", "act", "acting"}
    /\ todo \subseteq Robots
    /\ stage \in [Robots -> Stage]
    /\ slot \in [Cells -> Robots \cup {Nobody}]
    /\ assigned \subseteq Robots
    /\ waiting \in Seq(Robots)
    /\ distance \in [Robots -> 0 .. Far]
    /\ \A r \in Robots : stage[r] \in {"waiting", "ready"} => distance[r] > 0
    /\ eta \in [Robots -> Nat \cup {NoToken}]
    /\ cadence \in Intervals
    /\ mode \in Contracts

(* However many robots the controller lets set out, those inside and those  *)
(* on their way never outnumber the hard limit: reserve never has to raise  *)
(* its RuntimeError.                                                        *)
HardLimitHolds == Cardinality(CommittedRobots) <= HardLimit

(* The two ledgers agree: exactly the robots that hold a token have a       *)
(* predicted arrival, from the activation of their DELIVER to their release. *)
(* A prediction left behind would count as due in every window for ever.    *)
LedgersAgree ==
    /\ TokensMatchStages
    /\ \A r \in Robots : eta[r] # NoToken <=> r \in assigned

(* The waiting robots stay in the order of the scheduler: a request that is *)
(* refused or rolled back keeps its rank among the others.                  *)
DispatchOrderKept ==
    [][\A i, j \in DOMAIN waiting, k, l \in DOMAIN waiting' :
           i < j /\ waiting[i] = waiting'[k] /\ waiting[j] = waiting'[l] => k < l]_waiting

(* A robot that is admitted before one that waits ahead of it passes it in  *)
(* its own turn only, after the other has tried; and if the other was       *)
(* refused, only because it arrives in a later window.                      *)
PassesOnlyTheRefused ==
    [][mode = DispatchQueue /\ step = "plan" =>
           \A j \in DOMAIN waiting : waiting[j] \in assigned' \ assigned =>
               \A i \in 1 .. j - 1 :
                   /\ waiting[i] \notin todo
                   /\ \/ Admits(distance[waiting[i]])
                      \/ /\ distance[waiting[i]] < distance[waiting[j]]
                         /\ Bucket(distance[waiting[i]]) # Bucket(distance[waiting[j]])]_dynamicVars

=============================================================================
