--------------------------- MODULE StationAdmission ---------------------------
(***************************************************************************)
(* Admission of carrying robots to ONE picking station, tick by tick.      *)
(*                                                                         *)
(* The module follows the token ledger of StationQueueState                *)
(* (src/src/WorldState/station_state.py) through the phases of             *)
(* SimulationEngine._tick (src/src/Engine/simulation_engine.py) in which   *)
(* the engine touches it: cascade, exits, absorption at the entry,         *)
(* DELIVER activation, movement, absorption again, actions.                *)
(*                                                                         *)
(* Abstracted: the grid (the slots are numbered by priority, 0 = service,  *)
(* 1 .. Capacity-1 = queue then buffer, then the entry; QueueAdvance says   *)
(* how robots move up them and StationZone checks it on the grid), the      *)
(* routes outside the zone (a travelling robot reaches the entry at some    *)
(* later movement phase), the lengths of countdowns, and what a robot does  *)
(* between two deliveries.                                                  *)
(***************************************************************************)
EXTENDS Integers, Sequences, FiniteSets, Functions, QueueAdvance

CONSTANTS
    Robots,       \* robot ids; the engine scans robots in id order
    Capacity,     \* service + queue + buffer slots
    Modes,        \* the admission contracts a station may be set up with
    Visitors,     \* whether robots on other errands may stop on the handoff cells
    Nobody        \* the content of a free slot

Legacy    == "physical_only_legacy"
Committed == "committed_capacity_v1"
Fifo      == "committed_capacity_fifo_v2"

ASSUME RobotsAssumption   == Robots \subseteq Nat /\ IsFiniteSet(Robots)
ASSUME CapacityAssumption == Capacity \in Nat \ {0}
ASSUME ModesAssumption    == Modes \subseteq {Legacy, Committed, Fifo}
ASSUME VisitorsAssumption == Visitors \in BOOLEAN
ASSUME NobodyAssumption   == Nobody \notin Robots

VARIABLES
    step,       \* the phase of the tick the engine is in
    todo,       \* robots the scan of the current phase has not reached yet
    stage,      \* robot -> where it stands in its DELIVER task
    slot,       \* cell of the zone -> the robot occupying that slot
    assigned,   \* _assigned_agents: robots that hold an admission token
    waiting,    \* _waiting_reservations: robots waiting for a token, in order
    atEntry,    \* a robot on another errand on the entry cell
    atExit,     \* a robot on another errand stands on the exit cell
    mode        \* _admission_mode, set before the run

vars == <<step, todo, stage, slot, assigned, waiting, atEntry, atExit, mode>>

-----------------------------------------------------------------------------
(* AgentStatus, refined by the status of the robot's DELIVER task and by    *)
(* the handoff cell it stands on.                                           *)
Stage == {
    "away",         \* no DELIVER within reach: idle, fetching or returning
    "ready",        \* PICK done, DELIVER ASSIGNED, not in the waiting list
    "waiting",      \* WAITING_ASSIGNED
    "travelling",   \* CARRYING, DELIVER IN_PROGRESS, on its way to the entry
    "arrived",      \* CARRYING on the entry cell, not checked in
    "queuing",      \* QUEUING, on the entry cell or in a queue/buffer slot
    "delivering",   \* DELIVERING in the service slot
    "exiting",      \* EXITING, service done, still in the service slot
    "exited",       \* EXITING on the exit cell
    "leaving"}      \* DELIVER completed, RETURN next, still on the exit cell

Cells == 0 .. Capacity - 1

EntryTraffic == {"clear", "passing", "parked"}

UsesExplicitWaiting == mode = Fifo

FreeSlotsIncluded == {slot[c] : c \in Cells}                    \* faulty
Physical == {slot[c] : c \in Cells} \ {Nobody}

TokensForgotten == Physical                                      \* faulty
CommittedRobots == assigned \cup Physical

Waiters == Range(waiting)

AtEntryCell(r) == \/ stage[r] = "arrived"
                  \/ stage[r] = "queuing" /\ r \notin Physical

AtExitCell(r) == stage[r] \in {"exited", "leaving"}

FreeSlot == \E c \in Cells : slot[c] = Nobody

Without(seq, S) ==
    IF Range(seq) \cap S = {} THEN seq ELSE SelectSeq(seq, LAMBDA r : r \notin S)

-----------------------------------------------------------------------------
(* The ledger's operations. reserve() returns whether a token was granted   *)
(* and updates the token set and the waiting list.                          *)
Enqueued(queue, r) == IF r \in Range(queue) THEN queue ELSE Append(queue, r)

LoadIgnoringTravellers == Cardinality(Physical)                  \* faulty
Load == IF mode = Legacy THEN Cardinality(Physical) ELSE Cardinality(CommittedRobots)

NewestInLine == waiting[Len(waiting)]                            \* faulty
NextInLine == Head(waiting)

MustQueue(r) == mode = Fifo /\ waiting # <<>> /\ NextInLine # r

ReserveGrants(r) ==
    \/ r \in CommittedRobots
    \/ Load < Capacity /\ ~MustQueue(r)

WaitingAfterReserve(r) ==
    IF r \in CommittedRobots THEN Without(waiting, {r})
    ELSE IF mode # Fifo THEN waiting
    ELSE IF ~ReserveGrants(r) THEN Enqueued(waiting, r)
    ELSE IF waiting = <<>> THEN waiting ELSE Tail(waiting)

CanPromote(r) ==
    /\ UsesExplicitWaiting
    /\ waiting # <<>>
    /\ NextInLine = r
    /\ Cardinality(CommittedRobots) < Capacity

-----------------------------------------------------------------------------
SlotsStartAtZero ==                                              \* faulty
    /\ step = "cascade"
    /\ todo = {}
    /\ stage = [r \in Robots |-> "away"]
    /\ slot = [c \in Cells |-> 0]
    /\ assigned = {}
    /\ waiting = <<>>
    /\ atEntry = "clear"
    /\ atExit = FALSE

EmptyStation ==
    /\ step = "cascade"
    /\ todo = {}
    /\ stage = [r \in Robots |-> "away"]
    /\ slot = [c \in Cells |-> Nobody]
    /\ assigned = {}
    /\ waiting = <<>>
    /\ atEntry = "clear"
    /\ atExit = FALSE

Init == EmptyStation /\ mode \in Modes

Place(r) == IF r \in Physical THEN CHOOSE c \in Cells : slot[c] = r ELSE Capacity

(* The robots that queue move up as the shape of the zone allows; the one   *)
(* that reaches the service cell starts delivering.                         *)
CascadeTo(place) ==
    LET queuing == {r \in Robots : stage[r] = "queuing"}
        before  == [r \in queuing |-> Place(r)]
        serving == {c \in Cells : slot[c] \notin queuing \cup {Nobody}}
        held    == serving \cup (IF \/ atEntry # "clear"
                                    \/ \E r \in Robots : stage[r] = "arrived"
                                 THEN {Capacity} ELSE {})
    IN  /\ step = "cascade"
        /\ Advances(before, place, held)
        /\ slot' = [c \in Cells |-> IF \E r \in queuing : place[r] = c
                                    THEN CHOOSE r \in queuing : place[r] = c
                                    ELSE IF c \in serving THEN slot[c] ELSE Nobody]
        /\ stage' = [r \in Robots |-> IF r \in queuing /\ place[r] = 0
                                      THEN "delivering" ELSE stage[r]]
        /\ step' = "exits"
        /\ UNCHANGED <<todo, assigned, waiting, atEntry, atExit, mode>>

Cascade == \E place \in [{r \in Robots : stage[r] = "queuing"} -> 0 .. Capacity] :
               CascadeTo(place)

ExitsOntoOccupiedCell ==                                         \* faulty
    LET out == {r \in Robots : stage[r] = "exiting"}
    IN  /\ step = "exits"
        /\ stage' = [r \in Robots |-> IF stage[r] = "exited" THEN "leaving"
                                      ELSE IF r \in out THEN "exited" ELSE stage[r]]
        /\ slot' = [c \in Cells |-> IF slot[c] \in out THEN Nobody ELSE slot[c]]
        /\ assigned' = assigned \ out
        /\ step' = "absorb"
        /\ UNCHANGED <<todo, waiting, atEntry, atExit, mode>>

ExitsWithoutFinalizing ==                                        \* faulty
    LET exitFree == ~atExit /\ \A r \in Robots : ~AtExitCell(r)
        out == IF exitFree THEN {r \in Robots : stage[r] = "exiting"} ELSE {}
    IN  /\ step = "exits"
        /\ stage' = [r \in Robots |-> IF r \in out THEN "exited" ELSE stage[r]]
        /\ slot' = [c \in Cells |-> IF slot[c] \in out THEN Nobody ELSE slot[c]]
        /\ assigned' = assigned \ out
        /\ step' = "absorb"
        /\ UNCHANGED <<todo, waiting, atEntry, atExit, mode>>

(* The robot on the exit cell completes its DELIVER; the one that finished  *)
(* service moves to the exit cell if nobody stands there, giving back its   *)
(* slot and token, and keeps blocking the service slot otherwise.           *)
ProcessExits ==
    LET exitFree == ~atExit /\ \A r \in Robots : ~AtExitCell(r)
        out == IF exitFree THEN {r \in Robots : stage[r] = "exiting"} ELSE {}
    IN  /\ step = "exits"
        /\ stage' = [r \in Robots |-> IF stage[r] = "exited" THEN "leaving"
                                      ELSE IF r \in out THEN "exited" ELSE stage[r]]
        /\ slot' = [c \in Cells |-> IF slot[c] \in out THEN Nobody ELSE slot[c]]
        /\ assigned' = assigned \ out
        /\ waiting' = Without(waiting, out)
        /\ step' = "absorb"
        /\ UNCHANGED <<todo, atEntry, atExit, mode>>

(* check_in_from_entry: outside the legacy contract a robot without a token *)
(* must win one first; a slot must be free; the robot stays on the entry    *)
(* cell until the next cascade.                                             *)
CheckIn(r, next) ==
    LET needsToken == mode # Legacy /\ r \notin CommittedRobots
        accepted   == (needsToken => ReserveGrants(r)) /\ FreeSlot
    IN  /\ stage[r] = "arrived"
        /\ stage' = IF accepted THEN [stage EXCEPT ![r] = "queuing"] ELSE stage
        /\ assigned' = IF accepted \/ (needsToken /\ ReserveGrants(r))
                       THEN assigned \cup {r} ELSE assigned
        /\ waiting' = IF needsToken THEN WaitingAfterReserve(r) ELSE waiting
        /\ step' = next

(* The two absorption passes of a tick, before planning and after moving.   *)
CheckQueueArrivals(here, next) ==
    /\ step = here
    /\ \/ \E r \in Robots : CheckIn(r, next)
       \/ /\ \A r \in Robots : stage[r] # "arrived"
          /\ step' = next
          /\ UNCHANGED <<stage, assigned, waiting>>
    /\ UNCHANGED <<todo, slot, atEntry, atExit, mode>>

AbsorbStranded == CheckQueueArrivals("absorb", "prune")
AbsorbArrivals == CheckQueueArrivals("arrive", "act")

-----------------------------------------------------------------------------
(* Planning starts by dropping waiting entries whose robot is no longer     *)
(* WAITING_ASSIGNED, then scans the robots whose DELIVER awaits a token.    *)
PruneWaiting ==
    /\ step = "prune"
    /\ waiting' = Without(waiting, {r \in Robots : stage[r] # "waiting"})
    /\ todo' = {r \in Robots : stage[r] \in {"waiting", "ready"}}
    /\ step' = "plan"
    /\ UNCHANGED <<stage, slot, assigned, atEntry, atExit, mode>>

(* The scan visits waiting robots in the order of the waiting list, then    *)
(* the others in id order. A robot already visited only ever moves to the   *)
(* tail of the list, so the order of the unvisited ones is the order at the *)
(* start of the scan, which the code sorts once.                            *)
ScanRank(r) ==
    IF stage[r] # "waiting" THEN Len(waiting) + 2
    ELSE IF r \notin Waiters THEN Len(waiting) + 1
    ELSE CHOOSE i \in DOMAIN waiting : waiting[i] = r

IsNext(r) ==
    /\ r \in todo
    /\ \A s \in todo \ {r} : \/ ScanRank(r) < ScanRank(s)
                             \/ ScanRank(r) = ScanRank(s) /\ r < s

Considered(r) ==
    /\ step = "plan"
    /\ IsNext(r)
    /\ stage[r] = "waiting" => CanPromote(r)
    /\ todo' = todo \ {r}
    /\ UNCHANGED <<step, slot, atEntry, atExit, mode>>

(* A pathless robot on the entry cell; one that is passing has a path.      *)
EntryTaken(r) == \/ \E s \in Robots \ {r} : AtEntryCell(s)
                 \/ atEntry = "parked"

ActivateSkip(r) ==
    /\ step = "plan"
    /\ IsNext(r)
    /\ stage[r] = "waiting" /\ ~CanPromote(r)
    /\ todo' = todo \ {r}
    /\ UNCHANGED <<step, stage, slot, assigned, waiting, atEntry, atExit, mode>>

ActivateRejected(r) ==
    /\ Considered(r)
    /\ ~ReserveGrants(r)
    /\ waiting' = WaitingAfterReserve(r)
    /\ stage' = IF UsesExplicitWaiting THEN [stage EXCEPT ![r] = "waiting"] ELSE stage
    /\ UNCHANGED assigned

RollbackKeepsToken(r) ==                                         \* faulty
    /\ Considered(r)
    /\ ReserveGrants(r)
    /\ LET rest == Without(WaitingAfterReserve(r), {r})
       IN  waiting' = IF UsesExplicitWaiting THEN Append(rest, r) ELSE rest
    /\ assigned' = assigned \cup {r}
    /\ stage' = IF UsesExplicitWaiting THEN [stage EXCEPT ![r] = "waiting"] ELSE stage

RollbackForgetsRequest(r) ==                                     \* faulty
    /\ Considered(r)
    /\ ReserveGrants(r)
    /\ waiting' = Without(WaitingAfterReserve(r), {r})
    /\ assigned' = assigned \ {r}
    /\ UNCHANGED stage

(* Token granted, then the entry turns out to be taken or no path is found: *)
(* the token is rolled back and an explicit waiter is requeued at the tail. *)
ActivateRolledBack(r) ==
    /\ Considered(r)
    /\ ReserveGrants(r)
    /\ LET rest == Without(WaitingAfterReserve(r), {r})
       IN  waiting' = IF UsesExplicitWaiting THEN Append(rest, r) ELSE rest
    /\ assigned' = IF r \in Physical THEN assigned \cup {r} ELSE assigned \ {r}
    /\ stage' = IF UsesExplicitWaiting THEN [stage EXCEPT ![r] = "waiting"] ELSE stage

ActivateGranted(r) ==
    /\ Considered(r)
    /\ ReserveGrants(r)
    /\ ~EntryTaken(r)
    /\ waiting' = WaitingAfterReserve(r)
    /\ assigned' = assigned \cup {r}
    /\ stage' = [stage EXCEPT ![r] = "travelling"]

PlanAndActivate ==
    \/ \E r \in Robots : \/ ActivateSkip(r)
                         \/ ActivateRejected(r)
                         \/ ActivateRolledBack(r)
                         \/ ActivateGranted(r)
    \/ /\ step = "plan" /\ todo = {}
       /\ step' = "move"
       /\ UNCHANGED <<todo, stage, slot, assigned, waiting, atEntry, atExit, mode>>

-----------------------------------------------------------------------------
(* One movement phase: at most one travelling robot enters a vacant entry   *)
(* cell, robots that are done leave the exit cell, other traffic comes and  *)
(* goes on vacant handoff cells. A parked robot needs a path before it can  *)
(* leave, so it passes through "passing".                                   *)
MoveAgents(comers, goers, entry, exit) ==
    LET entryVacant == atEntry # "parked" /\ \A r \in Robots : ~AtEntryCell(r)
        exitVacant  == {r \in Robots : AtExitCell(r)} \subseteq goers
    IN  /\ step = "move"
        /\ comers # {} => entryVacant /\ entry = "clear"
        /\ entry # "clear" => Visitors /\ \A r \in Robots : ~AtEntryCell(r)
        /\ atEntry = "parked" => entry # "clear"
        /\ exit => Visitors /\ exitVacant
        /\ stage' = [r \in Robots |-> IF r \in comers THEN "arrived"
                                      ELSE IF r \in goers THEN "away" ELSE stage[r]]
        /\ atEntry' = entry
        /\ atExit' = exit
        /\ step' = "arrive"
        /\ UNCHANGED <<todo, slot, assigned, waiting, mode>>

Comers == {c \in SUBSET {r \in Robots : stage[r] = "travelling"} : Cardinality(c) <= 1}
Goers  == SUBSET {r \in Robots : stage[r] = "leaving"}

Move == \E comers \in Comers, goers \in Goers, entry \in EntryTraffic, exit \in BOOLEAN :
            MoveAgents(comers, goers, entry, exit)

-----------------------------------------------------------------------------
(* The action phase scans the robots in id order: a pickup or a service     *)
(* countdown may run out.                                                   *)
StartActions ==
    /\ step = "act"
    /\ todo' = {r \in Robots : stage[r] \in {"away", "delivering"}}
    /\ step' = "acting"
    /\ UNCHANGED <<stage, slot, assigned, waiting, atEntry, atExit, mode>>

Acts(r) ==
    /\ step = "acting"
    /\ r \in todo /\ \A s \in todo : r <= s
    /\ todo' = todo \ {r}
    /\ UNCHANGED <<step, slot, assigned, atEntry, atExit, mode>>

PickDone(r) ==
    /\ Acts(r)
    /\ stage[r] = "away"
    /\ IF UsesExplicitWaiting
       THEN /\ stage' = [stage EXCEPT ![r] = "waiting"]
            /\ waiting' = Enqueued(waiting, r)
       ELSE /\ stage' = [stage EXCEPT ![r] = "ready"]
            /\ UNCHANGED waiting

ServiceDone(r) ==
    /\ Acts(r)
    /\ stage[r] = "delivering"
    /\ stage' = [stage EXCEPT ![r] = "exiting"]
    /\ UNCHANGED waiting

NothingDone(r) == Acts(r) /\ UNCHANGED <<stage, waiting>>

HandleActions ==
    \/ \E r \in Robots : PickDone(r) \/ ServiceDone(r) \/ NothingDone(r)
    \/ /\ step = "acting" /\ todo = {}
       /\ step' = "cascade"
       /\ UNCHANGED <<todo, stage, slot, assigned, waiting, atEntry, atExit, mode>>

-----------------------------------------------------------------------------
Next ==
    \/ Cascade
    \/ ProcessExits
    \/ AbsorbStranded
    \/ PruneWaiting
    \/ PlanAndActivate
    \/ Move
    \/ AbsorbArrivals
    \/ StartActions
    \/ HandleActions

Spec == Init /\ [][Next]_vars

Reaches(r) ==
    {r} \in Comers /\ \E goers \in Goers, exit \in BOOLEAN : MoveAgents({r}, goers, "clear", exit)

Leaves(r) ==
    \E comers \in Comers, goers \in Goers, entry \in EntryTraffic, exit \in BOOLEAN :
        r \in goers /\ MoveAgents(comers, goers, entry, exit)

VisitorsMoveOn ==
    /\ SF_vars(Move /\ atEntry' # "parked")
    /\ SF_vars(Move /\ atExit' = FALSE)

(* The tick loop runs on. Whatever is tried again and again eventually      *)
(* works: a path to the entry is found, a robot with a path gets there, a   *)
(* countdown runs out, a robot or a visitor leaves the cell it stands on. At *)
(* most one robot is served, and one stands on the exit cell, at a time, so *)
(* one condition for all robots says the same as one for each.              *)
Fairness ==
    /\ WF_vars(Next)
    /\ \A r \in Robots : SF_vars(ActivateGranted(r)) /\ SF_vars(Reaches(r))
    /\ SF_vars(\E r \in Robots : ServiceDone(r))
    /\ SF_vars(\E r \in Robots : Leaves(r))
    /\ Visitors => VisitorsMoveOn

FairSpec == Spec /\ Fairness

-----------------------------------------------------------------------------
(* The variables have their types; a slot holds at most one robot and a     *)
(* robot at most one slot.                                                  *)
TypeOK ==
    /\ step \in {"cascade", "exits", "absorb", "prune", "plan", "move",
                 "arrive", "act", "acting"}
    /\ todo \subseteq Robots
    /\ stage \in [Robots -> Stage]
    /\ slot \in [Cells -> Robots \cup {Nobody}]
    /\ assigned \subseteq Robots
    /\ waiting \in Seq(Robots)
    /\ atEntry \in EntryTraffic
    /\ atExit \in BOOLEAN
    /\ mode \in Modes

(* Under the committed contracts the robots in the slots and the admitted   *)
(* robots still on their way never outnumber the slots: what                *)
(* admission_metrics reports as invariant_holds.                            *)
CommittedWithinCapacity ==
    mode # Legacy => Cardinality(CommittedRobots) <= Capacity

(* A robot holds a token exactly from the activation of its DELIVER to its  *)
(* release to the exit cell: no rollback leaks one, no pass takes one away  *)
(* from a robot that is on its way, and none outlives the visit.            *)
TokensMatchStages ==
    assigned = {r \in Robots :
        stage[r] \in {"travelling", "arrived", "queuing", "delivering", "exiting"}}

(* The waiting list holds each WAITING_ASSIGNED robot once and nobody else: *)
(* a robot missing from it could never be promoted, and a stale entry at    *)
(* its head would block the station for good.                               *)
WaitersMatchStages ==
    /\ Waiters = {r \in Robots : stage[r] = "waiting"}
    /\ \A i, j \in DOMAIN waiting : waiting[i] = waiting[j] => i = j

(* The service slot holds the robot being served or leaving, the others     *)
(* hold queuing robots, no robot holds two slots, and each handoff cell     *)
(* carries at most one robot.                                               *)
SlotsMatchStages ==
    /\ \A c \in Cells : slot[c] # Nobody =>
           stage[slot[c]] \in (IF c = 0 THEN {"delivering", "exiting"} ELSE {"queuing"})
    /\ \A c, d \in Cells : slot[c] = slot[d] /\ slot[c] # Nobody => c = d
    /\ \A r \in Robots : stage[r] \in {"delivering", "exiting"} => slot[0] = r
    /\ \A r, s \in Robots : AtEntryCell(r) /\ AtEntryCell(s) => r = s
    /\ \A r, s \in Robots : AtExitCell(r) /\ AtExitCell(s) => r = s

(* Under the committed contracts a robot that reaches the entry always      *)
(* finds a free slot, so check-in never refuses it.                         *)
ArrivalFindsRoom ==
    mode # Legacy => \A r \in Robots : stage[r] = "arrived" => FreeSlot

(* In FIFO mode no robot wins a token while another one waits ahead of it,  *)
(* across rollbacks, requeueing and pruning.                                *)
GrantsFollowTheQueue ==
    [][mode = Fifo =>
        \A r \in Robots : r \notin CommittedRobots /\ r \in CommittedRobots' =>
            waiting # <<>> /\ Head(waiting) = r]_vars

(* In FIFO mode every robot that waits for admission is served eventually.  *)
WaiterServed ==
    mode = Fifo => \A r \in Robots : stage[r] = "waiting" ~> stage[r] = "delivering"

(* In every mode a station that robots want to reach keeps serving, however *)
(* full it is and whoever passes over its handoff cells.                    *)
StationKeepsServing ==
    (\E r \in Robots : stage[r] \in {"ready", "waiting", "arrived", "queuing"})
        ~> (\E r \in Robots : stage[r] = "delivering")

(* The committed contracts implement the abstract one; the legacy contract  *)
(* hands out no tokens, so there the abstract station stays empty.          *)
Contract == INSTANCE AdmissionContract
                WITH held <- IF mode = Legacy THEN {} ELSE CommittedRobots,
                     queue <- waiting
ContractSpec == Contract!Spec

=============================================================================
