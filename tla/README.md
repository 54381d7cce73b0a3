# A TLA+ development of the RMFS simulator

The repository simulates a Robotic Mobile Fulfillment System: robots fetch pods
(movable shelves) from storage, carry them to picking stations, and bring them
back. `src/src/` holds the simulator and the policies it runs; the rest of the
tree is experiment configuration, recorded results and documentation.

This directory holds TLA+ modules translated from that code, TLC configurations
that model-check them on small instances, and theorems that TLAPS checks for
every value of the constants. Paths below are relative to `src/src/`; `E:n` is
line n of `Engine/simulation_engine.py` and `S:n` of `WorldState/station_state.py`.

## 1. The system

Everything happens in one process and one thread. Concurrency is the
interleaving, tick by tick, of many robots, stations and orders that all read
and write the same shared state in a fixed order of phases. One tick
(`SimulationEngine._tick`, E:172-284) is:

| # | Phase | Code | What it changes | Modelled in |
|---|---|---|---|---|
| 1 | order arrival, backlog refill | E:180-204 | adds PENDING orders | `Dispatch`, `SerialDispatch` |
| 2 | assignment | E:213, `TaskAssigner` | pod lists, homes, PICK/DELIVER/RETURN chains, IN_PROGRESS orders | `Dispatch`, `SerialDispatch`, `StationFeedback` |
| 3 | station cascade | E:230, `StationQueueState.cascade` | robots in a station zone move up | `StationZone`, `StationAdmission` |
| 3b | station exits | E:233, `_process_station_exits` | slot and token released, DELIVER COMPLETED | the same |
| 3c | absorption | E:237, `_check_queue_arrivals` | robots on an entry cell check in | the same |
| 3d | stale entry paths | E:240 | paths cleared | `Movement` (paths are arbitrary) |
| 4 | planning and activation | E:244, `_plan_and_activate` | tokens granted or rolled back, waiting lists, paths | `StationAdmission`, `DynamicAdmission`, `JointPlanning` |
| 5 | movement | E:249, `_move_agents` | positions | `Movement`, `JointPlanning` |
| 5b | absorption again | E:252 | as 3c | `StationAdmission`, `DynamicAdmission` |
| 6 | conflict detection | E:255 | counters | `OneRobotPerCell`, `NoSwaps` say what it can find |
| 7 | actions | E:258, `_handle_actions` | pickups, service, drop-offs, countdowns | all |
| 7b | order completion | E:261, `_check_order_completion` | orders COMPLETED or back to PENDING | `Dispatch`, `SerialDispatch` |
| 8 | refill, metrics, callbacks, rendering | E:263-281 | mostly observers | - |

### Components

| Component | State | Operations | Interacts with |
|---|---|---|---|
| Engine | tick, policies, dispatch sequence | `run`, `_tick` and the phases above | calls everything |
| Station queue (`station_state.py`) | slots of service/queue/buffer, `_assigned_agents` (tokens), `_waiting_reservations`, admission mode, dynamic ETA tokens, streaks | `reserve`, `unreserve`, `check_in_from_entry`, `cascade`, `release_to_exit`, `enqueue`/`requeue`/`prune`/`can_promote`, `_auto_layout` | Engine phases 3-5b, agents' status |
| Orders (`order_state.py`) | status, `pod_ids`, `delivered_pod_ids` | add, `mark_pod_delivered`, `is_fully_delivered` | assigner, service, completion |
| Tasks (`task_state.py`) | status of each PICK, DELIVER, RETURN and its dependencies | create, complete, cancel, queries by agent/order/pod | assigner, Engine |
| Pods (`pod_state.py`) | `current_position`, `home_position`, `carried_by`, `sku_inventory` | queries; written by pickup, movement, service, return, planners | retriever, return planner |
| Agents, map, world | status, position, path, task queue, countdown; grid | containers | everything |
| Task assigners | (greedy, Hungarian, JSQ, rollout, world model) | `assign` = retrieve, propose contexts, rank robots, commit; a serial variant of the greedy one | orders, tasks, pods, retriever, return planner |
| Pod retriever | none | `retrieve(order)` | pods, tasks |
| Pod return planners | none (`home_position` of pods) | `plan_return(pod)` | pods, tasks |
| Order generators | random stream | `generate` | pods |
| Path planners | reservations (prioritized), priorities (PIBT) | `plan`, `plan_batch` | map, agents |
| Admission and defer controllers | per-station state machines with hysteresis | observe, filter contexts | station queue, assigner |
| Collapse/lock detection, RL environment, configuration, metrics, world model, scripts | - | offline, set-up or observers | section 7 |

### What is hard in it, and what makes it correct

* **Station admission.** A token is granted in phase 4, before the entry cell is
  checked and a path found, and may have to be rolled back; robots arrive many
  ticks later, in two absorption passes per tick with other phases in between;
  a served robot blocks its slot while the exit cell is taken. Correct means: no
  token leaks or gets lost, committed robots never outnumber the slots (or the
  hard limit, under the dynamic contracts), the waiting list holds exactly the
  waiting robots and grants follow it, who arrives finds room, the line never
  jams for good.
* **Dispatch.** A pod list is computed once and used many ticks later; several
  orders want the same pod; the chains of one order are committed over several
  ticks, or in serial mode all at once to one robot; delivery marks, task
  completions and status changes happen at different phases by different robots.
  Correct means: a pod is on one chain, an order is IN_PROGRESS only when every
  pod it lists is on its way or served and COMPLETED only when they are
  delivered, no order is left behind, pods come home, and the books say what
  happened.
* **Zone geometry.** The cascade moves several robots in one pass on a real grid.
  Correct means: slots and floor agree, no two robots share a cell, nobody
  overtakes the first in the queue.
* **Movement.** Simultaneous moves are filtered to a fixpoint (E:896-918).
  Correct means: no two robots on one cell; exchanges of cells are counted, not
  prevented, unless PIBT plans.
* **Controllers.** They see the station only in some ticks. Correct means: an
  alarm rests on what really happened, a brake is lifted.

`PROJECT.json` lists the hazards one by one, with the line where each bites and
the properties that cover it, or why none does.

## 2. The modules

| Module | What it is |
|---|---|
| `StationAdmission` | admission of carrying robots to one station, phase by phase, under the legacy contract and the two committed ones |
| `AdmissionContract` | the abstract promise of the committed contracts |
| `DynamicAdmission` | the two dynamic ETA contracts, on the phases of `StationAdmission` |
| `StationZone` | the cells of one station on the grid: layout, cascade, check-in, release |
| `QueueAdvance`, `QueueLine` | what a cascade may do to a queue; the abstract promise of a zone: a line of places |
| `Dispatch` | from an order to the pods that serve it, parallel mode |
| `SerialDispatch` | the same in serial mode: one robot works through all pods of an order |
| `OrderFulfilment` | the abstract promise of dispatching, in both modes |
| `Movement` | the robots on the floor and the engine's conflict resolver, whatever the paths |
| `JointPlanning` | that floor with PIBT deciding the steps of a tick together |
| `StationFeedback` | the closed loop of the station feedback controller and the station it watches |
| `MC*` | instances for TLC |
| `*_proofs` | theorems |

Definitions marked `\* faulty` are deliberately wrong variants of the definition
that follows them. No specification uses them: putting one in the place of the
right definition makes a property fail, which confirms that the property depends
on that piece of code.

How they fit together: `DynamicAdmission` and `StationFeedback` extend
`StationAdmission` and use its actions as they are; `SerialDispatch` extends
`Dispatch` and `JointPlanning` extends `Movement` in the same way. What one model
takes for granted another one shows: `StationAdmission` sees a zone as a line of
slots, and the cascade it uses is `Advances` of `QueueAdvance`, which `StationZone`
is shown to implement on the grid (`LineSpec`); `Dispatch` lets a robot's acts
happen at any time, which the liveness of the admission model supports for the
station part of a chain; `Movement` takes the token count and the one exit cell
from the station models.

### StationAdmission

| Model | Code |
|---|---|
| `step` | the phase `_tick` is in; the scans over robots (activation, actions) are one step per robot, in the code's order |
| `stage[r]` | `AgentStatus` refined by the DELIVER task's status and the handoff cell the robot stands on |
| `slot` | `occupied_by` of the service, queue and buffer slots, by slot priority |
| `assigned`, `waiting` | `_assigned_agents`, `_waiting_reservations` in sequence order |
| `atEntry`, `atExit` | a robot on another errand on the entry or the exit cell |
| `mode` | the admission contract, chosen before the run |
| `ReserveGrants`, `WaitingAfterReserve` | `reserve` under the three contracts |
| `Cascade`, `ProcessExits` | `cascade` (phase 3), `_process_station_exits` with `release_to_exit` |
| `AbsorbStranded`, `AbsorbArrivals` | `_check_queue_arrivals` with `check_in_from_entry` (3c, 5b) |
| `PruneWaiting`, `ActivateSkip/Rejected/RolledBack/Granted` | `_prune_station_waiting` and the DELIVER branch of `_plan_and_activate` |
| `Move` | `_move_agents`, as far as the handoff cells are concerned |
| `PickDone`, `ServiceDone` | the station side of `_handle_actions` |

Abstracted: routes outside the zone (a travelling robot reaches the entry in some
later movement phase), the length of countdowns, and what a robot does between
deliveries. `Visitors` lets robots on other errands stand on or pass over the
handoff cells. `AdmissionContract` knows only who holds capacity and who queues;
the refinement maps `held` to tokens plus slots (`CommittedRobots`) and `queue` to
`waiting`.

### DynamicAdmission

`reserve` under `dynamic_eta_overbooking_v1` and `dynamic_eta_dispatch_queue_v1`:
a robot asks with its distance as its ETA, and is admitted if the hard limit, the
windows of near and middle arrivals and the weighted mass allow it, by the health
of the station (`HealthNow`: streaks of a blocked entry or exit, drought of
releases). `eta` is `_dynamic_tokens` with times relative to the tick. Under the
dispatch-queue contract `waiting` is kept in the order of the sequence numbers the
engine stamps on new tasks; a robot that picks late is inserted at its rank. The
mean release interval is any whole number of ticks it can be clipped to and changes
at releases; in the code it is a mean and may be fractional, on which no property
depends.

### StationZone

| Model | Code |
|---|---|
| `zone` | the station's slots in the order of their priority, its entry and its exit: configured, or the result of `AutoLayout` |
| `position`, `status`, `slot` | the robots' `position` and `status`, the slots' `occupied_by` |
| `due` | whether the cascade of this tick is still to come |
| `Sites`, `Inwards`, `Run`, `FirstFree`, `AutoLayout` | `_auto_layout` (S:1453-1544) with its truncations at walls, stations and the border |
| `Queuers`, `Before`, `Foremost` | who takes part in a cascade, sorted by the priority of the cell, then by id |
| `Turn`, `Turns` | one robot's pass of the loop of `cascade`: the slot it claims, the step it takes, the rewriting of `slot` and `position`; the state after k passes |
| `Within`, `NextStep` | `_bfs_next_step`: the cells within k steps of the target, and the first neighbour that is one step nearer |
| `Arrive`, `CheckInFromEntry`, `ServiceDone`, `ReleaseToExit`, `MoveOn`, `Visit` | `check_in_from_entry`, `release_to_exit` and the traffic on the handoff cells, in any order between two cascades |

The refinement mapping to `QueueLine` gives a robot the priority of its cell, and
tells the line whether the zone is straight (`Straight`: only cells of successive
places touch). In a straight zone the line lets a robot keep its place or take the
next one; where a zone folds back, as those the configurations ship do, the search
has short cuts over cells of other places, and a move may skip places or lead back,
even from a slot to the entry (`moves_back`, section 6).

### Dispatch and SerialDispatch

| Model | Code |
|---|---|
| `step` | "decide": phases 1-2; "work": the phases in which robots act, up to 7b |
| `status`, `demand`, `list`, `delivered` | an order's `status`, `sku_demands`, `pod_ids`, `delivered_pod_ids` |
| `chain[r]` | the robot's live PICK/DELIVER/RETURN tasks and how far they are; `exit` is a DELIVER serviced and not yet COMPLETED |
| `finished` | pods whose DELIVER for the order is COMPLETED in the task ledger |
| `carrier`, `position`, `home`, `stock` | the pod's fields |
| `policy` | the task assigner and the return planner of the run |
| `taken` | history: what each service debited for the order |
| `Retrieved`, `MustRetrieve` | `DefaultPodRetriever.retrieve` and when the assigners call it |
| `Contexts`, `Batches`, `Assign` | `propose_assignment_contexts`, the choice of robots, `commit_assignments` |
| `Planned`, `PlanReturn`, `HomeAfterPlanning` | whose return is planned, and `plan_return`, which moves `home_position` |
| `PickDone`, `ServiceDone`, `ExitDone`, `ReturnDone` | `_handle_actions`, `_process_station_exits` |
| `CheckOrders` | `_check_order_completion` |
| `SerialDispatch`: `Robots`, `Fleet` | errands (a robot and a place in its task list); the robots themselves |
| `DropList`, `PassOver`, `SendWhole` | the three ways one pass of the loop of `_assign_serial` ends; `unscanned` is what the loop has still to visit |
| `Work(e)` | `Act`, for the errand whose turn it is in the robot's list (`get_next_task_for_agent`) |

Abstracted: the grid (positions are storage slots; travel, admission and
countdowns only decide when a robot's next act happens, so the acts of a tick may
be any), the robot preferred (any idle one) and, under Hungarian and JSQ, which
contexts cost or load prefers (any maximum matching); one station serves every
order. `OrderFulfilment` knows loans of pods to robots for orders, what was
served, and which orders are open or closed; a pair counts as served from its
service on, which the task ledger shows at the exit only (`ServedPairs`).

### Movement and JointPlanning

`position`, `leg` (status with the DELIVER task's status) and `load`. `Blocked` is
the fixpoint of `_move_agents` as the least set closed under its rule; `AnyTick`
gives the robots under way any steps at all, which covers paths of any age.
`JointTick` is the engine's batch path: tokens for the robots that wait
(`Activations`), the decisions of `PIBTPlanner.plan_batch` (`Decisions`), the
resolver, and the aged priorities. A call of `_pibt` is a robot, the robot that
pushes it, and the steps decided so far (`Call`). `Outcomes` are the possible
results of a call over the cells of `Wanted`: `Replies` is what comes of claiming
one of them, with the push of whoever stands on it and the rollback when that
robot cannot give way; `Stuck` is the end of a call all of whose cells are
refused. Ties between equally near cells, a random shuffle in the code, may fall
any way. `Pushed` ties the calls together: a function on the sets of robots
still free, each of which refers to smaller sets. The inside of a zone is one
place, `Inside`.

### StationFeedback

`Observe` is one `assign()` of the closed-loop assigner in a tick with contexts and
idle robots: the snapshot (`Pressed`, `Crowded`, `ReleaseDue`, ...), the streaks
(`Reading`), the state machine of `_update_one` (`Verdict`) and the filter that sends
nobody while the station is to be left alone. `Overlook` is an `assign()` that
returns before it looks. `jammed` and `late` are history: for how long the exit has
really been blocked and a release really been due, seen or not. The profiles v1 to
v3 are the active modes; their rules differ in the early brake and in what counts
as a blocked exit.

## 3. What is checked

| Run | Instance | Distinct states | Shows |
|---|---|---|---|
| `admission` | 4 robots, 3 slots, visitors, all three contracts | 431 024 | tokens, waiting list and slots match the robots' stages; the committed contracts never over-commit, an arrival finds room, grants follow the queue; `AdmissionContract` is implemented |
| `admission_live` | 3 robots, 1 slot, visitors, legacy and FIFO | 15 606 | FIFO: every waiting robot is served eventually; legacy: an over-admitted station never stops serving |
| `zone` | 3 robots; the shipped U zones and every zone `_auto_layout` makes on the edge of a 5 x 5 map | 83 504 | layout passable, slots agree with the floor, one robot per cell, nobody takes the service slot before the first in the queue, `QueueLine` implemented (in straight zones nobody skips or loses a place), who checks in is served |
| `dispatch` | 3 orders, 3 pods, 2 robots, 2 skus, 4 slots; greedy with nearest slot, Hungarian with home, JSQ with nearest slot | 247 818 | pods exclusive, orders covered, none stranded, ledger complete, pods come home, `OrderFulfilment` implemented; under greedy and JSQ an order that was given pods is completed |
| `serial` | 3 orders, 3 pods, 2 robots with lists of up to 3, both return planners | 50 704 | orders served whole or not at all; no two pods share a slot; every order is completed unless the stock it needs is gone |
| `floor` | 3 robots, 3 pods, 3 x 3 cells, 2 tokens | 154 349 | one robot per cell; PIBT passes its own audit and swaps nobody |
| `dynamic_admission` | 4 robots, 1 slot, hard limit 3, both dynamic contracts | 3 601 391 | hard limit, token ledgers, dispatch order, who may pass whom |
| `feedback` | 2 robots, 1 slot, visitors, v2 and v3 | 338 922 | alarms rest on consecutive ticks that happened; a brake with somebody inside is lifted |
| `moves_back` | 2 robots in the shipped left U | - | section 6, violated |
| `shared_slots`, `excess_items` | as `dispatch`, greedy | - | section 6, each violated |
| `brake_reversible` | as `feedback`, v1 | - | section 6, violated |

**Properties worth a remark.** `TokensMatchStages` is an equation: the token set
*is* the set of robots between activation and release, which excludes leaks by a
rollback, double releases and losses at once. `ArrivalFindsRoom` is about the
committed contracts only, since under the legacy one a refusal at the entry is
routine; it says that the code the engine carries for these refusals is never
needed. `NoOrderStranded` says that an assigner that never refreshes a list has no
pending order whose whole list it would skip for ever. `AllOrNothing` says that in
serial mode `_check_order_completion` never sets an order back to PENDING, so
`_assign_serial` never drops a list with a pod under way. `PassesOnlyTheRefused`
says exactly when a robot may pass one that waits ahead of it: after that one was
refused in the same scan, and because it arrives in a later window.
`AuditPasses` quantifies over every batch and every outcome of the ties, reachable
in the next step or not.

**Bounds.** `admission`: four robots and three slots are the least with which a
station is full, has a queue slot that is neither the first nor the entry, and
still has a robot to wait or to travel. `admission_live`: one served, two
competing for the queue's head. `zone`: three robots fill the service slot, a
queue slot and the entry, or two queue slots with a gap; maps of 5 x 5 with five
sets of walls give every edge, every corner, both buffer lengths and all the
truncations of `_auto_layout`; the explicit zones are the shapes the shipped
configurations use. 79 of the 85 zones are straight; the explicit ones all fold back.
`dispatch`: three orders compete for three pods and two robots,
so a robot is always missing; sku `a` is on two pods and `b` on one, and a demand asks
for both or for more of `a` than a pod has, so a list has two pods, one, when the
other is away or empty, or none; stock runs out within a run;
slot 4 is free and nearest, and two slots tie. The two runs that look for a violation of safety in
`Dispatch` use symmetry over its robots, which are never compared; no other run does.
`serial`: `MaxList` is the number of pods, so it cuts nothing. `floor`: 3 x 3 is the
least floor with a cell of four neighbours; with other planners than PIBT only two
pods are in demand (`InDemand`), since any step may come. `dynamic_admission`: the
windows end at 1 and 2 ticks, distances at 3, the thresholds at 1 to 3 ticks; with
the chosen weight limits the window of near arrivals decides in one contract and
the weighted mass in the other. The window of middle arrivals cannot bind with so
few robots; theorems, not runs, cover larger stations there. Visitors stay out of
this run to keep it finite in time. `feedback`: thresholds 1 to 4, the smallest with
caution, brake and lock apart; other traffic crosses the exit cell only, which is
the one the controller watches. All counters are capped where nothing reads them
any more. `CHECK_DEADLOCK` is on everywhere: the tick loop never stops.

**Fairness.** The tick loop runs on (`WF` of its steps; in `Dispatch`, where one of the
two phases always ends by the one action that ends it, `WF` of the change of `step`). `StationAdmission` further
assumes, as strong fairness because the phase in question comes round every tick
and the cell in question is free only now and then: a path to the entry is found
again and again when there is a token (`ActivateGranted`), a robot with a path gets
there (`Reaches`), a service countdown ends (`ServiceDone`), a robot that is done
leaves the exit cell (`Leaves`), and so do visitors (`VisitorsMoveOn`). What these
take for granted is the path planners' progress, which nothing in the code
guarantees: with a planner that never finds a way nobody is served. `StationZone`
needs less: robots that only pass go on, countdowns end, and a robot whose exit cell
is free again and again gets it. `Dispatch` and `SerialDispatch` assume that a robot
with a chain gets its turn again and again, and nothing of order arrival or of
which robot, order or pod is chosen. `StationFeedback` (`Draining`): robots inside are
served, the exit cell clears, and the controller looks again and again, since orders
keep coming and robots of the fleet keep getting idle; nothing is said of *when* it
looks.

**Liveness that is not claimed.** Outside the FIFO contract the planning scan runs
in agent id order and may starve high ids; under the dynamic contracts a near
robot may be passed for ever. On the floor nothing is promised: where the entry
has a single open neighbour, a robot that leaves and one that is bound for it may
face each other for ever, which the 3 x 3 floor makes permanent.

## 4. What is proved

Every safety property of every passing run - each invariant, each action property
and each of the refinements - is a theorem. All of them hold for any finite set of
robots, any capacity, any finite sets of orders and pods, any floor, map, walls,
stock, distances, weights and thresholds, under the named assumptions of the
modules:

* identifiers are naturals where they are compared, sets are finite, and the null
  values differ from what they stand in for (`Dispatch` also takes finitely many
  skus, since demands are summed over them);
* `HomesAssumption` (`SerialDispatch`) and `StorageAssumption` (`JointPlanning`): pods
  start on slots of their own. `Movement` keeps homes fixed, as `HomeReturnPlanner`
  does. With the nearest-slot planner in a parallel mode two pods may share a slot
  (`shared_slots`), and what PIBT's audit does then is not covered;
* `ExplicitAssumption` (`StationZone`): a configured zone is passable
  (`IsPassable`), which the code takes for granted. Of `_auto_layout` nothing is
  assumed but that the station is on the map (`SitesAssumption`);
* `ThresholdsAssumption`: the thresholds `StationFeedbackConfig.__post_init__` accepts.

**`StationAdmission_proofs`** has two layers. `TypeCorrect`, `AdmissionBounded`,
`NoTokenLeaks`, `WaitingListExact` (`TypeOK`, `CommittedWithinCapacity`,
`TokensMatchStages`, `WaitersMatchStages`): the inductive invariant is their
conjunction with two strengthenings. `SlotsHoldVisitors`: whoever is in a slot is
queuing, delivering or exiting; without it the slots could add robots without a
token to the committed load, and the bound would not survive a grant.
`ScanAwaitsTokens`: during the planning scan the robots still to be visited all
await a token; without it a rollback could take the token of a robot that is on its
way. On it rest `SlotsExact`, `ArrivalsFit`, `GrantsInOrder` and `ImplementsContract`
(`SlotsMatchStages`, `ArrivalFindsRoom`, `GrantsFollowTheQueue`, `ContractSpec`). The
invariant gains `SlotsMatchStages` and `StagesFitMode` (robots wait explicitly in
FIFO mode and nowhere else, without which a grant to a newcomer could not be told
from one to a waiter). `ArrivalsFit` follows by counting: a robot on the entry holds
a token and no slot, so the slots hold fewer robots than tokens were granted.

**`StationZone_proofs`**: `ZoneTypes`, `SlotsMatchTheFloor`, `OneRobotPerZoneCell`,
`LayoutsArePassable`, `FirstIsServedNext`, `ZoneImplementsLine` (`TypeOK`,
`SlotsMatchFloor`, `OneRobotPerCell`, `LayoutIsPassable`, `FirstInQueueIsNext`,
`LineSpec`), for any map and robots.

* The layout: queue and buffer are straight lines with a bend (`BendIsPassable`), the
  handoff cells lie off both. The proof corrected the property: where queue and buffer
  are both cut to a single cell, or to none, entry and exit can be the same cell.
  The map with a wall beside the corner, in `MCStationZone`, shows TLC the second case.
* The search: `NextStepIs` says of any open cells that a step goes to a neighbour that
  is open or is the target, by induction over the rings of `Within`.
* The cascade: `Tidy` is the invariant of its loop, in the middle of which slots and
  floor agree already, though claims and turns are half done. The inductive invariant of
  the module adds `ArrivalsStand` (a queuing or arrived robot without a slot stands on
  the entry) to the types, `SlotsMatchFloor` and `OneRobotPerCell`.
* The line: `Kept` says in the middle of a cascade that nobody has overtaken the
  leader, the first queuing robot with a free place ahead; it moves, in particular
  into service. The places between the leader and that free place are free too, or
  somebody there would lead, so the search finds a way. In a straight zone it also
  says that whoever has moved stands one place ahead of where he stood
  (`MoverStepsUp`): none of the rings of `Within` that do not reach the start yet holds
  a place beyond it, since a path from there to the goal leads through the start
  (`NextStepIs`), so the step is onto the next place.

**`Dispatch_proofs`**: `PodsExclusive`, `OrdersCovered`, `PodsComeHome`, `LedgerTruthful`,
`DispatchTypes`, `NoneStranded` and `ImplementsFulfilment`, for every assigner and return
planner. The invariant conjoins `PodsMatchChains`, `InProgressCovered` and types with four
strengthenings. `FinishedOnReturn`: a chain's pod is on the finished ledger exactly
from the exit on; that is why no pod is served twice for an order. `MarksBacked`: a
delivery mark has a serviced chain behind it; the retriever and the contexts go by
marks, so a false mark would close an order nobody served. `PodsGoHome`: a chain's
destination is its pod's *current* home, as `plan_return` moves the home when the
chain is made. `ListsKept`: where lists are not replaced, a chain's pod stays on its
order's list, so its service is marked; Hungarian breaks exactly this. JSQ also
moves homes of pods it does not send, so `PodsGoHome` is empty there; `PodsComeHome`
then rests on `StraysWanted`: a pod that is off its home, or is being taken to what
is no longer its home, is listed by a pending order that has neither had it nor got
it under way. It is inductive because `assign()` plans the returns of such pods only,
and leaves the order of a pod it does not send pending. The refinement: under the invariant `NewOrder` maps to `Place`, `Assign` to `Lend`,
`ServiceDone` to `Serve`, `ReturnDone` to `GiveBack`, `CheckOrders` to `Close`, and
`PickDone` and `ExitDone` to stutters.

`DispatchTypes` and `NoneStranded` rest on `RetrievedIs`, about the retriever's greedy
cover, a recursive function over the pods chosen so far: it ends, names candidates
only, each once, and leaves none that would still be useful. `NoneStranded` then
follows because a list that is renewed names pods nobody holds, and a pod leaves the
set of those to be sent only onto a chain or by its delivery.

**`SerialDispatch_proofs`**: `QueuedPodsExclusive`, `ServedWhole`, `SlotsKeptApart` and
`SerialFulfils`. What a robot does is `Act` of `Dispatch`, so that invariant is kept
and its lemmas are reused; it gains `SentWhole` (nothing has been sent for an order
that is not in progress, and one in progress lists something) and `SlotsApart` (pods
stand apart, go back to different slots, and nobody stands where another pod goes
back to). The last part is what the plans "in turn" give, and what the parallel
mode lacks (`shared_slots`).

**`Movement_proofs`**: `FloorTypes` and `RobotsStayApart`, from the lemma that the least
blocked set is itself closed, so that nobody moves onto a cell that another robot
keeps or also moves to.

**`JointPlanning_proofs`**: `AuditNeverFails`, `NobodySwaps`, `JointlyApart`,
`PlanningTypes`, `JointFloorIsMovement` and `EveryPushIsAnswered`, for any floor and any
distances. The argument about `_pibt`:

* whenever a call is made nobody has claimed the cell of a robot still free, except
  the one that pushes it (`Pushable`), and a robot never wants its pusher's cell; so
  no exchange is decided, and a robot whose cells are all refused can keep its own,
  or its pusher has claimed that and is rolled back;
* every outcome of a call, rollbacks included, keeps what was decided before legal and
  apart (`Sound`, `Settled`): `PushedKept`, by induction over the robots still free,
  then `DecisionsSettled`, by induction over those that have had their turn;
* when all have had their turn everybody has a step (`DecisionsSound`), and
  the resolver, given such steps, blocks nobody.

The inductive invariant `FloorInv` says what the planner is owed by the floor: no two
robots on a cell, no pod held twice, no robot under a pod on a slot its pod may not
enter (`ClearOfPods`), no more robots admitted than tokens. `JointFloorIsMovement`:
a jointly planned tick is a tick of `Movement` with some paths, so that module's
theorems hold of it. `EveryPushIsAnswered`: no call is without an outcome.

**`DynamicAdmission_proofs`**: `OverbookingBounded` (the `RuntimeError` `reserve` guards with is
unreachable), `PredictionsMatchTokens`, `DynamicTypes`, `OrderKept` and `PassesOnly`
(`HardLimitHolds`, `LedgersAgree`, `DynamicTypeOK`, `DispatchOrderKept`,
`PassesOnlyTheRefused`). For the last two the invariant gains `WaitersMatchStages` and
`StagesFitContract` (robots wait explicitly under the dispatch queue and nowhere
else). Two lemmas on lists without repetitions say what removing and inserting an
element do to the order of the others. `PassesOnly` rests on `LaterFits`: the
admission check is monotone, so who is let in with some ETA would be let in with a
later one or with another one of the same window.

**`StationFeedback_proofs`**: `LoopKeepsStation` (every step of the loop is a step of the
station or none, so the station's theorems hold under the controller),
`FeedbackTypes`, and `AlarmsSound` from `StreaksAreReal`: no remembered streak is longer
than what really happened.

**Recursion.** What the code computes by recursion or a loop - the cover, the breadth-first
search, the cascade, `_pibt` - is a recursive *function* here, over numbers or
finite sets, and is proved about by least counterexample: the sets or numbers for
which a statement fails have a least element, and the defining equation reduces it
to a smaller one. That the defining equation holds at all is proved in the same way
(`TurnsAre`, `WithinIs`, `PushedIs`, `RetrievedIs`).

## 5. What is only model-checked

* All liveness, since the prover does not do `ENABLED` or fairness: `WaiterServed`,
  `StationKeepsServing`, `Served`, `OrdersComplete`, `ServedUnlessSoldOut`, `BrakeLifts`.
* That `_bfs_distances` (`Distance`) gives each cell a number: it is written with operators of
  the module `TLC`, which the prover does not expand. No theorem depends on which
  numbers they are; `EveryPushIsAnswered` is about any.

## 6. Where code and documentation disagree

Each of these is shown by a run that TLC must find violated.

* `shared_slots` (`SlotsNotShared`). In parallel mode the nearest-slot planner plans
  all returns of a tick before any RETURN task exists, so two pods get the same slot
  and are put down on it, though its comment says that planned destinations are
  excluded "to avoid double-booking". The serial mode plans one pod after the other
  and does not have this (`SlotsKeptApart`).
* `excess_items` (`TakesOnlyWhatIsDemanded`). Each delivery debits every demanded sku
  in full, so an order that needs two pods to reach a quantity takes more items than
  it demands.
* `moves_back` (`NeverMovesBackward`). `cascade` says of a queuing robot that it
  "never moves backward in the queue" (S:1234-1237). It targets slots ahead only, but
  takes the first step of any shortest path there: in the shipped left U a robot on
  the last buffer slot, (10,1), is led over the entry (9,1) when the service slot
  falls free, and gives up its slot. It is served all the same (`Served`), nobody
  takes the service slot before the first in the queue, and in straight zones
  the docstring holds (`LineSpec`, `ZoneImplementsLine`).
* `brake_reversible` (`BrakeIsReversible`). Under `active_v1` only a release seen
  between two observations lifts a brake; when the last robots leave unseen, the
  brake stays on over an empty station for ever, while the module calls it
  reversible. v2 and v3 lift it (`BrakeReleases`, while somebody is inside).

Remarks without a run, on which other properties rest:

* `order_state.py:19` says of COMPLETED "all items delivered". Orders are completed
  against the pods they list, and a list may cover only part of the demand.
* Hungarian replaces the list of a pending order as soon as no listed pod is on the
  floor, even when one is on its way for that very order. Its delivery is then marked
  nowhere, though the source guide (`docs/simulator/source_guide.md:162`) says that a
  completed delivery marks the pod. `DeliveredLedgerComplete`, `NoOrderStranded` and
  `OrdersComplete` fail under this assigner; they are stated for those that keep
  lists (`KeepsLists`). What holds under all: the pod is not sent for the order
  again, since the task ledger shows the delivery (`FulfilmentSpec`).
* JSQ enumerates contexts for pods that no one commits, and each of them calls
  `plan_return`, which moves the pod's home, while `base_task_assigner.py:76` and the
  docstring of `AssignmentContext` promise no world mutation. A pod may so stand away
  from its home, where the retriever passes it over; it is not lost, since a pending
  order still lists it (`UnreservedPodIsHome`).
* E:1262-1266 says that a robot next to its goal gets a one-step path; the code only
  clears the path, and the robot plans in the next tick.
* `docs/simulator/tick_semantics.md:10` and the source guide speak of conflicts being
  detected and recorded; the resolver also prevents the shared cells among them,
  and only exchanges can occur.

Facts about zones a reader of the layouts may want: in the folded zones a robot on
the entry may enter a service cell ahead of the queue's later slots; a queued robot
may be barred by the one ahead although slots beyond are free; `_auto_layout` makes
entry and exit the same cell when both lines are cut to one cell or, in a corner, to
none; and it does not
look at the zones of neighbouring stations. With the default configuration and a
healthy station the dynamic weight limit never binds.

## 7. What is not modelled

* **World model, learned and rollout assigners** (`WorldModel/`,
  `Policies/TaskAssigner/WorldModelTaskAssigner/`, `SimulatorRolloutTaskAssigner/`): feature
  extraction, training, simulated rollouts and evaluation. This is most of the
  repository's lines. It is floating-point code whose correctness is statistical;
  what reaches the warehouse is a ranking of contexts, and `Dispatch` lets an
  assigner choose any of them. The only state machine in it that feeds back into the
  tick is the station feedback controller, which is modelled. The share of the
  implementation's lines that the modules cover is low for this reason.
* **Context-defer and pre-admission controllers**: formulas over loads and learned
  scores that filter contexts. Their shadow modes only record.
* **The retry for an unavailable pod** (E:1511 ff.) with its CANCELLED chains: never
  entered, since `PodsMatchChains` is proved in both modes, so that every robot that
  comes to pick finds its pod.
* **Nudging**: its call is commented out (E:646-649).
* **Other path planners** (A*, prioritized, external solvers): which paths
  they find is left open in `Movement`; their reservations live within one call.
* **The RL environment**: `_build_engine` sets no pod retriever (`Env/rmfs_env.py:108-140`),
  so no order ever lists a pod and `decode()` creates no chain.
* **Collapse and lock detection**: pure functions over recorded series.
* **Configuration, registry, pod initializer, entry point**: set-up before the first tick;
  what they choose is a constant here.
* **Metrics, snapshots, rendering, scripts**: observers.
* **Crashes, lost or repeated messages**: there is one process and nothing is
  persisted or sent, so there are none.

## 8. State of the plan

Modelled, checked and, as far as the prover reaches, proved: admission under all
five contracts with its abstract contract, the zone on the grid, dispatching in both
modes with its abstract promise, the floor with the resolver and PIBT, the station
feedback controller.

Left:

* the composition of admission and dispatch in one module. Today each takes from
  the other a fairness assumption; the product of their states is beyond TLC for
  instances in which both are interesting;
* the reservations of the prioritized planner, for which `Movement` now stands;
* a bound on the passing under the dynamic contracts, which the code would first have
  to give.
