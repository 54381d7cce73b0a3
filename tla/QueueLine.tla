------------------------------ MODULE QueueLine ------------------------------
(***************************************************************************)
(* What the zone of a station promises, whatever its shape on the grid: a   *)
(* line of places, 0 the service slot, then the queue and the buffer slots, *)
(* then the entry cell. Robots enter at the end, advance, are served at     *)
(* place 0 and leave from there.                                            *)
(***************************************************************************)
EXTENDS QueueAdvance

CONSTANTS Robots, Gone    \* Gone: the place of a robot outside the line

VARIABLES capacity,       \* the number of slots, which is the entry's place
          straight,       \* whether only cells of successive places touch
          place           \* robot -> its place in the line

vars == <<capacity, straight, place>>

Queuing == {r \in Robots : place[r] \in 1 .. capacity}

(* Where the line is straight a robot keeps its place or takes the next one. *)
(* Only where it folds back on itself may a move skip places or lead back.  *)
StepsUp(before, after) == \A r \in DOMAIN before : after[r] \in {before[r], before[r] - 1}

Init ==
    /\ capacity \in Nat \ {0} /\ straight \in BOOLEAN
    /\ place = [r \in Robots |-> Gone]

Enter(r) ==
    /\ place[r] = Gone
    /\ \A s \in Robots : place[s] # capacity
    /\ place' = [place EXCEPT ![r] = capacity]
    /\ UNCHANGED <<capacity, straight>>

Advance ==
    /\ place' \in [Robots -> {Gone} \cup 0 .. capacity]
    /\ Advances([r \in Queuing |-> place[r]], [r \in Queuing |-> place'[r]],
                {place[r] : r \in Robots} \cap {0})
    /\ straight => StepsUp([r \in Queuing |-> place[r]], [r \in Queuing |-> place'[r]])
    /\ \A r \in Robots \ Queuing : place'[r] = place[r]
    /\ UNCHANGED <<capacity, straight>>

Serve(r) ==
    /\ place[r] = 0
    /\ place' = [place EXCEPT ![r] = Gone]
    /\ UNCHANGED <<capacity, straight>>

Next == Advance \/ \E r \in Robots : Enter(r) \/ Serve(r)

Spec == Init /\ [][Next]_vars

=============================================================================
