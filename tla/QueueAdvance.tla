----------------------------- MODULE QueueAdvance -----------------------------
(***************************************************************************)
(* How the robots that queue at a station may move in one tick, whatever    *)
(* the shape of the station's zone. Places are the slot priorities of       *)
(* StationQueueState: 0 is the service slot, then the queue and the buffer   *)
(* slots, and last the entry cell, which is no slot.                         *)
(***************************************************************************)
EXTENDS Integers

(* The first robot that has a free slot ahead moves. The robots behind it    *)
(* may move or stay: the free slot a robot claims may lie beyond the robot   *)
(* ahead of it, which then bars its way. A move may skip places or lead back *)
(* to a later one, even from a slot to the entry: a zone that folds back on  *)
(* itself has short cuts over such cells. Nobody moves into an occupied      *)
(* place, or without a free slot ahead. "before" and "after" give the places *)
(* of the queuing robots, "held" the places of the others.                   *)
Advances(before, after, held) ==
    LET queuing == DOMAIN before
        FreeAhead(r) == \E p \in 0 .. before[r] - 1 :
                            p \notin held /\ \A s \in queuing : before[s] # p
        First(r) == FreeAhead(r) /\ \A s \in queuing : FreeAhead(s) => before[r] <= before[s]
    IN  /\ \A r \in queuing :
               /\ ~FreeAhead(r) => after[r] = before[r]
               /\ First(r) => after[r] # before[r]
               /\ after[r] # before[r] => after[r] \notin held
        /\ \A r, s \in queuing : after[r] = after[s] => r = s

=============================================================================
