-------------------------- MODULE AdmissionContract ---------------------------
(***************************************************************************)
(* What a station promises the robots that want to deliver to it under the *)
(* committed contracts (docs/simulator/station_admission.md and            *)
(* StationQueueState.reserve): a bounded number of tokens, granted in the  *)
(* order of the waiting list and given back one at a time.                 *)
(***************************************************************************)
EXTENDS Integers, Sequences, FiniteSets, Functions

CONSTANTS Robots, Capacity

VARIABLES held,    \* robots that consume station capacity
          queue    \* robots waiting for a token, first come first

Init == held = {} /\ queue = <<>>

(* A robot asks to be admitted later.                                       *)
Request(r) ==
    /\ r \notin held \cup Range(queue)
    /\ queue' = Append(queue, r)
    /\ UNCHANGED held

(* A token goes to the head of the queue, or to anyone if nobody waits.     *)
Grant(r) ==
    /\ r \notin held
    /\ Cardinality(held) < Capacity
    /\ queue # <<>> => Head(queue) = r
    /\ held' = held \cup {r}
    /\ queue' = IF queue = <<>> THEN queue ELSE Tail(queue)

(* The head could not use its token (no way to the entry) and queues again. *)
GiveBack ==
    /\ queue # <<>>
    /\ Cardinality(held) < Capacity
    /\ queue' = Append(Tail(queue), Head(queue))
    /\ UNCHANGED held

Release(r) ==
    /\ r \in held
    /\ held' = held \ {r}
    /\ UNCHANGED queue

Next == \/ \E r \in Robots : Request(r) \/ Grant(r) \/ Release(r)
        \/ GiveBack

Spec == Init /\ [][Next]_<<held, queue>>

=============================================================================
