--------------------------- MODULE OrderFulfilment ---------------------------
(***************************************************************************)
(* What dispatching promises the orders and the warehouse                  *)
(* (docs/simulator/entities_and_lifecycle.md, lines 7-46 and 113-140,      *)
(* read against the code): pods are lent to robots on behalf of an open    *)
(* order, a pod to one robot at a time; a loan brings its pod to the       *)
(* station once, no pod is lent to an order it has already served, and an  *)
(* order closes only when something served it and all its loans are over.  *)
(***************************************************************************)
CONSTANTS Orders, Pods, Robots, Nothing

VARIABLES open,     \* orders that wait for pods
          closed,   \* orders that are done
          loan,     \* robot -> <<order, pod>> it works on, or Nothing
          served    \* the pairs <<order, pod>> for which the pod was serviced

Lent == {loan[r] : r \in Robots} \ {Nothing}

Init ==
    /\ open = {} /\ closed = {} /\ served = {}
    /\ loan = [r \in Robots |-> Nothing]

Place(o) ==
    /\ o \notin open \cup closed
    /\ open' = open \cup {o}
    /\ UNCHANGED <<closed, loan, served>>

(* A batch of new loans, to robots that have none.                          *)
Lend ==
    /\ loan' \in [Robots -> (Orders \X Pods) \cup {Nothing}]
    /\ \A r \in Robots : loan[r] # Nothing => loan'[r] = loan[r]
    /\ \A r \in Robots : loan'[r] # loan[r] =>
        /\ loan'[r][1] \in open
        /\ loan'[r] \notin served
        /\ \A q \in Robots \ {r} : loan'[q] # Nothing => loan'[q][2] # loan'[r][2]
    /\ UNCHANGED <<open, closed, served>>

Serve(r) ==
    /\ loan[r] # Nothing
    /\ loan[r] \notin served
    /\ served' = served \cup {loan[r]}
    /\ UNCHANGED <<open, closed, loan>>

GiveBack(r) ==
    /\ loan[r] # Nothing
    /\ loan[r] \in served
    /\ loan' = [loan EXCEPT ![r] = Nothing]
    /\ UNCHANGED <<open, closed, served>>

Close ==
    /\ closed \subseteq closed' /\ closed' \ closed \subseteq open
    /\ open' = open \ closed'
    /\ \A o \in closed' \ closed :
        /\ \A l \in Lent : l[1] # o
        /\ \E p \in Pods : <<o, p>> \in served
    /\ UNCHANGED <<loan, served>>

Next ==
    \/ \E o \in Orders : Place(o)
    \/ Lend
    \/ \E r \in Robots : Serve(r) \/ GiveBack(r)
    \/ Close

Spec == Init /\ [][Next]_<<open, closed, loan, served>>

=============================================================================
