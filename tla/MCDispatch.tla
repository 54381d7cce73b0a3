------------------------------ MODULE MCDispatch ------------------------------
(* Instances of Dispatch for TLC.                                           *)
EXTENDS Dispatch, TLC

CONSTANTS r1, r2, a, b

TwoRobots == {r1, r2}
TwoSkus   == {a, b}
Symmetry  == Permutations(TwoRobots)

Items(na, nb) == (a :> na @@ b :> nb)

MCOrders  == 1 .. 3
FewOrders == 1 .. 2
MCPods    == 1 .. 3
MCSlots   == 1 .. 4

(* Items of two skus on different pods, more than any pod has; one item.    *)
MCDemands  == {Items(1, 1), Items(3, 0)}
FewDemands == {Items(1, 0), Items(1, 1)}

GreedyHome    == {<<"greedy", "home">>}
GreedyNearest == {<<"greedy", "nearest">>}
MCPolicies    == {<<"greedy", "nearest">>, <<"hungarian", "home">>, <<"jsq", "nearest">>}

(* Sku a is on two pods, b on one.                                          *)
MCStock == (1 :> Items(2, 0) @@ 2 :> Items(0, 2) @@ 3 :> Items(2, 0))

(* Pods stand on slots 1 to 3; slot 4 is free and the nearest, 1 and 2 are  *)
(* equally far from the station.                                            *)
MCHome     == [p \in MCPods |-> p]
MCDistance == (1 :> 3 @@ 2 :> 3 @@ 3 :> 2 @@ 4 :> 1)

=============================================================================
