--------------------------- MODULE MCJointPlanning ----------------------------
(***************************************************************************)
(* Three robots and three pods on rows of three cells: the pods are stored  *)
(* in the first column, the station's handoff cells are corners of the      *)
(* last one.                                                               *)
(***************************************************************************)
EXTENDS JointPlanning

CONSTANT Last    \* the rows are numbered 1 .. Last

Grid == (1 .. Last) \X (0 .. 2)

Square == [c \in Grid |-> {d \in Grid : (c[1] - d[1])^2 + (c[2] - d[2])^2 = 1}]

Shelves == [p \in Pods |-> <<p, 0>>]

(* Without PIBT any step may come, which two pods bring about already.      *)
FewerPods == [p \in Planners |-> IF p = "pibt" THEN Pods ELSE Pods \ {3}]

TopRight    == <<1, 2>>
BottomRight == <<Last, 2>>

=============================================================================
