-------------------------- MODULE JointPlanning_proofs -------------------------
(***************************************************************************)
(* That the joint steps PIBT decides pass its own audit, on any floor, for   *)
(* any number of robots and whatever they are asked to do, and that a floor  *)
(* planned jointly is one of the floors Movement describes.                 *)
(***************************************************************************)
EXTENDS JointPlanning, Movement_proofs, FiniteSetTheorems, WellFoundedInduction

(* A pod is fetched or carried by one robot at most.                        *)
PodsHeldOnce ==
    \A r, q \in Robots : load[r] = load[q] /\ load[r] # Nothing => r = q

(* Under PIBT nobody ever stands on a cell its own pod keeps it from.       *)
ClearOfPods ==
    planner = "pibt" => \A r \in Robots : position[r] \notin PodsInTheWay(r)

(* No more robots are admitted than the station has tokens.                 *)
TokensSuffice == Cardinality(Admitted) <= Capacity

(* The inductive invariant: what the audit needs to hold of the floor.      *)
FloorInv == PlanningTypeOK /\ OneRobotPerCell /\ PodsHeldOnce /\ ClearOfPods /\ TokensSuffice

(* The cells a robot may step to, as far as the audit looks at it alone.    *)
Legal(r, c) ==
    /\ c \in Adjacent[position[r]] \cup {position[r]}
    /\ c \in RoutingBlocked => c \in {position[r], Goal(r)}
    /\ c \notin PodsInTheWay(r)

(* A batch that may be planned: robots on the floor, apart from each other   *)
(* and from everybody else, each on a cell it may stay on.                  *)
Plannable(batch) ==
    /\ batch \subseteq Robots /\ position \in [Robots -> Cells \cup {Inside}]
    /\ \A r \in batch : position[r] \in Cells /\ position[r] \notin PodsInTheWay(r)
    /\ OneRobotPerCell

(* Decisions the audit has no objection to, complete or not.                *)
Sound(batch, d) ==
    /\ \A r \in batch \cap DOMAIN d : Legal(r, d[r])
    /\ \A r \in DOMAIN d \ batch : d[r] = position[r]
    /\ \A r, q \in DOMAIN d :
           r # q /\ d[r] = d[q] => position[r] = Inside /\ position[q] = Inside
    /\ \A r, q \in batch \cap DOMAIN d :
           d[r] = position[q] /\ d[q] = position[r] => r = q

(* Between two calls from the main loop: nobody has claimed the cell of a   *)
(* robot that is still free.                                               *)
Settled(batch, free, d) ==
    /\ free \subseteq batch /\ d \in Decided(free) /\ Sound(batch, d)
    /\ \A q \in free : position[q] \notin Range(d)

(* When r is pushed only the one who pushes it has claimed its cell.        *)
Pushable(batch, free, r, parent, d) ==
    /\ free \subseteq batch /\ d \in Decided(free) /\ Sound(batch, d)
    /\ r \in free /\ parent \subseteq Robots
    /\ \A q \in free \ {r} : position[q] \notin Range(d)
    /\ \A p \in DOMAIN d : d[p] = position[r] => p \in parent

-----------------------------------------------------------------------------
(* One more decision.                                                       *)
LEMMA OneMoreStep ==
    ASSUME NEW free \in SUBSET Robots, NEW d \in Decided(free), NEW r \in free, NEW c \in Cells
    PROVE  /\ Claimed(d, r, c) \in Decided(free \ {r})
           /\ \A y \in Range(Claimed(d, r, c)) : y \in Range(d) \/ y = c
<1> DEFINE more == Claimed(d, r, c)
<1>1. DOMAIN d = Robots \ free /\ \A q \in Robots \ free : d[q] \in Cells \cup {Inside}
  BY DEF Decided
<1>2. more = [q \in Robots \ (free \ {r}) |-> IF q = r THEN c ELSE d[q]]
  <2>1. DOMAIN d \cup {r} = Robots \ (free \ {r}) /\ r \notin DOMAIN d  BY <1>1
  <2>2. QED  BY <2>1 DEF Claimed
<1> HIDE DEF more
<1>3. more \in Decided(free \ {r})  BY <1>1, <1>2 DEF Decided
<1>4. more[r] = c /\ \A q \in Robots \ free : more[q] = d[q]  BY <1>2
<1>5. DOMAIN more = Robots \ (free \ {r})  BY <1>2
<1>6. Range(more) = Range(d) \cup {c}  BY <1>1, <1>4, <1>5 DEF Range
<1>7. QED  BY <1>3, <1>6 DEF more

(* Every cell r wants is one it may step to, and none is the cell of the     *)
(* robot that pushes it.                                                    *)
LEMMA WantedIsLegal ==
    ASSUME NEW r \in Robots, position[r] \in Cells, NEW parent, NEW c \in Wanted(r, parent)
    PROVE  c \in Cells /\ Legal(r, c) /\ \A p \in parent : c # position[p]
<1>1. \A p \in parent : c # position[p]  BY DEF Wanted
<1>2. CASE c \in Adjacent[position[r]] \ Barred(r)
  BY <1>1, <1>2, FloorAssumption DEF Barred, Legal
<1>3. CASE c = position[r] /\ c \notin PodsInTheWay(r)
  BY <1>1, <1>3 DEF Legal
<1>4. QED  BY <1>2, <1>3 DEF Wanted

(* Claiming a cell nobody has claimed is a sound decision: the robot does   *)
(* not change places with anybody, as whoever has claimed its cell pushes   *)
(* it and it does not go to where that one stands.                          *)
LEMMA ClaimIsSound ==
    ASSUME NEW batch, Plannable(batch), NEW free, NEW r, NEW parent, NEW d,
           Pushable(batch, free, r, parent, d),
           NEW c \in Cells, Legal(r, c), c \notin Range(d),
           \A p \in parent : c # position[p]
    PROVE  Sound(batch, Claimed(d, r, c))
<1>1. /\ free \in SUBSET Robots /\ free \subseteq batch /\ batch \subseteq Robots
      /\ d \in Decided(free) /\ r \in free /\ r \in Robots
  BY DEF Plannable, Pushable
<1> DEFINE more == Claimed(d, r, c)
<1>2. /\ DOMAIN d = Robots \ free /\ DOMAIN more = Robots \ (free \ {r}) /\ more[r] = c
      /\ \A q \in Robots \ free : more[q] = d[q]
  BY <1>1 DEF Claimed, Decided
<1> HIDE DEF more
<1>3. \A q \in DOMAIN d : d[q] # c  BY DEF Range
<1>4. \A q \in DOMAIN d : c = position[q] => d[q] # position[r]
  BY DEF Pushable
<1>5. Sound(batch, d)  BY DEF Pushable
<1>6. \A q \in DOMAIN more : q = r \/ q \in DOMAIN d  BY <1>2
<1>7. \A q \in batch \cap DOMAIN more : Legal(q, more[q])  BY <1>2, <1>5, <1>6 DEF Sound
<1>8. \A q \in DOMAIN more \ batch : more[q] = position[q]  BY <1>1, <1>2, <1>5, <1>6 DEF Sound
<1>9. ASSUME NEW x \in DOMAIN more, NEW y \in DOMAIN more, x # y, more[x] = more[y]
      PROVE  position[x] = Inside /\ position[y] = Inside
  <2>1. x # r /\ y # r  BY <1>2, <1>3, <1>6, <1>9
  <2>2. QED  BY <1>2, <1>5, <1>6, <1>9, <2>1 DEF Sound
<1>10. ASSUME NEW x \in batch \cap DOMAIN more, NEW y \in batch \cap DOMAIN more,
              more[x] = position[y], more[y] = position[x]
       PROVE  x = y
  <2>1. CASE x = r /\ y # r  BY <1>2, <1>4, <1>6, <1>10, <2>1
  <2>2. CASE y = r /\ x # r  BY <1>2, <1>4, <1>6, <1>10, <2>2
  <2>3. CASE x # r /\ y # r  BY <1>2, <1>5, <1>6, <1>10, <2>3 DEF Sound
  <2>4. QED  BY <2>1, <2>2, <2>3
<1>11. QED  BY <1>7, <1>8, <1>9, <1>10 DEF Sound, more

(* What a call leaves behind: unless it failed and its pusher rolls it back, *)
(* r has decided, perhaps with others, and whoever is free is as before.    *)
Kept(batch, free, r, parent, x) ==
    x.ok \/ parent = {} => \E rest \in SUBSET (free \ {r}) : Settled(batch, rest, x.steps)

(* A cell nobody stands on: r moves there.                                  *)
LEMMA MoveSettles ==
    ASSUME NEW batch, Plannable(batch), NEW free, NEW r, NEW parent, NEW d,
           Pushable(batch, free, r, parent, d),
           NEW c \in Cells, Legal(r, c), c \notin Range(d),
           \A p \in parent : c # position[p],
           \A q \in free \ {r} : position[q] # c
    PROVE  Settled(batch, free \ {r}, Claimed(d, r, c))
<1>1. free \in SUBSET Robots /\ free \subseteq batch /\ d \in Decided(free) /\ r \in free
  BY DEF Plannable, Pushable
<1> DEFINE more == Claimed(d, r, c)
<1>2. more \in Decided(free \ {r}) /\ \A y \in Range(more) : y \in Range(d) \/ y = c
  <2>1. free \in SUBSET Robots /\ d \in Decided(free) /\ r \in free /\ c \in Cells  BY <1>1
  <2> HIDE DEF more
  <2>2. more = Claimed(d, r, c)  BY DEF more
  <2>3. Claimed(d, r, c) \in Decided(free \ {r})  BY ONLY <2>1, OneMoreStep
  <2>4. \A y \in Range(Claimed(d, r, c)) : y \in Range(d) \/ y = c  BY ONLY <2>1, OneMoreStep
  <2>5. QED  BY <2>2, <2>3, <2>4
<1>3. Sound(batch, more)  BY ClaimIsSound
<1> HIDE DEF more
<1>4. \A q \in free \ {r} : position[q] \notin Range(more)  BY <1>2 DEF Pushable
<1>5. QED  BY <1>1, <1>2, <1>3, <1>4 DEF Settled, more

(* A cell somebody stands on: that robot may be pushed.                     *)
LEMMA ClaimPushes ==
    ASSUME NEW batch, Plannable(batch), NEW free, NEW r, NEW parent, NEW d,
           Pushable(batch, free, r, parent, d),
           NEW c \in Cells, Legal(r, c), c \notin Range(d),
           \A p \in parent : c # position[p],
           NEW q \in free \ {r}, position[q] = c
    PROVE  Pushable(batch, free \ {r}, q, {r}, Claimed(d, r, c))
<1>1. /\ free \in SUBSET Robots /\ free \subseteq batch /\ d \in Decided(free) /\ r \in free
      /\ batch \subseteq Robots
  BY DEF Plannable, Pushable
<1> DEFINE more == Claimed(d, r, c)
<1>2. more \in Decided(free \ {r}) /\ \A y \in Range(more) : y \in Range(d) \/ y = c
  <2>1. free \in SUBSET Robots /\ d \in Decided(free) /\ r \in free /\ c \in Cells  BY <1>1
  <2> HIDE DEF more
  <2>2. more = Claimed(d, r, c)  BY DEF more
  <2>3. Claimed(d, r, c) \in Decided(free \ {r})  BY ONLY <2>1, OneMoreStep
  <2>4. \A y \in Range(Claimed(d, r, c)) : y \in Range(d) \/ y = c  BY ONLY <2>1, OneMoreStep
  <2>5. QED  BY <2>2, <2>3, <2>4
<1>3. Sound(batch, more)  BY ClaimIsSound
<1>4. DOMAIN d = Robots \ free /\ DOMAIN more = Robots \ (free \ {r})
      /\ \A p \in Robots \ free : more[p] = d[p]
  BY <1>1 DEF Claimed, Decided
<1> HIDE DEF more
<1>5. \A p \in DOMAIN more : more[p] = position[q] => p = r
  <2>1. \A p \in DOMAIN d : d[p] # c  BY DEF Range
  <2>2. \A p \in DOMAIN more : p = r \/ p \in DOMAIN d  BY <1>4
  <2>3. QED  BY <1>4, <2>1, <2>2
<1>6. ASSUME NEW s \in (free \ {r}) \ {q} PROVE position[s] \notin Range(more)
  <2>1. position[s] # c
    <3>1. s \in Robots /\ q \in Robots /\ s # q /\ c # Inside  BY <1>1, FloorAssumption
    <3>2. QED  BY <3>1 DEF Plannable, OneRobotPerCell
  <2>2. position[s] \notin Range(d)  BY DEF Pushable
  <2>3. QED  BY <1>2, <2>1, <2>2
<1>7. QED  BY <1>1, <1>2, <1>3, <1>5, <1>6 DEF Pushable, more

(* A robot nobody pushes may always stay where it is.                       *)
LEMMA StuckSettles ==
    ASSUME NEW batch, Plannable(batch), NEW free, NEW r, NEW d,
           Pushable(batch, free, r, {}, d)
    PROVE  Settled(batch, free \ {r}, Stuck(r, d).steps)
<1> DEFINE c == position[r]
<1>1. /\ free \in SUBSET Robots /\ free \subseteq batch /\ batch \subseteq Robots
      /\ r \in free /\ d \in Decided(free)
  BY DEF Plannable, Pushable
<1>2. c \in Cells /\ Legal(r, c)  BY <1>1 DEF Plannable, Legal
<1>3. c \notin Range(d)  BY DEF Pushable, Range
<1>4. ASSUME NEW q \in free \ {r} PROVE position[q] # c
  <2>1. q \in Robots /\ r \in Robots /\ q # r /\ c # Inside  BY <1>1, <1>2, FloorAssumption
  <2>2. QED  BY <2>1 DEF Plannable, OneRobotPerCell
<1>5. Settled(batch, free \ {r}, Claimed(d, r, c))
  <2> HIDE DEF c
  <2>1. \A p \in {} : c # position[p]  OBVIOUS
  <2>2. QED  BY <1>2, <1>3, <1>4, <2>1, MoveSettles
<1>6. QED  BY <1>3, <1>5 DEF Stuck

(* One call, if the calls it makes keep what they promise.                  *)
LEMMA OutcomesKept ==
    ASSUME NEW batch, Plannable(batch), NEW free, NEW r, NEW parent, NEW d, NEW far, NEW push,
           Pushable(batch, free, r, parent, d),
           \A q \in free \ {r} : \A e : Pushable(batch, free \ {r}, q, {r}, e) =>
               \A y \in push[Call(q, {r}, e)] : Kept(batch, free \ {r}, q, {r}, y),
           NEW x \in Outcomes(r, parent, d, far, push)
    PROVE  Kept(batch, free, r, parent, x)
<1>1. /\ free \in SUBSET Robots /\ free \subseteq batch /\ batch \subseteq Robots
      /\ r \in free /\ r \in Robots /\ position[r] \in Cells /\ DOMAIN d = Robots \ free
  BY DEF Plannable, Pushable, Decided
<1>2. CASE x = Stuck(r, d)
  <2>1. ~x.ok  BY <1>2 DEF Stuck
  <2>2. CASE parent = {}
    <3>1. Settled(batch, free \ {r}, x.steps)  BY <1>2, <2>2, StuckSettles
    <3>2. QED  BY <3>1 DEF Kept
  <2>3. QED  BY <2>1, <2>2 DEF Kept
<1>3. CASE \E c \in Wanted(r, parent) : x \in Replies(r, c, d, push) /\ x.ok
  <2>1. PICK c \in Wanted(r, parent) : x \in Replies(r, c, d, push) /\ x.ok  BY <1>3
  <2>2. c \in Cells /\ Legal(r, c) /\ \A p \in parent : c # position[p]
    BY <1>1, WantedIsLegal
  <2> DEFINE claimed == Claimed(d, r, c)
             pushed  == {q \in Robots \ (DOMAIN d \cup {r}) : position[q] = c}
  <2>3. Replies(r, c, d, push) =
            IF c \in Range(d) THEN {[ok |-> FALSE, steps |-> d]}
            ELSE IF pushed = {} THEN {[ok |-> TRUE, steps |-> claimed]}
            ELSE UNION {push[Call(q, {r}, claimed)] : q \in pushed}
    BY DEF Replies
  <2>4. pushed = {q \in free \ {r} : position[q] = c}  BY <1>1
  <2> HIDE DEF claimed, pushed
  <2>5. c \notin Range(d)
    <3>1. ASSUME c \in Range(d) PROVE x = [ok |-> FALSE, steps |-> d]  BY <2>1, <2>3, <3>1
    <3>2. QED  BY <2>1, <3>1
  <2>6. CASE pushed = {}
    <3>1. x = [ok |-> TRUE, steps |-> claimed]  BY <2>1, <2>3, <2>5, <2>6
    <3>2. \A q \in free \ {r} : position[q] # c  BY <2>4, <2>6
    <3>3. Settled(batch, free \ {r}, claimed)  BY <2>2, <2>5, <3>2, MoveSettles DEF claimed
    <3>4. x.steps = claimed  BY <3>1
    <3>5. QED  BY <3>3, <3>4 DEF Kept
  <2>7. CASE pushed # {}
    <3>1. x \in UNION {push[Call(q, {r}, claimed)] : q \in pushed}
      BY <2>1, <2>3, <2>5, <2>7
    <3>2. PICK q \in pushed : x \in push[Call(q, {r}, claimed)]  BY <3>1
    <3>3. q \in free \ {r} /\ position[q] = c  BY <2>4, <3>2
    <3>4. Pushable(batch, free \ {r}, q, {r}, claimed)
      BY <2>2, <2>5, <3>3, ClaimPushes DEF claimed
    <3>5. Kept(batch, free \ {r}, q, {r}, x)  BY <3>2, <3>3, <3>4
    <3>6. PICK rest \in SUBSET ((free \ {r}) \ {q}) : Settled(batch, rest, x.steps)
      BY <2>1, <3>5 DEF Kept
    <3>7. rest \in SUBSET (free \ {r})  OBVIOUS
    <3>8. QED  BY <3>6, <3>7 DEF Kept
  <2>8. QED  BY <2>6, <2>7
<1>4. x = Stuck(r, d) \/ \E c \in Wanted(r, parent) : x \in Replies(r, c, d, push) /\ x.ok
  <2> DEFINE cells   == Wanted(r, parent)
             answers == UNION {{c} \X Replies(r, c, d, push) : c \in cells}
             refused == {a[1] : a \in {b \in answers : ~b[2].ok}}
             taken   == {b \in answers : b[2].ok
                            /\ \A c \in cells \ refused : far[r][b[1]] <= far[r][c]}
  <2>1. x \in {a[2] : a \in taken} \cup (IF refused = cells THEN {Stuck(r, d)} ELSE {})
    BY DEF Outcomes
  <2>2. CASE x \in {a[2] : a \in taken}
    <3>1. PICK a \in taken : x = a[2]  BY <2>2
    <3>2. a \in answers /\ x.ok  BY <3>1
    <3>3. PICK c \in cells : a \in {c} \X Replies(r, c, d, push)  BY <3>2
    <3>4. QED  BY <3>1, <3>2, <3>3
  <2>3. CASE x \notin {a[2] : a \in taken}
    <3> HIDE DEF taken, refused, cells
    <3>1. QED  BY <2>1, <2>3
  <2>4. QED  BY <2>2, <2>3
<1>5. QED  BY <1>2, <1>3, <1>4

-----------------------------------------------------------------------------
(* Every non-empty set of natural numbers has a least element.              *)
LEMMA LeastNatural ==
    ASSUME NEW T, T \subseteq Nat, T # {}
    PROVE  \E x \in T : \A y \in T : x <= y
<1> DEFINE R == OpToRel(<, Nat)
<1>1. IsWellFoundedOn(R, Nat)  BY NatLessThanWellFounded
<1>2. \A x, y \in Nat : x < y => <<x, y>> \in R  BY DEF OpToRel
<1> HIDE DEF R
<1>3. PICK x \in T : \A y \in T : ~ (<<y, x>> \in R)  BY <1>1, WFMin
<1>4. ASSUME NEW y \in T PROVE x <= y
  <2>1. ~ (<<y, x>> \in R)  BY <1>3
  <2>2. x \in Nat /\ y \in Nat  OBVIOUS
  <2>3. ~ (y < x)  BY <2>1, <2>2, <1>2
  <2>4. QED  BY <2>2, <2>3
<1>5. QED  BY <1>3, <1>4

(* The size of a subset, and of what is left of it without one member.      *)
LEMMA OneLess ==
    ASSUME NEW S, IsFiniteSet(S), NEW T \in SUBSET S
    PROVE  /\ Cardinality(T) \in Nat /\ Cardinality(T) <= Cardinality(S)
           /\ \A x \in T : Cardinality(T \ {x}) = Cardinality(T) - 1
           /\ T # {} => Cardinality(T) # 0
<1>1. IsFiniteSet(T) /\ Cardinality(T) <= Cardinality(S)  BY FS_Subset
<1>2. Cardinality(T) \in Nat  BY <1>1, FS_CardinalityType
<1>3. \A x \in T : Cardinality(T \ {x}) = Cardinality(T) - 1  BY <1>1, FS_RemoveElement
<1>4. T # {} => Cardinality(T) # 0  BY <1>1, FS_EmptySet
<1>5. QED  BY <1>1, <1>2, <1>3, <1>4

(* Among the subsets of a finite set, those that lack something have a       *)
(* member none of whose subsets with one element less lacks it.             *)
LEMMA LeastSubset ==
    ASSUME NEW S, IsFiniteSet(S), NEW B \in SUBSET (SUBSET S), B # {}
    PROVE  \E T \in B : \A x \in T : T \ {x} \notin B
<1> DEFINE sizes == {Cardinality(T) : T \in B}
<1>1. sizes \subseteq Nat /\ sizes # {}  BY OneLess
<1>2. PICK n \in sizes : \A m \in sizes : n <= m
  <2> HIDE DEF sizes
  <2>1. QED  BY <1>1, LeastNatural
<1>3. PICK T \in B : n = Cardinality(T)  OBVIOUS
<1>4. ASSUME NEW x \in T, T \ {x} \in B PROVE FALSE
  <2>1. Cardinality(T \ {x}) \in sizes  BY <1>4
  <2>2. Cardinality(T \ {x}) = n - 1 /\ n \in Nat  BY <1>3, OneLess
  <2>3. n <= n - 1  BY <1>2, <2>1, <2>2
  <2>4. QED  BY <2>2, <2>3
<1>5. QED  BY <1>4

-----------------------------------------------------------------------------
(* The calls of _pibt end: the results of the calls are well defined, by     *)
(* the robots that are free.                                                *)
LEMMA PushedIs ==
    ASSUME NEW batch, IsFiniteSet(batch), NEW far, NEW rest \in SUBSET batch,
           NEW r \in rest, NEW parent \in SUBSET Robots, NEW d \in Decided(rest)
    PROVE  Pushed(batch, far)[rest][Call(r, parent, d)] =
               Outcomes(r, parent, d, far, Pushed(batch, far)[rest \ {r}])
<1> DEFINE Level(g, free) ==
               [call \in Calls(free) |->
                   Outcomes(call.robot, call.parent, call.decided, far, g[free \ {call.robot}])]
           Small(m) == {free \in SUBSET batch : Cardinality(free) <= m}
           Exists(m) == \E g : g = [free \in Small(m) |-> Level(g, free)]
           Bad == {m \in Nat : ~Exists(m)}
           N == Cardinality(batch)
<1>1. \A free \in SUBSET batch : /\ Cardinality(free) \in Nat /\ Cardinality(free) <= N
                                 /\ \A x \in free : Cardinality(free \ {x}) = Cardinality(free) - 1
  BY OneLess
<1>2. \A free : \A call \in Calls(free) : call.robot \in free  BY DEF Calls
<1>3. N \in Nat  BY <1>1
<1> HIDE DEF N
<1>4. ASSUME NEW m \in Nat, NEW g, NEW h, NEW free \in Small(m),
             \A f \in Small(m) : Cardinality(f) + 1 <= m => g[f] = h[f]
      PROVE  Level(g, free) = Level(h, free)
  <2>1. ASSUME NEW call \in Calls(free)
        PROVE  g[free \ {call.robot}] = h[free \ {call.robot}]
    <3> DEFINE f == free \ {call.robot}
    <3>1. f \in SUBSET batch /\ Cardinality(f) = Cardinality(free) - 1
          /\ Cardinality(free) \in Nat /\ Cardinality(f) \in Nat
      BY <1>1, <1>2
    <3>2. Cardinality(free) <= m  OBVIOUS
    <3> HIDE DEF f
    <3>3. Cardinality(f) <= m /\ Cardinality(f) + 1 <= m  BY <3>1, <3>2
    <3>4. f \in Small(m)  BY <3>1, <3>3
    <3>5. g[f] = h[f]  BY <1>4, <3>3, <3>4
    <3>6. QED  BY <3>5 DEF f
  <2>2. QED  BY <2>1
<1>5. Exists(0)
  <2> DEFINE g == [free \in Small(0) |-> Level(<<>>, free)]
  <2>1. ASSUME NEW free \in Small(0) PROVE Level(<<>>, free) = Level(g, free)
    <3>1. \A f \in Small(0) : ~(Cardinality(f) + 1 <= 0)  BY <1>1
    <3> HIDE DEF Level, Small, g
    <3>2. QED  BY <1>4, <3>1
  <2>2. g = [free \in Small(0) |-> Level(g, free)]  BY <2>1
  <2>3. QED  BY <2>2
<1>6. ASSUME NEW m \in Nat, Exists(m) PROVE Exists(m + 1)
  <2>1. PICK g : g = [free \in Small(m) |-> Level(g, free)]  BY <1>6
  <2> DEFINE h == [free \in Small(m + 1) |-> Level(g, free)]
  <2>2. ASSUME NEW f \in Small(m + 1), Cardinality(f) + 1 <= m + 1 PROVE g[f] = h[f]
    <3>1. Cardinality(f) \in Nat  BY <1>1
    <3>2. f \in Small(m)  BY <2>2, <3>1
    <3>3. g[f] = Level(g, f) /\ h[f] = Level(g, f)
      <4> HIDE DEF Level, Small
      <4>1. QED  BY <2>1, <2>2, <3>2
    <3>4. QED  BY <3>3
  <2>3. ASSUME NEW free \in Small(m + 1) PROVE Level(g, free) = Level(h, free)
    <3> HIDE DEF Level, Small, h
    <3>1. QED  BY <1>4, <2>2
  <2>4. h = [free \in Small(m + 1) |-> Level(h, free)]  BY <2>3
  <2>5. QED  BY <2>4
<1>7. Bad = {}
  <2> SUFFICES ASSUME Bad # {} PROVE FALSE
    OBVIOUS
  <2> HIDE DEF Exists
  <2>1. PICK m \in Bad : \A k \in Bad : m <= k  BY LeastNatural
  <2>2. m \in Nat /\ ~Exists(m) /\ m # 0  BY <1>5
  <2>3. m - 1 \in Nat /\ m - 1 + 1 = m /\ ~(m <= m - 1)  BY <2>2
  <2>4. Exists(m - 1)  BY <2>1, <2>3
  <2>5. QED  BY <1>6, <2>2, <2>3, <2>4
<1>8. \E g : g = [free \in SUBSET batch |-> Level(g, free)]
  <2>1. Small(N) = SUBSET batch  BY <1>1
  <2>2. Exists(N)  BY <1>3, <1>7
  <2>3. QED  BY <2>1, <2>2
<1> DEFINE push == CHOOSE g : g = [free \in SUBSET batch |-> Level(g, free)]
<1>9. push = [free \in SUBSET batch |-> Level(push, free)]  BY <1>8
<1>10. Pushed(batch, far) = push  BY DEF Pushed
<1> HIDE DEF push
<1>11. \A free \in SUBSET batch : push[free] = Level(push, free)
  <2> HIDE DEF Level
  <2>1. QED  BY <1>9
<1> DEFINE call == Call(r, parent, d)
<1>12. call \in Calls(rest)  BY DEF Call, Calls
<1>13. call.robot = r /\ call.parent = parent /\ call.decided = d  BY DEF Call
<1> HIDE DEF call
<1>14. push[rest][call] = Outcomes(call.robot, call.parent, call.decided, far,
                                   push[rest \ {call.robot}])
  BY <1>11, <1>12
<1>15. QED  BY <1>10, <1>13, <1>14 DEF call

(* Whatever a call of _pibt decides, it keeps what it promises.             *)
LEMMA PushedKept ==
    ASSUME NEW batch, IsFiniteSet(batch), Plannable(batch), NEW far,
           NEW free, NEW r, NEW parent, NEW d, Pushable(batch, free, r, parent, d),
           NEW x \in Pushed(batch, far)[free][Call(r, parent, d)]
    PROVE  Kept(batch, free, r, parent, x)
<1> DEFINE push == Pushed(batch, far)
           Faulty(f, q, p, e, y) == /\ Pushable(batch, f, q, p, e)
                                    /\ y \in push[f][Call(q, p, e)]
                                    /\ ~Kept(batch, f, q, p, y)
           B == {f \in SUBSET batch : \E q, p, e, y : Faulty(f, q, p, e, y)}
<1>1. ASSUME NEW f \in SUBSET batch, NEW q, NEW p, NEW e, Pushable(batch, f, q, p, e)
      PROVE  push[f][Call(q, p, e)] = Outcomes(q, p, e, far, push[f \ {q}])
  <2>1. q \in f /\ p \in SUBSET Robots /\ e \in Decided(f)  BY <1>1 DEF Pushable
  <2>2. QED  BY <2>1, PushedIs
<1> HIDE DEF push
<1>3. B = {}
  <2> SUFFICES ASSUME B # {} PROVE FALSE
    OBVIOUS
  <2> HIDE DEF Faulty
  <2>1. PICK f \in B : \A q \in f : f \ {q} \notin B
    <3>1. B \in SUBSET (SUBSET batch)  OBVIOUS
    <3> HIDE DEF B
    <3>2. QED  BY <3>1, LeastSubset
  <2>2. PICK q, p, e, y : Faulty(f, q, p, e, y)  BY <2>1
  <2> USE DEF Faulty
  <2>3. f \in SUBSET batch /\ Pushable(batch, f, q, p, e) /\ q \in f  BY <2>1, <2>2 DEF Pushable
  <2>4. y \in Outcomes(q, p, e, far, push[f \ {q}])  BY <1>1, <2>2, <2>3
  <2>5. ASSUME NEW s \in f \ {q}, NEW c, Pushable(batch, f \ {q}, s, {q}, c),
               NEW z \in push[f \ {q}][Call(s, {q}, c)]
        PROVE  Kept(batch, f \ {q}, s, {q}, z)
    <3>1. f \ {q} \in SUBSET batch /\ f \ {q} \notin B  BY <2>1, <2>3
    <3>2. QED  BY <2>5, <3>1
  <2> HIDE DEF Faulty, B
  <2>6. Kept(batch, f, q, p, y)
    <3>1. \A s \in f \ {q} : \A c : Pushable(batch, f \ {q}, s, {q}, c) =>
              \A z \in push[f \ {q}][Call(s, {q}, c)] : Kept(batch, f \ {q}, s, {q}, z)
      BY <2>5
    <3>2. QED  BY <2>3, <2>4, <3>1, OutcomesKept
  <2>7. QED  BY <2>2, <2>6 DEF Faulty
<1>4. free \in SUBSET batch  BY DEF Pushable
<1>5. QED  BY <1>3, <1>4 DEF push

-----------------------------------------------------------------------------
(* Some robot's turn comes last.                                            *)
LEMMA LastIsOne ==
    ASSUME NEW done \in SUBSET Robots, done # {},
           \A r \in Robots : priority[r] \in Int /\ priority[r] >= -1
    PROVE  LastOf(done) \in done
<1> DEFINE rank(r) == priority[r] + 1
           ranks == {rank(r) : r \in done}
<1>1. \A r \in done : r \in Nat /\ rank(r) \in Nat  BY PriorityAssumption
<1>2. ranks \subseteq Nat /\ ranks # {}  BY <1>1
<1>3. PICK low \in ranks : \A x \in ranks : low <= x
  <2> HIDE DEF ranks
  <2>1. QED  BY <1>2, LeastNatural
<1> DEFINE lows == {r \in done : rank(r) = low}
<1>4. lows \subseteq Nat /\ lows # {}  BY <1>1
<1>5. PICK r \in lows : \A q \in lows : r <= q
  <2> HIDE DEF lows
  <2>1. QED  BY <1>4, LeastNatural
<1>6. ASSUME NEW q \in done \ {r} PROVE Ahead(q, r)
  <2>1. /\ q \in Nat /\ r \in Nat /\ q # r /\ priority[q] \in Int /\ priority[r] \in Int
        /\ rank(r) = low
    BY <1>1
  <2>2. low <= rank(q)  BY <1>3
  <2>3. CASE priority[q] = priority[r]
    <3>1. q \in lows  BY <2>1, <2>3
    <3>2. r <= q  BY <1>5, <3>1
    <3>3. QED  BY <2>1, <2>3, <3>2 DEF Ahead
  <2>4. CASE priority[q] # priority[r]  BY <2>1, <2>2, <2>4 DEF Ahead
  <2>5. QED  BY <2>3, <2>4
<1>7. QED  BY <1>6 DEF LastOf

(* The first decisions: the robots outside the batch stay where they are.   *)
LEMMA PinnedSettled ==
    ASSUME NEW batch, Plannable(batch)
    PROVE  Settled(batch, batch, [r \in Robots \ batch |-> position[r]])
<1> DEFINE d == [r \in Robots \ batch |-> position[r]]
<1>1. batch \subseteq Robots /\ position \in [Robots -> Cells \cup {Inside}]  BY DEF Plannable
<1>2. d \in Decided(batch) /\ DOMAIN d = Robots \ batch
      /\ \A r \in Robots \ batch : d[r] = position[r]
  BY <1>1 DEF Decided
<1> HIDE DEF d
<1>3. ASSUME NEW x \in DOMAIN d, NEW y \in DOMAIN d, x # y, d[x] = d[y]
      PROVE  position[x] = Inside /\ position[y] = Inside
  <2>1. x \in Robots /\ y \in Robots /\ position[x] = position[y]  BY <1>2, <1>3
  <2>2. QED  BY <1>3, <2>1 DEF Plannable, OneRobotPerCell
<1>4. batch \cap DOMAIN d = {}  BY <1>2
<1>5. Sound(batch, d)  BY <1>2, <1>3, <1>4 DEF Sound
<1>6. ASSUME NEW q \in batch PROVE position[q] \notin Range(d)
  <2>1. q \in Robots /\ position[q] # Inside  BY <1>1, FloorAssumption DEF Plannable
  <2>2. ASSUME NEW x \in Robots \ batch PROVE d[x] # position[q]
    <3>1. x \in Robots /\ x # q  OBVIOUS
    <3>2. QED  BY <1>2, <2>1, <3>1 DEF Plannable, OneRobotPerCell
  <2>3. QED  BY <1>2, <2>2 DEF Range
<1>7. QED  BY <1>2, <1>5, <1>6 DEF Settled, d

(* A turn settles the robot whose turn it is.                               *)
LEMMA TurnSettles ==
    ASSUME NEW batch, IsFiniteSet(batch), Plannable(batch), NEW far,
           NEW free, NEW d, Settled(batch, free, d), NEW r \in batch,
           NEW e \in Turn(r, d, Pushed(batch, far))
    PROVE  \E rest \in SUBSET (free \ {r}) : Settled(batch, rest, e)
<1>1. /\ free \subseteq batch /\ batch \subseteq Robots /\ DOMAIN d = Robots \ free
      /\ Robots \ DOMAIN d = free
  BY DEF Plannable, Settled, Decided
<1>2. CASE r \in DOMAIN d
  <2>1. e = d /\ free \in SUBSET (free \ {r})  BY <1>1, <1>2 DEF Turn
  <2>2. QED  BY <2>1
<1>3. CASE r \notin DOMAIN d
  <2>1. r \in free  BY <1>1, <1>3
  <2>2. Pushable(batch, free, r, {}, d)
    <3>1. ASSUME NEW p \in DOMAIN d, d[p] = position[r] PROVE FALSE
      BY <2>1, <3>1 DEF Settled, Range
    <3>2. QED  BY <2>1, <3>1 DEF Settled, Pushable
  <2>3. e \in {x.steps : x \in Pushed(batch, far)[Robots \ DOMAIN d][Call(r, {}, d)]}
    BY <1>3 DEF Turn
  <2>4. PICK x \in Pushed(batch, far)[Robots \ DOMAIN d][Call(r, {}, d)] : e = x.steps
    BY <2>3
  <2>5. x \in Pushed(batch, far)[free][Call(r, {}, d)]  BY <1>1
  <2>6. Kept(batch, free, r, {}, x)  BY <2>2, <2>5, PushedKept
  <2>7. QED  BY <2>4, <2>6 DEF Kept
<1>4. QED  BY <1>2, <1>3

(* The turns of a batch, all taken: everybody has decided, soundly.         *)
LEMMA DecisionsSettled ==
    ASSUME NEW batch, IsFiniteSet(batch), Plannable(batch),
           \A r \in Robots : priority[r] \in Int /\ priority[r] >= -1,
           NEW e \in Decisions(batch)
    PROVE  e \in Decided({}) /\ Sound(batch, e)
<1> DEFINE far == Distances(batch)
           push == Pushed(batch, far)
           pinned == [r \in Robots \ batch |-> position[r]]
           Level(g, done) == IF done = {} THEN {pinned}
                             ELSE UNION {Turn(LastOf(done), d, push) : d \in g[done \ {LastOf(done)}]}
           Small(m) == {done \in SUBSET batch : Cardinality(done) <= m}
           Exists(m) == \E g : g = [done \in Small(m) |-> Level(g, done)]
           Bad == {m \in Nat : ~Exists(m)}
           N == Cardinality(batch)
<1>1. \A done \in SUBSET batch : /\ Cardinality(done) \in Nat /\ Cardinality(done) <= N
                                 /\ \A x \in done : Cardinality(done \ {x}) = Cardinality(done) - 1
                                 /\ done # {} => Cardinality(done) # 0
  BY OneLess
<1>2. \A done \in SUBSET batch : done # {} => LastOf(done) \in done
  BY LastIsOne DEF Plannable
<1>3. N \in Nat  BY <1>1
<1> HIDE DEF N, far, push, pinned
<1>4. ASSUME NEW m \in Nat, NEW g, NEW h, NEW done \in Small(m),
             \A f \in Small(m) : Cardinality(f) + 1 <= m => g[f] = h[f]
      PROVE  Level(g, done) = Level(h, done)
  <2>1. ASSUME done # {}
        PROVE  g[done \ {LastOf(done)}] = h[done \ {LastOf(done)}]
    <3> DEFINE f == done \ {LastOf(done)}
    <3>1. f \in SUBSET batch /\ Cardinality(f) = Cardinality(done) - 1
          /\ Cardinality(done) \in Nat /\ Cardinality(f) \in Nat
      BY <1>1, <1>2, <2>1
    <3>2. Cardinality(done) <= m  OBVIOUS
    <3> HIDE DEF f
    <3>3. Cardinality(f) <= m /\ Cardinality(f) + 1 <= m  BY <3>1, <3>2
    <3>4. f \in Small(m)  BY <3>1, <3>3
    <3>5. g[f] = h[f]  BY <1>4, <3>3, <3>4
    <3>6. QED  BY <3>5 DEF f
  <2>2. QED  BY <2>1
<1>5. Exists(0)
  <2> DEFINE g == [done \in Small(0) |-> Level(<<>>, done)]
  <2>1. ASSUME NEW done \in Small(0) PROVE Level(<<>>, done) = Level(g, done)
    <3>1. \A f \in Small(0) : ~(Cardinality(f) + 1 <= 0)  BY <1>1
    <3> HIDE DEF Level, Small, g
    <3>2. QED  BY <1>4, <3>1
  <2>2. g = [done \in Small(0) |-> Level(g, done)]  BY <2>1
  <2>3. QED  BY <2>2
<1>6. ASSUME NEW m \in Nat, Exists(m) PROVE Exists(m + 1)
  <2>1. PICK g : g = [done \in Small(m) |-> Level(g, done)]  BY <1>6
  <2> DEFINE h == [done \in Small(m + 1) |-> Level(g, done)]
  <2>2. ASSUME NEW f \in Small(m + 1), Cardinality(f) + 1 <= m + 1 PROVE g[f] = h[f]
    <3>1. Cardinality(f) \in Nat  BY <1>1
    <3>2. f \in Small(m)  BY <2>2, <3>1
    <3>3. g[f] = Level(g, f) /\ h[f] = Level(g, f)
      <4> HIDE DEF Level, Small
      <4>1. QED  BY <2>1, <2>2, <3>2
    <3>4. QED  BY <3>3
  <2>3. ASSUME NEW done \in Small(m + 1) PROVE Level(g, done) = Level(h, done)
    <3> HIDE DEF Level, Small, h
    <3>1. QED  BY <1>4, <2>2
  <2>4. h = [done \in Small(m + 1) |-> Level(h, done)]  BY <2>3
  <2>5. QED  BY <2>4
<1>7. Bad = {}
  <2> SUFFICES ASSUME Bad # {} PROVE FALSE
    OBVIOUS
  <2> HIDE DEF Exists
  <2>1. PICK m \in Bad : \A k \in Bad : m <= k  BY LeastNatural
  <2>2. m \in Nat /\ ~Exists(m) /\ m # 0  BY <1>5
  <2>3. m - 1 \in Nat /\ m - 1 + 1 = m /\ ~(m <= m - 1)  BY <2>2
  <2>4. Exists(m - 1)  BY <2>1, <2>3
  <2>5. QED  BY <1>6, <2>2, <2>3, <2>4
<1>8. \E g : g = [done \in SUBSET batch |-> Level(g, done)]
  <2>1. Small(N) = SUBSET batch  BY <1>1
  <2>2. Exists(N)  BY <1>3, <1>7
  <2>3. QED  BY <2>1, <2>2
<1> DEFINE decide == CHOOSE g : g = [done \in SUBSET batch |-> Level(g, done)]
<1>9. decide = [done \in SUBSET batch |-> Level(decide, done)]  BY <1>8
<1>10. PICK d \in decide[batch] :
           e = [r \in DOMAIN d \cup {q \in batch : position[q] \notin Range(d)} |->
                    IF r \in DOMAIN d THEN d[r] ELSE position[r]]
  BY DEF Decisions, far, push, pinned
<1> HIDE DEF decide
<1>11. \A done \in SUBSET batch : decide[done] = Level(decide, done)
  <2> HIDE DEF Level
  <2>1. QED  BY <1>9
<1> DEFINE Holds(done) == \A x \in decide[done] :
                              \E free \in SUBSET (batch \ done) : Settled(batch, free, x)
           B == {done \in SUBSET batch : ~Holds(done)}
<1>12. B = {}
  <2> SUFFICES ASSUME B # {} PROVE FALSE
    OBVIOUS
  <2> HIDE DEF Holds, Level
  <2>1. PICK done \in B : \A q \in done : done \ {q} \notin B
    <3>1. B \in SUBSET (SUBSET batch)  OBVIOUS
    <3> HIDE DEF B
    <3>2. QED  BY <3>1, LeastSubset
  <2>2. done \in SUBSET batch /\ ~Holds(done) /\ decide[done] = Level(decide, done)
    BY <1>11, <2>1
  <2>3. CASE done = {}
    <3>1. \A x \in decide[done] : x = pinned  BY <2>2, <2>3 DEF Level
    <3>2. Settled(batch, batch, pinned)  BY PinnedSettled DEF pinned
    <3>3. QED  BY <2>2, <2>3, <3>1, <3>2 DEF Holds
  <2>4. CASE done # {}
    <3> DEFINE last == LastOf(done)
    <3>1. last \in done /\ last \in batch /\ done \ {last} \in SUBSET batch
      BY <1>2, <2>2, <2>4
    <3>2. Holds(done \ {last})  BY <2>1, <3>1
    <3> HIDE DEF last, B
    <3>3. ASSUME NEW x \in decide[done]
          PROVE  \E free \in SUBSET (batch \ done) : Settled(batch, free, x)
      <4>1. PICK y \in decide[done \ {last}] : x \in Turn(last, y, push)
        BY <2>2, <2>4 DEF Level, last
      <4>2. PICK free \in SUBSET (batch \ (done \ {last})) : Settled(batch, free, y)
        BY <3>2, <4>1 DEF Holds
      <4>3. PICK rest \in SUBSET (free \ {last}) : Settled(batch, rest, x)
        BY <3>1, <4>1, <4>2, TurnSettles DEF push
      <4>4. rest \in SUBSET (batch \ done)  OBVIOUS
      <4>5. QED  BY <4>3, <4>4
    <3>4. QED  BY <2>2, <3>3 DEF Holds
  <2>5. QED  BY <2>3, <2>4
<1>13. PICK free \in SUBSET (batch \ batch) : Settled(batch, free, d)  BY <1>10, <1>12
<1>14. Settled(batch, {}, d)
  <2>1. free = {}  OBVIOUS
  <2>2. QED  BY <1>13, <2>1
<1>15. d \in Decided({}) /\ Sound(batch, d) /\ DOMAIN d = Robots  BY <1>14 DEF Settled, Decided
<1>16. e = d
  <2>1. batch \subseteq Robots  BY DEF Plannable
  <2>2. e = [r \in DOMAIN d |-> d[r]]
    <3>1. DOMAIN d \cup {q \in batch : position[q] \notin Range(d)} = DOMAIN d
      BY <1>15, <2>1
    <3>2. QED  BY <1>10, <3>1
  <2>3. d = [r \in DOMAIN d |-> d[r]]  BY <1>15 DEF Decided
  <2>4. QED  BY <2>2, <2>3
<1>17. QED  BY <1>15, <1>16

-----------------------------------------------------------------------------
(* A call that is answered by the calls it makes has an outcome itself: the  *)
(* nearest of the cells that are not refused, or the failure.               *)
LEMMA OutcomeExists ==
    ASSUME NEW batch, Plannable(batch), NEW free, NEW r, NEW parent, NEW d, NEW far, NEW push,
           Pushable(batch, free, r, parent, d),
           \A c \in Cells : far[r][c] \in Nat,
           \A q \in free \ {r} : \A e :
               Pushable(batch, free \ {r}, q, {r}, e) => push[Call(q, {r}, e)] # {}
    PROVE  Outcomes(r, parent, d, far, push) # {}
<1> DEFINE cells   == Wanted(r, parent)
           answers == UNION {{c} \X Replies(r, c, d, push) : c \in cells}
           refused == {a[1] : a \in {b \in answers : ~b[2].ok}}
           taken   == {b \in answers : b[2].ok
                          /\ \A c \in cells \ refused : far[r][b[1]] <= far[r][c]}
<1>1. Outcomes(r, parent, d, far, push) =
          {a[2] : a \in taken} \cup (IF refused = cells THEN {Stuck(r, d)} ELSE {})
  BY DEF Outcomes
<1>2. /\ batch \subseteq Robots /\ free \subseteq batch /\ r \in Robots /\ position[r] \in Cells
      /\ DOMAIN d = Robots \ free
  BY DEF Plannable, Pushable, Decided
<1>3. \A c \in cells : c \in Cells /\ Legal(r, c) /\ \A p \in parent : c # position[p]
  BY <1>2, WantedIsLegal
<1>4. ASSUME NEW c \in cells PROVE Replies(r, c, d, push) # {}
  <2> DEFINE claimed == Claimed(d, r, c)
             pushed  == {q \in Robots \ (DOMAIN d \cup {r}) : position[q] = c}
  <2>1. Replies(r, c, d, push) =
            IF c \in Range(d) THEN {[ok |-> FALSE, steps |-> d]}
            ELSE IF pushed = {} THEN {[ok |-> TRUE, steps |-> claimed]}
            ELSE UNION {push[Call(q, {r}, claimed)] : q \in pushed}
    BY DEF Replies
  <2> HIDE DEF claimed
  <2>2. CASE c \notin Range(d) /\ pushed # {}
    <3>1. PICK q \in pushed : TRUE  BY <2>2
    <3>2. q \in free \ {r} /\ position[q] = c  BY <1>2, <3>1
    <3>3. Pushable(batch, free \ {r}, q, {r}, claimed)
      BY <1>3, <2>2, <3>2, ClaimPushes DEF claimed
    <3>4. push[Call(q, {r}, claimed)] # {}  BY <3>2, <3>3
    <3> HIDE DEF pushed
    <3>5. QED  BY <2>1, <2>2, <3>1, <3>4
  <2> HIDE DEF pushed
  <2>3. QED  BY <2>1, <2>2
<1>5. CASE refused = cells  BY <1>1, <1>5
<1>6. CASE refused # cells
  <2>1. refused \subseteq cells  OBVIOUS
  <2> DEFINE open == cells \ refused
             lengths == {far[r][c] : c \in open}
  <2>2. open # {} /\ \A c \in open : c \in Cells  BY <1>3, <1>6, <2>1
  <2>3. lengths \subseteq Nat /\ lengths # {}  BY <2>2
  <2>4. PICK least \in lengths : \A l \in lengths : least <= l
    <3> HIDE DEF lengths
    <3>1. QED  BY <2>3, LeastNatural
  <2>5. PICK c \in open : least = far[r][c]  OBVIOUS
  <2>6. \A b \in open : far[r][c] <= far[r][b]  BY <2>4, <2>5
  <2>7. PICK y \in Replies(r, c, d, push) : TRUE  BY <1>4
  <2> DEFINE a == <<c, y>>
  <2>8. a \in answers /\ a[1] = c /\ a[2] = y  BY <2>7
  <2>9. a[2].ok  BY <2>5, <2>8
  <2>10. a \in taken  BY <2>6, <2>8, <2>9
  <2> HIDE DEF taken, a
  <2>11. QED  BY <1>1, <2>10
<1>7. QED  BY <1>5, <1>6

(* Every call of _pibt returns: whatever the distances, however many robots *)
(* push each other, and whoever has decided before, it has an outcome.      *)
THEOREM EveryPushIsAnswered ==
    ASSUME NEW batch, IsFiniteSet(batch), Plannable(batch),
           NEW far, \A r \in batch : \A c \in Cells : far[r][c] \in Nat,
           NEW free, NEW s, NEW parent, NEW d, Pushable(batch, free, s, parent, d)
    PROVE  Pushed(batch, far)[free][Call(s, parent, d)] # {}
<1> DEFINE push == Pushed(batch, far)
           Mute(f, q, p, e) == Pushable(batch, f, q, p, e) /\ push[f][Call(q, p, e)] = {}
           B == {f \in SUBSET batch : \E q, p, e : Mute(f, q, p, e)}
<1>1. ASSUME NEW f \in SUBSET batch, NEW q, NEW p, NEW e, Pushable(batch, f, q, p, e)
      PROVE  push[f][Call(q, p, e)] = Outcomes(q, p, e, far, push[f \ {q}])
  <2>1. q \in f /\ p \in SUBSET Robots /\ e \in Decided(f)  BY <1>1 DEF Pushable
  <2>2. QED  BY <2>1, PushedIs
<1> HIDE DEF push
<1>2. B = {}
  <2> SUFFICES ASSUME B # {} PROVE FALSE
    OBVIOUS
  <2> HIDE DEF Mute
  <2>1. PICK f \in B : \A q \in f : f \ {q} \notin B
    <3>1. B \in SUBSET (SUBSET batch)  OBVIOUS
    <3> HIDE DEF B
    <3>2. QED  BY <3>1, LeastSubset
  <2>2. PICK q, p, e : Mute(f, q, p, e)  BY <2>1
  <2> USE DEF Mute
  <2>3. f \in SUBSET batch /\ Pushable(batch, f, q, p, e) /\ q \in f  BY <2>1, <2>2 DEF Pushable
  <2>4. ASSUME NEW x \in f \ {q}, NEW c, Pushable(batch, f \ {q}, x, {q}, c)
        PROVE  push[f \ {q}][Call(x, {q}, c)] # {}
    <3>1. f \ {q} \in SUBSET batch /\ f \ {q} \notin B  BY <2>1, <2>3
    <3>2. QED  BY <2>4, <3>1
  <2> HIDE DEF Mute, B
  <2>5. \A c \in Cells : far[q][c] \in Nat  BY <2>3
  <2>6. Outcomes(q, p, e, far, push[f \ {q}]) # {}  BY <2>3, <2>4, <2>5, OutcomeExists
  <2>7. QED  BY <1>1, <2>2, <2>3, <2>6 DEF Mute
<1>3. free \in SUBSET batch  BY DEF Pushable
<1>4. QED  BY <1>2, <1>3 DEF push

-----------------------------------------------------------------------------
(* What a batch is made of: the robots under way, and some that wait with a *)
(* pod for a token there is.                                                *)
LEMMA BatchIs ==
    ASSUME FloorInv, NEW batch \in Batches
    PROVE  /\ batch \subseteq Robots /\ IsFiniteSet(batch)
           /\ batch \ UnderWay \in Admissible
           /\ batch \subseteq UnderWay \cup (batch \ UnderWay)
           /\ \A r \in batch : leg[r] \in {"fetch", "loaded", "deliver", "return"}
<1>1. PICK new \in Activations : batch = UnderWay \cup new  BY DEF Batches
<1>2. {} \in Admissible
  <2>1. Admitted \cup {} = Admitted  OBVIOUS
  <2>2. QED  BY <2>1 DEF Admissible, FloorInv, TokensSuffice
<1>3. new \in Admissible  BY <1>2 DEF Activations
<1>4. \A r \in new : r \in Robots /\ leg[r] = "loaded"  BY <1>3 DEF Admissible
<1>5. batch \ UnderWay = new  BY <1>1, <1>4 DEF UnderWay
<1>6. UnderWay \subseteq Robots /\ \A r \in UnderWay : leg[r] \in {"fetch", "deliver", "return"}
  BY DEF UnderWay
<1>7. batch \subseteq Robots  BY <1>1, <1>4, <1>6
<1>8. IsFiniteSet(batch)  BY <1>7, RobotsAssumption, FS_Subset
<1>9. QED  BY <1>1, <1>3, <1>4, <1>5, <1>6, <1>7, <1>8

LEMMA BatchIsPlannable ==
    ASSUME FloorInv, planner = "pibt", NEW batch \in Batches
    PROVE  Plannable(batch)
<1>1. batch \subseteq Robots /\ \A r \in batch : leg[r] \in {"fetch", "loaded", "deliver", "return"}
  BY BatchIs
<1>2. TypeOK  BY DEF FloorInv, PlanningTypeOK
<1>3. \A r \in batch : position[r] \in Cells  BY <1>1, <1>2 DEF TypeOK
<1>4. \A r \in batch : position[r] \notin PodsInTheWay(r)  BY <1>1 DEF FloorInv, ClearOfPods
<1>5. QED  BY <1>1, <1>2, <1>3, <1>4 DEF Plannable, FloorInv, TypeOK

LEMMA PrioritiesOrdered ==
    ASSUME FloorInv
    PROVE  \A r \in Robots : priority[r] \in Int /\ priority[r] >= -1
<1>1. Cardinality(Robots) \in Nat  BY RobotsAssumption, FS_CardinalityType
<1>2. QED  BY <1>1 DEF FloorInv, PlanningTypeOK

(* Everything that is decided for a batch is complete and sound.            *)
LEMMA DecisionsSound ==
    ASSUME FloorInv, planner = "pibt", NEW batch \in Batches, NEW d \in Decisions(batch)
    PROVE  /\ Plannable(batch) /\ Sound(batch, d)
           /\ DOMAIN d = Robots /\ \A r \in Robots : d[r] \in Cells \cup {Inside}
<1>1. Plannable(batch) /\ IsFiniteSet(batch)  BY BatchIs, BatchIsPlannable
<1>2. d \in Decided({}) /\ Sound(batch, d)  BY <1>1, DecisionsSettled, PrioritiesOrdered
<1>3. QED  BY <1>1, <1>2 DEF Decided

(* The robots that follow sound decisions never block each other, whether    *)
(* those that stay count as moving or not.                                  *)
LEMMA NobodyBlocked ==
    ASSUME NEW batch, Plannable(batch), NEW d, DOMAIN d = Robots, Sound(batch, d),
           NEW movable \in SUBSET batch,
           \A r \in batch \ movable : d[r] = position[r]
    PROVE  Blocked([r \in movable |-> d[r]]) = {}
<1> DEFINE next == [r \in movable |-> d[r]]
<1>1. movable \subseteq Robots /\ batch \subseteq Robots  BY DEF Plannable
<1>2. \A r \in movable : position[r] # Inside  BY <1>1, FloorAssumption DEF Plannable
<1>3. ASSUME NEW r \in movable, NEW q \in Robots, q # r PROVE d[q] # d[r]
  BY <1>1, <1>2, <1>3 DEF Sound
<1>4. \A q \in Robots \ movable : d[q] = position[q]  BY DEF Sound
<1>5. DOMAIN next = movable /\ \A r \in movable : next[r] = d[r]  OBVIOUS
<1> HIDE DEF next
<1>6. BlocksAll(next, {})
  <2>1. ASSUME NEW r \in movable, NEW q \in movable \ {r} PROVE next[q] # next[r]
    BY <1>1, <1>3, <1>5
  <2>2. ASSUME NEW r \in movable, NEW q \in Robots \ movable PROVE position[q] # next[r]
    BY <1>3, <1>4, <1>5
  <2>3. QED  BY <1>5, <2>1, <2>2 DEF BlocksAll
<1>7. {} \in SUBSET DOMAIN next  OBVIOUS
<1>8. Blocked(next) = {}  BY <1>6, <1>7 DEF Blocked
<1>9. QED  BY <1>8 DEF next

(* The invariant is all the audit needs.                                    *)
LEMMA AuditHolds == FloorInv => AuditPasses
<1> SUFFICES ASSUME FloorInv, planner = "pibt", NEW batch \in Batches, NEW d \in Decisions(batch)
             PROVE  /\ DOMAIN d = Robots
                    /\ \A r \in batch :
                           /\ d[r] \in Adjacent[position[r]] \cup {position[r]}
                           /\ d[r] \in RoutingBlocked => d[r] \in {position[r], Goal(r)}
                           /\ d[r] \notin PodsInTheWay(r)
                    /\ \A r, q \in Robots :
                           r # q /\ d[r] = d[q] => position[r] = Inside /\ position[q] = Inside
                    /\ \A r, q \in batch : d[r] = position[q] /\ d[q] = position[r] => r = q
                    /\ Blocked([r \in batch |-> d[r]]) = {}
  BY DEF AuditPasses
<1>1. Plannable(batch) /\ Sound(batch, d) /\ DOMAIN d = Robots  BY DecisionsSound
<1>2. batch \subseteq Robots  BY <1>1 DEF Plannable
<1>3. \A r \in batch : Legal(r, d[r])  BY <1>1, <1>2 DEF Sound
<1>4. \A r, q \in Robots :
          r # q /\ d[r] = d[q] => position[r] = Inside /\ position[q] = Inside
  BY <1>1 DEF Sound
<1>5. \A r, q \in batch : d[r] = position[q] /\ d[q] = position[r] => r = q
  BY <1>1, <1>2 DEF Sound
<1>6. Blocked([r \in batch |-> d[r]]) = {}
  <2>1. batch \in SUBSET batch /\ \A r \in batch \ batch : d[r] = position[r]  OBVIOUS
  <2>2. QED  BY <1>1, <2>1, NobodyBlocked
<1>7. QED  BY <1>1, <1>3, <1>4, <1>5, <1>6 DEF Legal

-----------------------------------------------------------------------------
(* A tick of PIBT: everybody goes where it decided to go.                   *)
LEMMA JointTickIs ==
    ASSUME FloorInv, JointTick
    PROVE  \E batch \in Batches : \E d \in Decisions(batch) :
               /\ planner = "pibt"
               /\ position' = [r \in Robots |-> d[r]]
               /\ leg' = [r \in Robots |-> IF r \in batch \ UnderWay THEN "deliver" ELSE leg[r]]
               /\ load' = load
               /\ priority' = Aged([r \in batch |-> d[r]])
<1>1. PICK batch \in Batches : \E steps \in JointSteps(batch) :
          /\ planner = "pibt" /\ Tick(batch \ UnderWay, steps) /\ priority' = Aged(steps)
  BY DEF JointTick
<1>2. PICK steps \in JointSteps(batch) :
          /\ planner = "pibt" /\ Tick(batch \ UnderWay, steps) /\ priority' = Aged(steps)
  BY <1>1
<1>3. PICK d \in Decisions(batch) :
          steps = [r \in batch |-> IF r \in DOMAIN d THEN d[r] ELSE position[r]]
  BY DEF JointSteps
<1>4. Plannable(batch) /\ Sound(batch, d) /\ DOMAIN d = Robots /\ batch \subseteq Robots
  BY <1>2, DecisionsSound DEF Plannable
<1>5. steps = [r \in batch |-> d[r]]  BY <1>3, <1>4
<1>6. Blocked(steps) = {}
  <2>1. batch \in SUBSET batch /\ \A r \in batch \ batch : d[r] = position[r]  OBVIOUS
  <2>2. QED  BY <1>4, <1>5, <2>1, NobodyBlocked
<1>7. position' = [r \in Robots |-> d[r]]
  <2>1. DOMAIN steps \ Blocked(steps) = batch  BY <1>5, <1>6
  <2>2. position' = [r \in Robots |-> IF r \in batch THEN steps[r] ELSE position[r]]
    BY <1>2, <2>1 DEF Tick, MoveAgents
  <2>3. \A r \in Robots : (IF r \in batch THEN steps[r] ELSE position[r]) = d[r]
    BY <1>4, <1>5 DEF Sound
  <2>4. QED  BY <2>2, <2>3
<1>8. QED  BY <1>2, <1>5, <1>7 DEF Tick

(* It is one of the ticks of Movement: those that stay have no path.        *)
LEMMA JointTickIsTick == FloorInv /\ JointTick => AnyTick
<1> SUFFICES ASSUME FloorInv, JointTick PROVE AnyTick
  OBVIOUS
<1>batch. PICK batch \in Batches : \E d \in Decisions(batch) :
          /\ planner = "pibt"
          /\ position' = [r \in Robots |-> d[r]]
          /\ leg' = [r \in Robots |-> IF r \in batch \ UnderWay THEN "deliver" ELSE leg[r]]
          /\ load' = load
  BY JointTickIs
<1>1. PICK d \in Decisions(batch) :
          /\ planner = "pibt"
          /\ position' = [r \in Robots |-> d[r]]
          /\ leg' = [r \in Robots |-> IF r \in batch \ UnderWay THEN "deliver" ELSE leg[r]]
          /\ load' = load
  BY <1>batch
<1>2. /\ Plannable(batch) /\ Sound(batch, d) /\ DOMAIN d = Robots
      /\ \A r \in Robots : d[r] \in Cells \cup {Inside}
      /\ batch \subseteq Robots /\ batch \ UnderWay \in Admissible
      /\ batch \subseteq UnderWay \cup (batch \ UnderWay)
  BY <1>1, DecisionsSound, BatchIs
<1> DEFINE movable == {r \in batch : d[r] # position[r]}
           next == [r \in movable |-> d[r]]
           new == batch \ UnderWay
<1>3. \A r \in movable : d[r] \in Adjacent[position[r]]  BY <1>2 DEF Sound, Legal
<1>4. Blocked(next) = {}
  <2>1. movable \in SUBSET batch /\ \A r \in batch \ movable : d[r] = position[r]  OBVIOUS
  <2> HIDE DEF movable
  <2>2. QED  BY <1>2, <2>1, NobodyBlocked
<1>5. next \in [movable -> Cells]
  <2>1. \A r \in movable : d[r] \in Cells
    <3>1. \A r \in movable : position[r] \in Cells  BY <1>2 DEF Plannable, movable
    <3>2. QED  BY <1>2, <1>3, <3>1, FloorAssumption
  <2>2. QED  BY <2>1
<1>6. MoveAgents(next)
  <2>1. DOMAIN next \ Blocked(next) = movable  BY <1>4
  <2>2. \A r \in Robots : (IF r \in movable THEN next[r] ELSE position[r]) = d[r]
    BY <1>2 DEF Sound
  <2>3. QED  BY <1>1, <2>1, <2>2 DEF MoveAgents
<1>7. Tick(new, next)  BY <1>1, <1>6 DEF Tick
<1>8. movable \in SUBSET (UnderWay \cup new)  BY <1>2
<1>9. \A r \in movable : next[r] \in Adjacent[position[r]]  BY <1>3
<1> HIDE DEF movable, next, new
<1>10. new \in Admissible  BY <1>2 DEF new
<1>11. QED  BY <1>5, <1>7, <1>8, <1>9, <1>10 DEF AnyTick

(* Every step of the jointly planned floor is a step of Movement.           *)
LEMMA StepSimulates == FloorInv /\ [FloorNext]_allVars => [Next]_vars
BY JointTickIsTick DEF FloorNext, PathTick, FloorWork, Next, allVars, vars

-----------------------------------------------------------------------------
(* Priorities stay ranks.                                                   *)
LEMMA AgedIsRank ==
    ASSUME FloorInv, NEW steps
    PROVE  Aged(steps) \in [Robots -> -1 .. Cardinality(Robots)]
<1> DEFINE p == [r \in Robots |-> IF r \notin DOMAIN steps THEN priority[r]
                                  ELSE IF steps[r] = Goal(r) THEN -1
                                  ELSE IF priority[r] < 0 THEN 1 ELSE priority[r] + 1]
           N == Cardinality(Robots)
           values == {p[q] : q \in Robots}
           rank(r) == IF p[r] <= 0 THEN p[r] ELSE Cardinality(values \cap 1 .. p[r])
<1>1. N \in Nat  BY RobotsAssumption, FS_CardinalityType
<1>2. \A r \in Robots : priority[r] \in Int /\ priority[r] >= -1  BY PrioritiesOrdered
<1>3. \A r \in Robots : p[r] \in Int /\ p[r] >= -1  BY <1>2
<1>4. Aged(steps) = [r \in Robots |-> rank(r)]  BY DEF Aged, Ranked
<1>5. IsFiniteSet(values) /\ Cardinality(values) <= N
  <2> HIDE DEF p
  <2> DEFINE f == [q \in Robots |-> p[q]]
  <2>1. f \in Surjection(Robots, values)  BY DEF Surjection
  <2> HIDE DEF f, values
  <2>2. QED  BY <2>1, RobotsAssumption, FS_Surjection
<1> HIDE DEF p, values, N
<1>6. ASSUME NEW r \in Robots PROVE rank(r) \in -1 .. N
  <2>1. CASE p[r] <= 0
    <3>1. p[r] \in Int /\ p[r] >= -1  BY <1>3
    <3>2. QED  BY <1>1, <2>1, <3>1
  <2>2. CASE ~(p[r] <= 0)
    <3> DEFINE some == values \cap 1 .. p[r]
    <3>1. IsFiniteSet(some) /\ Cardinality(some) <= Cardinality(values)
          /\ Cardinality(some) \in Nat /\ Cardinality(values) \in Nat
      <4>1. some \in SUBSET values  OBVIOUS
      <4> HIDE DEF some
      <4>2. IsFiniteSet(some) /\ Cardinality(some) <= Cardinality(values)
        BY <1>5, <4>1, FS_Subset
      <4>3. QED  BY <1>5, <4>2, FS_CardinalityType
    <3>2. rank(r) = Cardinality(some)  BY <2>2
    <3> HIDE DEF some, rank
    <3>3. QED  BY <1>1, <1>5, <3>1, <3>2
  <2>3. QED  BY <2>1, <2>2
<1>7. QED
  <2> HIDE DEF rank
  <2>1. QED  BY <1>4, <1>6 DEF N

(* A robot that does not carry a pod is kept from nothing, and none is kept  *)
(* from its own pod's place.                                                *)
LEMMA PodsInTheWayAre ==
    ASSUME NEW r \in Robots
    PROVE  /\ PodsInTheWay(r) \subseteq Cells
           /\ Entry \notin PodsInTheWay(r) /\ Exit \notin PodsInTheWay(r)
           /\ ~Carrying(r) => PodsInTheWay(r) = {}
           /\ PodsInTheWay(r) \subseteq StaticBlocked \ {Goal(r)}
           /\ Carrying(r) => PodsInTheWay(r) = StaticBlocked \ {Goal(r)}
<1>1. StaticBlocked \subseteq Cells /\ Entry \notin StaticBlocked /\ Exit \notin StaticBlocked
  BY FloorAssumption DEF StaticBlocked
<1>2. QED  BY <1>1 DEF PodsInTheWay

(* The place of a pod that is carried is nobody's obstacle.                 *)
LEMMA CarriedPodIsNoObstacle ==
    ASSUME TypeOK, PodsHeldOnce, NEW r \in Robots, Carrying(r)
    PROVE  Home[load[r]] \notin StaticBlocked
<1>1. load[r] \in Pods  BY DEF TypeOK, Carrying, Leg
<1>2. ASSUME NEW p \in Pods, \A q \in Robots : load[q] = p => ~Carrying(q),
             Home[load[r]] = Home[p]
      PROVE  FALSE
  <2>1. load[r] = p  BY <1>1, <1>2, StorageAssumption
  <2>2. QED  BY <1>2, <2>1
<1>3. QED  BY <1>2 DEF StaticBlocked

LEMMA TickKeepsClear ==
    ASSUME FloorInv, JointTick
    PROVE  ClearOfPods' /\ PodsHeldOnce'
<1>batch. PICK batch \in Batches : \E d \in Decisions(batch) :
          /\ planner = "pibt"
          /\ position' = [r \in Robots |-> d[r]]
          /\ leg' = [r \in Robots |-> IF r \in batch \ UnderWay THEN "deliver" ELSE leg[r]]
          /\ load' = load
  BY JointTickIs
<1>1. PICK d \in Decisions(batch) :
          /\ planner = "pibt"
          /\ position' = [r \in Robots |-> d[r]]
          /\ leg' = [r \in Robots |-> IF r \in batch \ UnderWay THEN "deliver" ELSE leg[r]]
          /\ load' = load
  BY <1>batch
<1>2. Plannable(batch) /\ Sound(batch, d) /\ DOMAIN d = Robots
      /\ \A r \in batch \ UnderWay : r \in Robots /\ leg[r] = "loaded"
  BY <1>1, DecisionsSound, BatchIs DEF Admissible
<1>3. \A r \in Robots : /\ Carrying(r)' <=> Carrying(r)
                        /\ Goal(r)' = Goal(r)
  BY <1>1, <1>2 DEF Carrying, Goal, Leg
<1>4. StaticBlocked' = StaticBlocked  BY <1>1, <1>3 DEF StaticBlocked
<1>5. \A r \in Robots : PodsInTheWay(r)' = PodsInTheWay(r)  BY <1>3, <1>4 DEF PodsInTheWay
<1>6. \A r \in Robots : d[r] \notin PodsInTheWay(r)
  <2>1. ASSUME NEW r \in Robots \ batch PROVE d[r] \notin PodsInTheWay(r)
    <3>1. d[r] = position[r]  BY <1>2 DEF Sound
    <3>2. QED  BY <1>1, <3>1 DEF FloorInv, ClearOfPods
  <2>2. ASSUME NEW r \in batch PROVE d[r] \notin PodsInTheWay(r)
    BY <1>2 DEF Sound, Legal, Plannable
  <2>3. QED  BY <2>1, <2>2
<1>7. ClearOfPods'  BY <1>1, <1>5, <1>6 DEF ClearOfPods
<1>8. PodsHeldOnce'  BY <1>1 DEF PodsHeldOnce, FloorInv
<1>9. QED  BY <1>7, <1>8

(* Robots work where they stand: a pod that is lifted is an obstacle no       *)
(* more, and where one is put down no other robot stands.                   *)
LEMMA WorkKeepsClear ==
    ASSUME FloorInv, NEW r \in Robots, Work(r), planner' = planner
    PROVE  ClearOfPods' /\ PodsHeldOnce'
<1>1. TypeOK /\ OneRobotPerCell /\ PodsHeldOnce /\ ClearOfPods
  BY DEF FloorInv, PlanningTypeOK
<1>2. \A q \in Robots : leg[q] \in Leg /\ load[q] \in Pods \cup {Nothing}
                        /\ (load[q] = Nothing <=> leg[q] = "idle")
  BY <1>1 DEF TypeOK
<1>3. ASSUME load' = load, \A q \in Robots : Carrying(q)' <=> Carrying(q),
             \A q \in Robots : \/ position'[q] = position[q] /\ Goal(q)' = Goal(q)
                               \/ position'[q] \in {Inside, Exit}
      PROVE  ClearOfPods' /\ PodsHeldOnce'
  <2>1. StaticBlocked' = StaticBlocked  BY <1>3 DEF StaticBlocked
  <2>2. Inside \notin StaticBlocked /\ Exit \notin StaticBlocked
    BY FloorAssumption DEF StaticBlocked
  <2>3. ASSUME planner = "pibt", NEW q \in Robots PROVE position'[q] \notin PodsInTheWay(q)'
    <3>1. CASE position'[q] \in {Inside, Exit}  BY <2>1, <2>2, <3>1 DEF PodsInTheWay
    <3>2. CASE position'[q] = position[q] /\ Goal(q)' = Goal(q)
      <4>1. PodsInTheWay(q)' = PodsInTheWay(q)  BY <1>3, <2>1, <3>2 DEF PodsInTheWay
      <4>2. QED  BY <1>1, <2>3, <3>2, <4>1 DEF ClearOfPods
    <3>3. QED  BY <1>3, <3>1, <3>2
  <2>4. QED  BY <1>1, <1>3, <2>3 DEF ClearOfPods, PodsHeldOnce
<1>4. ASSUME NEW p \in Pods, Assign(r, p) PROVE ClearOfPods' /\ PodsHeldOnce'
  <2>1. /\ leg[r] = "idle" /\ position' = position
        /\ \A q \in Robots : load[q] # p
        /\ \A q \in Robots \ {r} : leg'[q] = leg[q] /\ load'[q] = load[q]
        /\ leg'[r] = "fetch" /\ load'[r] = p
    BY <1>1, <1>4 DEF Assign, TypeOK
  <2>2. /\ \A q \in Robots : Carrying(q)' <=> Carrying(q)
        /\ ~Carrying(r) /\ ~Carrying(r)'
    BY <2>1 DEF Carrying
  <2>3. StaticBlocked' = StaticBlocked
    <3>1. \A x \in Pods : (\A q \in Robots : load'[q] = x => ~Carrying(q)')
                          <=> (\A q \in Robots : load[q] = x => ~Carrying(q))
      BY <2>1, <2>2
    <3>2. QED  BY <3>1 DEF StaticBlocked
  <2>4. \A q \in Robots \ {r} : Goal(q)' = Goal(q)  BY <2>1 DEF Goal
  <2>5. \A q \in Robots : PodsInTheWay(q)' = PodsInTheWay(q)
    BY <2>2, <2>3, <2>4 DEF PodsInTheWay
  <2>6. ClearOfPods'  BY <1>1, <2>1, <2>5 DEF ClearOfPods
  <2>7. QED  BY <1>1, <2>1, <2>6 DEF PodsHeldOnce
<1>5. CASE PickUp(r)
  <2>1. /\ leg[r] = "fetch" /\ position[r] = Home[load[r]] /\ position' = position /\ load' = load
        /\ leg'[r] = "loaded" /\ \A q \in Robots \ {r} : leg'[q] = leg[q]
    BY <1>1, <1>5 DEF PickUp, Arrived, Goal, TypeOK
  <2>2. load[r] \in Pods  BY <1>2, <2>1
  <2>3. /\ ~Carrying(r) /\ Carrying(r)'
        /\ \A q \in Robots \ {r} : (Carrying(q)' <=> Carrying(q)) /\ Goal(q)' = Goal(q)
    BY <2>1 DEF Carrying, Leg, Goal
  <2>4. StaticBlocked' \subseteq StaticBlocked  BY <2>1, <2>3 DEF StaticBlocked
  <2>5. position[r] \notin StaticBlocked'
    <3>1. ASSUME NEW p \in Pods, \A q \in Robots : load'[q] = p => ~Carrying(q)',
                 Home[load[r]] = Home[p]
          PROVE  FALSE
      <4>1. load[r] = p  BY <2>2, <3>1, StorageAssumption
      <4>2. QED  BY <2>1, <2>3, <3>1, <4>1
    <3>2. QED  BY <2>1, <3>1 DEF StaticBlocked
  <2>6. ASSUME planner = "pibt", NEW q \in Robots PROVE position'[q] \notin PodsInTheWay(q)'
    <3>1. CASE q = r  BY <2>1, <2>5, <3>1 DEF PodsInTheWay
    <3>2. CASE q # r
      <4>1. PodsInTheWay(q)' \subseteq PodsInTheWay(q)  BY <2>3, <2>4, <3>2 DEF PodsInTheWay
      <4>2. QED  BY <1>1, <2>1, <2>6, <4>1 DEF ClearOfPods
    <3>3. QED  BY <3>1, <3>2
  <2>7. QED  BY <1>1, <2>1, <2>6 DEF ClearOfPods, PodsHeldOnce
<1>6. CASE PutDown(r)
  <2>1. /\ leg[r] = "return" /\ position[r] = Home[load[r]] /\ position' = position
        /\ leg'[r] = "idle" /\ load'[r] = Nothing
        /\ \A q \in Robots \ {r} : leg'[q] = leg[q] /\ load'[q] = load[q]
    BY <1>1, <1>6 DEF PutDown, Arrived, Goal, TypeOK
  <2>2. load[r] \in Pods /\ position[r] \in Cells /\ position[r] # Inside
    BY <1>2, <2>1, FloorAssumption
  <2>3. /\ ~Carrying(r)'
        /\ \A q \in Robots \ {r} : (Carrying(q)' <=> Carrying(q)) /\ Goal(q)' = Goal(q)
    BY <2>1 DEF Carrying, Goal
  <2>4. StaticBlocked' \subseteq StaticBlocked \cup {Home[load[r]]}
    <3>1. ASSUME NEW p \in Pods, \A q \in Robots : load'[q] = p => ~Carrying(q)',
                 p # load[r]
          PROVE  \A q \in Robots : load[q] = p => ~Carrying(q)
      BY <2>1, <2>3, <3>1
    <3>2. QED  BY <3>1 DEF StaticBlocked
  <2>5. ASSUME planner = "pibt", NEW q \in Robots PROVE position'[q] \notin PodsInTheWay(q)'
    <3>1. CASE q = r  BY <2>3, <3>1 DEF PodsInTheWay
    <3>2. CASE q # r
      <4>1. position[q] # Home[load[r]]  BY <1>1, <2>1, <2>2, <3>2 DEF OneRobotPerCell
      <4>2. PodsInTheWay(q)' \subseteq PodsInTheWay(q) \cup {Home[load[r]]}
        BY <2>3, <2>4, <3>2 DEF PodsInTheWay
      <4>3. QED  BY <1>1, <2>1, <2>5, <4>1, <4>2 DEF ClearOfPods
    <3>3. QED  BY <3>1, <3>2
  <2>6. QED  BY <1>1, <2>1, <2>5 DEF ClearOfPods, PodsHeldOnce
<1>7. CASE Absorb(r) \/ ServiceDone(r) \/ Release(r) \/ Finalize(r)
  <2>1. load' = load  BY <1>7 DEF Absorb, ServiceDone, Release, Finalize
  <2>2. \A q \in Robots \ {r} : leg'[q] = leg[q] /\ position'[q] = position[q]
    BY <1>1, <1>7 DEF Absorb, ServiceDone, Release, Finalize, TypeOK
  <2>3. position'[r] = position[r] \/ position'[r] \in {Inside, Exit}
    BY <1>1, <1>7 DEF Absorb, ServiceDone, Release, Finalize, TypeOK
  <2>4. /\ Carrying(r)' <=> Carrying(r)
        /\ position'[r] \in {Inside, Exit} \/ (position'[r] = position[r] /\ Goal(r)' = Goal(r))
    <3>1. CASE Absorb(r)  BY <1>1, <3>1 DEF Absorb, Carrying, Leg, TypeOK
    <3>2. CASE ServiceDone(r)  BY <1>1, <3>2 DEF ServiceDone, Carrying, Leg, TypeOK, Goal
    <3>3. CASE Release(r)  BY <1>1, <3>3 DEF Release, Carrying, Leg, TypeOK
    <3>4. CASE Finalize(r)  BY <1>1, <3>4 DEF Finalize, Carrying, Leg, TypeOK, Goal
    <3>5. QED  BY <1>7, <3>1, <3>2, <3>3, <3>4
  <2>5. \A q \in Robots \ {r} : /\ Carrying(q)' <=> Carrying(q)
                                /\ Goal(q)' = Goal(q) /\ position'[q] = position[q]
    BY <2>1, <2>2 DEF Carrying, Goal
  <2>6. QED
    <3>1. \A q \in Robots : q = r \/ q \in Robots \ {r}  OBVIOUS
    <3>2. \A q \in Robots : Carrying(q)' <=> Carrying(q)  BY <2>4, <2>5, <3>1
    <3>3. \A q \in Robots : \/ position'[q] = position[q] /\ Goal(q)' = Goal(q)
                            \/ position'[q] \in {Inside, Exit}
      BY <2>4, <2>5, <3>1
    <3>4. QED  BY <1>3, <2>1, <3>2, <3>3
<1>8. QED  BY <1>4, <1>5, <1>6, <1>7 DEF Work

(* Paths of whatever age move robots about and nothing else; who is let into *)
(* the station has a token, and who works gives tokens back or keeps them.  *)
LEMMA TickKeepsTokens ==
    ASSUME FloorInv, AnyTick
    PROVE  TokensSuffice' /\ PodsHeldOnce'
<1>1. PICK new \in Admissible : /\ leg' = [r \in Robots |-> IF r \in new THEN "deliver" ELSE leg[r]]
                                /\ load' = load
  BY DEF AnyTick, Tick
<1>2. Cardinality(Admitted \cup new) <= Capacity  BY <1>1 DEF Admissible
<1>3. Admitted' = Admitted \cup new
  <2>1. \A r \in new : r \in Robots  BY DEF Admissible
  <2>2. \A r \in Robots : leg'[r] = IF r \in new THEN "deliver" ELSE leg[r]  BY <1>1
  <2>3. QED  BY <2>1, <2>2 DEF Admitted
<1>4. TokensSuffice'  BY <1>2, <1>3 DEF TokensSuffice
<1>5. PodsHeldOnce'  BY <1>1 DEF PodsHeldOnce, FloorInv
<1>6. QED  BY <1>4, <1>5

LEMMA WorkKeepsTokens ==
    ASSUME FloorInv, NEW r \in Robots, Work(r)
    PROVE  TokensSuffice'
<1>1. TypeOK  BY DEF FloorInv, PlanningTypeOK
<1>2. Admitted' \subseteq Admitted
  <2>1. \A q \in Robots : q = r \/ leg'[q] = leg[q]
    BY <1>1 DEF Work, Assign, PickUp, Absorb, ServiceDone, Release, Finalize, PutDown, TypeOK
  <2>2. leg'[r] \in {"deliver", "inside", "exiting"} => leg[r] \in {"deliver", "inside", "exiting"}
    BY <1>1 DEF Work, Assign, PickUp, Absorb, ServiceDone, Release, Finalize, PutDown, TypeOK
  <2>3. QED  BY <2>1, <2>2 DEF Admitted
<1>3. IsFiniteSet(Admitted)  BY RobotsAssumption, FS_Subset DEF Admitted
<1>4. IsFiniteSet(Admitted')  BY <1>2, <1>3, FS_Subset
<1>5. Cardinality(Admitted') <= Cardinality(Admitted)  BY <1>2, <1>3, FS_Subset
<1>6. Cardinality(Admitted) \in Nat /\ Cardinality(Admitted') \in Nat /\ Capacity \in Nat
  BY <1>3, <1>4, FS_CardinalityType, RobotsAssumption
<1>7. Cardinality(Admitted) <= Capacity  BY DEF FloorInv, TokensSuffice
<1>8. Cardinality(Admitted') <= Capacity  BY <1>5, <1>6, <1>7
<1>9. QED  BY <1>8 DEF TokensSuffice

LEMMA FloorInvInit == FloorInit => FloorInv
<1> SUFFICES ASSUME FloorInit PROVE FloorInv
  OBVIOUS
<1>1. Init /\ planner \in Planners /\ priority = [r \in Robots |-> 0]  BY DEF FloorInit
<1>2. TypeOK /\ OneRobotPerCell  BY <1>1, TypesInitially DEF Init, OneRobotPerCell
<1>3. Cardinality(Robots) \in Nat  BY RobotsAssumption, FS_CardinalityType
<1>4. PlanningTypeOK  BY <1>1, <1>2, <1>3 DEF PlanningTypeOK
<1>5. \A r \in Robots : ~Carrying(r) /\ load[r] = Nothing /\ leg[r] = "idle"
  BY <1>1 DEF Init, Carrying
<1>6. PodsHeldOnce  BY <1>5 DEF PodsHeldOnce
<1>7. ClearOfPods  BY <1>5 DEF ClearOfPods, PodsInTheWay
<1>8. TokensSuffice
  <2>1. Admitted = {}  BY <1>5 DEF Admitted
  <2>2. QED  BY <2>1, FS_EmptySet, RobotsAssumption DEF TokensSuffice
<1>9. QED  BY <1>2, <1>4, <1>6, <1>7, <1>8 DEF FloorInv

(* A step of either planner, or of the robots' work.                        *)
LEMMA FloorInvStep == FloorInv /\ [FloorNext]_allVars => FloorInv'
<1> SUFFICES ASSUME FloorInv, [FloorNext]_allVars PROVE FloorInv'
  OBVIOUS
<1>1. TypeOK /\ OneRobotPerCell /\ planner \in Planners  BY DEF FloorInv, PlanningTypeOK
<1>2. CASE UNCHANGED allVars
  <2>1. /\ position' = position /\ leg' = leg /\ load' = load
        /\ planner' = planner /\ priority' = priority
    BY <1>2 DEF allVars, vars
  <2>2. PlanningTypeOK'  BY <2>1 DEF FloorInv, PlanningTypeOK, TypeOK
  <2>3. OneRobotPerCell' /\ PodsHeldOnce'
    BY <2>1 DEF FloorInv, OneRobotPerCell, PodsHeldOnce
  <2>4. ClearOfPods'
    BY <2>1 DEF FloorInv, ClearOfPods, PodsInTheWay, StaticBlocked, Carrying, Goal
  <2>5. TokensSuffice'  BY <2>1 DEF FloorInv, TokensSuffice, Admitted
  <2>6. QED  BY <2>2, <2>3, <2>4, <2>5 DEF FloorInv
<1>3. CASE JointTick
  <2>1. AnyTick /\ planner' = planner  BY <1>3, JointTickIsTick DEF JointTick
  <2>2. TypeOK' /\ OneRobotPerCell'  BY <1>1, <2>1, TypesAfterTick, ApartAfterTick
  <2>3. priority' \in [Robots -> -1 .. Cardinality(Robots)]
    <3>1. \E steps : priority' = Aged(steps)  BY <1>3 DEF JointTick
    <3>2. QED  BY <3>1, AgedIsRank
  <2>4. PlanningTypeOK'  BY <1>1, <2>1, <2>2, <2>3 DEF PlanningTypeOK
  <2>5. QED  BY <1>3, <2>1, <2>2, <2>4, TickKeepsClear, TickKeepsTokens DEF FloorInv
<1>4. CASE PathTick
  <2>1. AnyTick /\ planner' = planner /\ priority' = priority /\ planner # "pibt"
    BY <1>4 DEF PathTick
  <2>2. TypeOK' /\ OneRobotPerCell'  BY <1>1, <2>1, TypesAfterTick, ApartAfterTick
  <2>3. PlanningTypeOK'  BY <2>1, <2>2 DEF FloorInv, PlanningTypeOK
  <2>4. ClearOfPods'  BY <2>1 DEF ClearOfPods
  <2>5. QED  BY <2>1, <2>2, <2>3, <2>4, TickKeepsTokens DEF FloorInv
<1>5. CASE FloorWork
  <2>1. PICK r \in Robots : Work(r)  BY <1>5 DEF FloorWork
  <2>2. planner' = planner /\ priority' = priority  BY <1>5 DEF FloorWork
  <2>3. TypeOK' /\ OneRobotPerCell'  BY <1>1, <2>1, TypesAfterWork, ApartAfterWork
  <2>4. PlanningTypeOK'  BY <2>2, <2>3 DEF FloorInv, PlanningTypeOK
  <2>5. QED  BY <2>1, <2>2, <2>3, <2>4, WorkKeepsClear, WorkKeepsTokens DEF FloorInv
<1>6. QED  BY <1>2, <1>3, <1>4, <1>5 DEF FloorNext

LEMMA FloorInvHolds == FloorSpec => []FloorInv
BY FloorInvInit, FloorInvStep, PTL DEF FloorSpec

-----------------------------------------------------------------------------
(* The priorities stay ranks however long robots wait, and the floor keeps  *)
(* its types under either kind of planner.                                  *)
THEOREM PlanningTypes == FloorSpec => []PlanningTypeOK
<1>1. FloorInv => PlanningTypeOK  BY DEF FloorInv
<1>2. QED  BY <1>1, FloorInvHolds, PTL

(* _audit_decisions never raises: on any floor, for any robots, tasks,      *)
(* priorities and order of equally good cells, PIBT gives every robot a     *)
(* step it may take, and no two robots the same cell or each other's.       *)
THEOREM AuditNeverFails == FloorSpec => []AuditPasses
BY AuditHolds, FloorInvHolds, PTL

(* No two robots on one cell, under either kind of planner.                 *)
THEOREM JointlyApart == FloorSpec => []OneRobotPerCell
<1>1. FloorInv => OneRobotPerCell  BY DEF FloorInv
<1>2. QED  BY <1>1, FloorInvHolds, PTL

(* The floor PIBT plans is one of those Movement describes: its joint steps  *)
(* are paths like any others, and what holds whatever the paths holds of it. *)
THEOREM JointFloorIsMovement == FloorSpec => Spec
<1>1. FloorInit => Init  BY DEF FloorInit
<1>2. QED  BY <1>1, StepSimulates, FloorInvHolds, PTL DEF FloorSpec, Spec

(* Two robots never run through each other once PIBT plans.                 *)
LEMMA NoSwapInStep ==
    ASSUME FloorInv, [FloorNext]_allVars, planner = "pibt",
           NEW r \in Robots, NEW q \in Robots,
           position'[r] = position[q], position'[q] = position[r],
           position[r] # Inside, position[r] # position'[r]
    PROVE  r = q
<1>1. TypeOK /\ OneRobotPerCell  BY DEF FloorInv, PlanningTypeOK
<1>2. CASE UNCHANGED allVars  BY <1>2 DEF allVars, vars
<1>3. CASE JointTick
  <2>batch. PICK batch \in Batches : \E d \in Decisions(batch) :
                 planner = "pibt" /\ position' = [x \in Robots |-> d[x]]
    BY <1>3, JointTickIs
  <2>1. PICK d \in Decisions(batch) : position' = [x \in Robots |-> d[x]]  BY <2>batch
  <2>2. Sound(batch, d) /\ DOMAIN d = Robots /\ batch \subseteq Robots
    BY DecisionsSound DEF Plannable
  <2>3. d[r] = position[q] /\ d[q] = position[r] /\ d[r] # position[r]  BY <2>1
  <2>4. r \in batch  BY <2>2, <2>3 DEF Sound
  <2>5. CASE q \in batch  BY <2>2, <2>3, <2>4, <2>5 DEF Sound
  <2>6. CASE q \notin batch
    <3>1. position[q] = position[r]  BY <2>2, <2>3, <2>6 DEF Sound
    <3>2. QED  BY <1>1, <3>1 DEF OneRobotPerCell
  <2>7. QED  BY <2>5, <2>6
<1>4. CASE PathTick  BY <1>4 DEF PathTick
<1>5. CASE FloorWork
  <2>1. PICK x \in Robots : Work(x)  BY <1>5 DEF FloorWork
  <2>2. \A y \in Robots \ {x} : position'[y] = position[y]
    BY <1>1, <2>1 DEF Work, Assign, PickUp, Absorb, ServiceDone, Release, Finalize, PutDown, TypeOK
  <2>3. CASE r # x  BY <2>2, <2>3
  <2>4. CASE r = x
    <3>1. CASE q = x  BY <2>4, <3>1
    <3>2. CASE q # x
      <4>1. position[q] = position[r]  BY <2>2, <3>2
      <4>2. QED  BY <1>1, <4>1 DEF OneRobotPerCell
    <3>3. QED  BY <3>1, <3>2
  <2>5. QED  BY <2>3, <2>4
<1>6. QED  BY <1>2, <1>3, <1>4, <1>5 DEF FloorNext

THEOREM NobodySwaps == FloorSpec => NoSwaps
<1>1. FloorInv /\ [FloorNext]_allVars =>
          [planner = "pibt" => \A r, q \in Robots :
               position'[r] = position[q] /\ position'[q] = position[r]
               /\ position[r] # Inside /\ position[r] # position'[r] => r = q]_allVars
  BY NoSwapInStep
<1>2. QED  BY <1>1, FloorInvHolds, PTL DEF FloorSpec, NoSwaps

=============================================================================
