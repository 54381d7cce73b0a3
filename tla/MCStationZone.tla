---------------------------- MODULE MCStationZone -----------------------------
(* Instances of StationZone for TLC.                                        *)
EXTENDS StationZone

MCRobots == 1 .. 3

(* The layouts of the shipped configurations: a U along the upper edge of    *)
(* the map, one along its left edge (world_model_config_PP_48), and the       *)
(* smallest zone of that shape.                                              *)
UpperU == [slots |-> << <<0, 4>>, <<0, 3>>, <<0, 2>>, <<0, 1>>,
                        <<1, 1>>, <<1, 2>>, <<1, 3>> >>,
           entry |-> <<1, 4>>, exit |-> <<0, 5>>]
LeftU  == [slots |-> << <<9, 0>>, <<10, 0>>, <<11, 0>>, <<12, 0>>,
                        <<12, 1>>, <<11, 1>>, <<10, 1>> >>,
           entry |-> <<9, 1>>, exit |-> <<8, 0>>]
SmallU == [slots |-> << <<0, 1>>, <<0, 0>>, <<1, 0>> >>,
           entry |-> <<1, 1>>, exit |-> <<0, 2>>]

ShippedZones == {UpperU, LeftU, SmallU}
LeftZone     == {LeftU}

TwoRobots == 1 .. 2
NoSites   == {}

(* Stations along the edges of a 5 x 5 map, among pods.                     *)
EdgeCells == {c \in (0 .. 4) \X (0 .. 4) : c[1] \in {0, 4} \/ c[2] \in {0, 4}}
WallSets  == {{}, {<<1, 0>>}, {<<2, 2>>}, {<<3, 2>>, <<2, 3>>}, {<<2, 0>>, <<2, 1>>, <<1, 2>>}}
EdgeSites == {[rows |-> 5, cols |-> 5, cell |-> c, queue |-> 2, buffer |-> b,
               walls |-> w \ {c}, stations |-> {c}] : c \in EdgeCells, b \in {0, 1}, w \in WallSets}

=============================================================================
