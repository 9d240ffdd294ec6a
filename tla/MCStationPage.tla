---------------------------- MODULE MCStationPage ----------------------------
(* Mount 1 is matched by two sources, mount 2 by the second only.  The default *)
(* mount of station 1 is the mount of station 2.                               *)
EXTENDS StationPage

MCMountOf      == <<"m1", "m2">>
MCDefaultMount == <<"m2", "m2">>
MCCovers       == {<<1, "m1">>, <<2, "m1">>, <<2, "m2">>}
MCWatches      == [v \in Viewers |-> 1]

=============================================================================
