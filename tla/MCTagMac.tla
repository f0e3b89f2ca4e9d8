------------------------------ MODULE MCTagMac ------------------------------
(* TagMac scaled down: a lease of 4 superframes renewed at 2, a skip capped  *)
(* at 2, two missed beacons to the loss of the seat and two slots.  One tier *)
(* follows every beacon, one skips and ranges at every second participation, *)
(* one asks for more skip than the cap.                                      *)
EXTENDS TagMac

ThreeTiers == {"IDLE", "SLOW", "FAST"}
ScaledParams == [t \in ThreeTiers |->
                   CASE t = "FAST" -> [skip |-> 1, every |-> 1]
                     [] t = "SLOW" -> [skip |-> 2, every |-> 2]
                     [] t = "IDLE" -> [skip |-> 9, every |-> 1]]
TwoSlots == {1, 2}
=============================================================================
