---------------------------- MODULE MCRadioOwner ----------------------------
(* RadioOwner on the two threads of the calibration image that claim the   *)
(* radio, calrun and caldiag, and on three more than the contract allows.  *)
EXTENDS RadioOwner

SomeClaimants == {"calrun", "caldiag", "third", "fourth", "fifth"}
=============================================================================
