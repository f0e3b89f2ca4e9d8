----------------------------- MODULE MCTagAlert -----------------------------
(***************************************************************************)
(* TagAlert on three raises of an epoch that wraps among them.  The main   *)
(* run has one CANCEL repeat, so that a CANCEL can complete.               *)
(***************************************************************************)
EXTENDS TagAlert
=============================================================================
