------------------------------- MODULE MCBoot -------------------------------
(* Boot with one name to take and two attempts at the radio.                 *)
EXTENDS Boot
=============================================================================
