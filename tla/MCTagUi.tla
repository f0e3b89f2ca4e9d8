------------------------------ MODULE MCTagUi -------------------------------
(* TagUi with the order of its times kept and a queue of three edges.        *)
EXTENDS TagUi
=============================================================================
