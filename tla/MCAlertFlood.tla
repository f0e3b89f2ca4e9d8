---------------------------- MODULE MCAlertFlood ----------------------------
(* One tag is heard two hops out, the other by an anchor that was never told  *)
(* its distance; both anchors are heard by the one beside the gateway, which  *)
(* the latter hears back.  The caches hold two entries and the table one,     *)
(* fewer than what goes about; an entry ages out in two of the clock's five   *)
(* ticks.                                                                     *)
EXTENDS AlertFlood, TLC

CONSTANTS t1, t2, far, near, lost

Unset == 9
Links == t1 :> {far} @@ t2 :> {lost}
         @@ far :> {near} @@ lost :> {near}
         @@ near :> {lost, Gateway}
Hops == far :> 2 @@ near :> 1 @@ lost :> Unset
=============================================================================
