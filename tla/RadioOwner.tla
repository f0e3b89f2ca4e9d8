----------------------------- MODULE RadioOwner -----------------------------
(***************************************************************************)
(* src/src/uwb_radio_owner.c and the runner's side of the handover         *)
(* (src/src/uwb_net_runner.c).  Every function of the module is one        *)
(* critical section on `lock`, cut only by k_condvar_wait(), so each       *)
(* section is one action.  A thread that k_condvar_wait() has readied is   *)
(* "woken" (by a broadcast) or "expired" (by its timeout) until it gets    *)
(* the lock back: the window in which a grant can race a timeout.          *)
(***************************************************************************)
CONSTANTS Claimants, Runner, Nobody

ASSUME OwnerAssumption == /\ Runner \notin Claimants
                          /\ Nobody \notin Claimants
                          /\ Runner # Nobody

VARIABLES state,      \* enum owner_state
          unmanaged,  \* the calibration image: no runner thread exists
          claim,      \* where each claimant is in request() .. release()
          runner,     \* where the runner is in its loop
          asleep,     \* radio_asleep: the DW3000 is in deep sleep
          phyForeign, \* timeouts and antenna delays are as a claimant left them
          stale       \* the beacon predictors span a gap off the air

vars == <<state, unmanaged, claim, runner, asleep, phyForeign, stale>>

OwnerState == {"IDLE", "REQUESTED", "HANDED"}
ClaimState == {"out", "waiting", "woken", "expired", "holding"}
\* "absent" is the calibration image; "driving" is a superframe's exchanges.
RunnerState == {"absent", "top", "offering", "parked", "woken", "driving"}

TypeOK == /\ state \in OwnerState
          /\ unmanaged \in BOOLEAN
          /\ claim \in [Claimants -> ClaimState]
          /\ runner \in RunnerState
          /\ asleep \in BOOLEAN
          /\ phyForeign \in BOOLEAN
          /\ stale \in BOOLEAN

Init == /\ state = "IDLE"
        /\ unmanaged \in BOOLEAN
        /\ claim = [c \in Claimants |-> "out"]
        /\ runner = IF unmanaged THEN "absent" ELSE "top"
        /\ asleep = FALSE
        /\ phyForeign = FALSE
        /\ stale = FALSE

-----------------------------------------------------------------------------
(* uwb_radio_request().  A call that finds a claim in flight returns false *)
(* and changes nothing, so only the accepted calls are actions.            *)

\* Mutation: the grant forgets to ask whether a runner owns the radio.
RequestGranted_Managed(c) ==
    /\ claim[c] = "out"
    /\ state = "IDLE"
    /\ state' = "HANDED"
    /\ claim' = [claim EXCEPT ![c] = "holding"]
    /\ UNCHANGED <<unmanaged, runner, asleep, phyForeign, stale>>

RequestGranted(c) ==
    /\ claim[c] = "out"
    /\ state = "IDLE"
    /\ unmanaged
    /\ state' = "HANDED"
    /\ claim' = [claim EXCEPT ![c] = "holding"]
    /\ UNCHANGED <<unmanaged, runner, asleep, phyForeign, stale>>

RequestQueued(c) ==
    /\ claim[c] = "out"
    /\ state = "IDLE"
    /\ ~unmanaged
    /\ state' = "REQUESTED"
    /\ claim' = [claim EXCEPT ![c] = "waiting"]
    /\ UNCHANGED <<unmanaged, runner, asleep, phyForeign, stale>>

\* The kernel timeout readies the claimant; it does not hold the lock yet.
Expire(c) ==
    /\ claim[c] = "waiting"
    /\ claim' = [claim EXCEPT ![c] = "expired"]
    /\ UNCHANGED <<state, unmanaged, runner, asleep, phyForeign, stale>>

\* The while condition of uwb_radio_request() still holds: wait again, with
\* the whole timeout.
WaitAgain(c) == claim[c] = "woken" /\ state = "REQUESTED"

\* Mutation: any wakeup is taken for a grant.
RequestReturns_Takes(c) ==
    /\ claim[c] \in {"woken", "expired"}
    /\ claim' = [claim EXCEPT ![c] = "holding"]
    /\ state' = "HANDED"
    /\ UNCHANGED <<unmanaged, runner, asleep, phyForeign, stale>>

\* k_condvar_wait() returns with the lock: take the radio, or withdraw.
RequestReturns(c) ==
    /\ claim[c] \in {"woken", "expired"}
    /\ claim' = [claim EXCEPT ![c] = IF WaitAgain(c) THEN "waiting"
                                    ELSE IF state = "HANDED" THEN "holding"
                                    ELSE "out"]
    /\ state' = IF WaitAgain(c) \/ state = "HANDED" THEN state ELSE "IDLE"
    /\ UNCHANGED <<unmanaged, runner, asleep, phyForeign, stale>>

\* The claimant reprograms the transceiver for its own exchanges.
UseRadio(c) ==
    /\ claim[c] = "holding"
    /\ phyForeign' = TRUE
    /\ UNCHANGED <<state, unmanaged, claim, runner, asleep, stale>>

\* k_condvar_broadcast(): every thread waiting on cv is readied.
WokenClaims == [c \in Claimants |->
                  IF claim[c] = "waiting" THEN "woken" ELSE claim[c]]

\* Mutation: the release does not signal the condition variable.
Release_Silent(c) ==
    /\ claim[c] = "holding"
    /\ state' = IF state = "HANDED" THEN "IDLE" ELSE state
    /\ claim' = [claim EXCEPT ![c] = "out"]
    /\ UNCHANGED <<unmanaged, runner, asleep, phyForeign, stale>>

\* Mutation: a fourth state that no other function knows.
Release_Released(c) ==
    /\ claim[c] = "holding"
    /\ state' = "RELEASED"
    /\ claim' = [claim EXCEPT ![c] = "out"]
    /\ UNCHANGED <<unmanaged, runner, asleep, phyForeign, stale>>

Release(c) ==
    /\ claim[c] = "holding"
    /\ IF state = "HANDED"
       THEN /\ state' = "IDLE"
            /\ runner' = IF runner = "parked" THEN "woken" ELSE runner
            /\ claim' = [WokenClaims EXCEPT ![c] = "out"]
       ELSE /\ claim' = [claim EXCEPT ![c] = "out"]
            /\ UNCHANGED <<state, runner>>
    /\ UNCHANGED <<unmanaged, asleep, phyForeign, stale>>

-----------------------------------------------------------------------------
(* The runner's loop around uwb_radio_request_pending()/uwb_radio_yield(). *)

\* Mutation: the radio is offered as the last superframe left it.
Offer_Asleep ==
    /\ runner = "top"
    /\ state = "REQUESTED"
    /\ runner' = "offering"
    /\ UNCHANGED <<state, unmanaged, claim, asleep, phyForeign, stale>>

\* Mutation: the claimants are signalled before the radio is handed over.
Offer_Early ==
    /\ runner = "top"
    /\ state = "REQUESTED"
    /\ runner' = "offering"
    /\ asleep' = FALSE
    /\ claim' = WokenClaims
    /\ UNCHANGED <<state, unmanaged, phyForeign, stale>>

\* A claim is pending: wake the DW3000, stop it, and offer it.
Offer ==
    /\ runner = "top"
    /\ state = "REQUESTED"
    /\ runner' = "offering"
    /\ asleep' = FALSE
    /\ UNCHANGED <<state, unmanaged, claim, phyForeign, stale>>

NothingPending ==
    /\ runner = "top"
    /\ state # "REQUESTED"
    /\ runner' = "driving"
    /\ UNCHANGED <<state, unmanaged, claim, asleep, phyForeign, stale>>

\* Mutation: the yield trusts the poll and does not look at the state again.
YieldHands_Trusting ==
    /\ runner = "offering"
    /\ state' = "HANDED"
    /\ claim' = WokenClaims
    /\ runner' = "parked"
    /\ stale' = TRUE
    /\ UNCHANGED <<unmanaged, asleep, phyForeign>>

YieldHands ==
    /\ runner = "offering"
    /\ state = "REQUESTED"
    /\ state' = "HANDED"
    /\ claim' = WokenClaims
    /\ runner' = "parked"
    /\ stale' = TRUE
    /\ UNCHANGED <<unmanaged, asleep, phyForeign>>

\* The claim was withdrawn between the poll and the yield.
YieldVoid ==
    /\ runner = "offering"
    /\ state # "REQUESTED"
    /\ runner' = "driving"
    /\ UNCHANGED <<state, unmanaged, claim, asleep, phyForeign, stale>>

\* Mutation: the runner goes on with the predictors it had.
YieldReturns_Predicts ==
    /\ runner = "woken"
    /\ runner' = IF state = "HANDED" THEN "parked" ELSE "driving"
    /\ phyForeign' = IF state = "HANDED" THEN phyForeign ELSE FALSE
    /\ UNCHANGED <<state, unmanaged, claim, asleep, stale>>

\* Back from the wait in uwb_radio_yield(): wait again, or return true and
\* re-apply the PHY registers and reset both beacon predictors.
YieldReturns ==
    /\ runner = "woken"
    /\ IF state = "HANDED"
       THEN /\ runner' = "parked"
            /\ UNCHANGED <<phyForeign, stale>>
       ELSE /\ runner' = "driving"
            /\ phyForeign' = FALSE
            /\ stale' = FALSE
    /\ UNCHANGED <<state, unmanaged, claim, asleep>>

\* The rest of a superframe: it leaves the radio awake or in deep sleep.
Superframe ==
    /\ runner = "driving"
    /\ runner' = "top"
    /\ asleep' \in BOOLEAN
    /\ UNCHANGED <<state, unmanaged, claim, phyForeign, stale>>

RunnerNext == Offer \/ NothingPending \/ YieldHands \/ YieldVoid
                 \/ YieldReturns \/ Superframe

ClaimNext(c) == RequestGranted(c) \/ RequestQueued(c) \/ Expire(c)
                   \/ RequestReturns(c) \/ UseRadio(c) \/ Release(c)

Next == RunnerNext \/ \E c \in Claimants : ClaimNext(c)

Spec == Init /\ [][Next]_vars

\* The scheduler runs ready threads, kernel timeouts fire, and every claimant
\* releases on every path (cal_run_run, run_listen and probe do).
Fairness == /\ WF_vars(RunnerNext)
            /\ \A c \in Claimants : /\ WF_vars(Expire(c))
                                    /\ WF_vars(RequestReturns(c))
                                    /\ WF_vars(Release(c))

FairSpec == Spec /\ Fairness

-----------------------------------------------------------------------------
(* Properties *)

\* The claimant the radio has been handed to, though it may not know it yet.
Granted(c) == \/ claim[c] = "holding"
              \/ state = "HANDED" /\ claim[c] \in {"woken", "expired"}

RunnerDrives == runner \in {"top", "offering", "driving"}

\* Two threads never drive the DW3000 at once, whichever way a grant races a
\* timeout (uwb_radio_owner.c: "exactly one thread drives the radio").
OneDriver == /\ \A c, d \in Claimants : Granted(c) /\ Granted(d) => c = d
             /\ \A c \in Claimants : Granted(c) => ~RunnerDrives

\* A broadcast never readies a claimant whose claim is still pending, so the
\* relative timeout is never restarted (the comment in uwb_radio_request()).
NoSpuriousWake == \A c \in Claimants : ~WaitAgain(c)

\* The runner is never parked for a claimant that has gone away: somebody
\* still has the radio to give back.
NeverParkedInVain == runner = "parked" => \E c \in Claimants : Granted(c)

\* The claimant always gets the radio awake (the handover contract).
HandedAwake == \A c \in Claimants : Granted(c) => ~asleep

\* The runner never starts an exchange on registers or on a beacon
\* prediction that a claimant left behind.
RunnerUndisturbed == RunnerDrives => ~phyForeign /\ ~stale

\* The contract of uwb_radio_owner.h with each side: the claimant finds the radio
\* awake and its timeout runs once, the runner finds nothing of the claimant's.
Contract == TypeOK /\ NoSpuriousWake /\ HandedAwake /\ RunnerUndisturbed

\* After a handover the runner always gets its superframe back.
RunnerResumes == (runner = "parked") ~> (runner = "driving")

\* The handover implements the loan.
LoanHolder == IF \E c \in Claimants : Granted(c)
              THEN CHOOSE c \in Claimants : Granted(c)
              ELSE IF RunnerDrives THEN Runner ELSE Nobody

Loan == INSTANCE RadioLoan WITH holder <- LoanHolder,
                                home <- IF unmanaged THEN Nobody ELSE Runner
ImplementsLoan == Loan!LoanSpec
=============================================================================
