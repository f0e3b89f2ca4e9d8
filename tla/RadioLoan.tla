------------------------------ MODULE RadioLoan ------------------------------
(***************************************************************************)
(* What the DW3000 handover promises, with the condition variable, the     *)
(* claim states and the timeouts taken away: one holder at a time, a loan  *)
(* goes out only from the radio's home and always passes back through it,  *)
(* so the MAC runner re-establishes the PHY between two claimants.         *)
(* RadioOwner implements it.                                               *)
(***************************************************************************)
CONSTANTS Claimants,   \* threads that borrow the radio
          Runner,      \* the MAC runner thread
          Nobody       \* the radio is in no thread's hands

VARIABLES holder,      \* the thread that drives the DW3000
          home         \* who drives it when it is not lent (Nobody: no runner)

loanVars == <<holder, home>>

LoanInit == /\ home \in {Runner, Nobody}
            /\ holder = home

\* The radio leaves its home for one claimant.
Lend(c) == /\ holder = home
           /\ holder' = c
           /\ UNCHANGED home

\* A claimant is done; nobody drives the radio until the runner is back.
GiveBack(c) == /\ holder = c
               /\ holder' = Nobody
               /\ UNCHANGED home

\* The runner has re-established its PHY state and drives again.
Reclaim == /\ holder = Nobody
           /\ home = Runner
           /\ holder' = Runner
           /\ UNCHANGED home

LoanNext == \/ \E c \in Claimants : Lend(c) \/ GiveBack(c)
            \/ Reclaim

LoanSpec == LoanInit /\ [][LoanNext]_loanVars
=============================================================================
