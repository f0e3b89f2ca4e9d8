-------------------------- MODULE RadioOwner_proofs --------------------------
(***************************************************************************)
(* Proofs about the handover, for any set of claimants.  OneDriver is not  *)
(* inductive: what carries it is that at most one claim is ever in flight  *)
(* and that `state` says exactly how far it has come, on the claimant's    *)
(* side and on the runner's.                                               *)
(***************************************************************************)
EXTENDS RadioOwner, TLAPS

\* At most one claim is in flight.
OneClaim == \A c, d \in Claimants : claim[c] # "out" /\ claim[d] # "out" => c = d

\* How far the claim in flight may be, in each owner state.
ClaimMatchesState ==
    \A c \in Claimants :
        /\ state = "IDLE" => claim[c] = "out"
        /\ state = "REQUESTED" => claim[c] \in {"out", "waiting", "expired"}
        /\ state = "HANDED" => claim[c] \in {"out", "woken", "expired", "holding"}

\* A state other than IDLE always has its claim.
ClaimExists == state # "IDLE" => \E c \in Claimants : claim[c] # "out"

\* Where the runner is, in each owner state.
RunnerMatchesState ==
    /\ unmanaged <=> runner = "absent"
    /\ unmanaged => state # "REQUESTED" /\ ~asleep
    /\ state = "HANDED" => runner \in {"absent", "parked"}
    /\ runner = "parked" => state = "HANDED"
    /\ runner \in {"offering", "parked"} => ~asleep

IInv == /\ TypeOK
        /\ OneClaim
        /\ ClaimMatchesState
        /\ ClaimExists
        /\ RunnerMatchesState
        /\ RunnerUndisturbed

USE DEF OwnerState, ClaimState, RunnerState

LEMMA InitIInv == Init => IInv
  BY DEF Init, IInv, TypeOK, OneClaim, ClaimMatchesState, ClaimExists,
         RunnerMatchesState, RunnerUndisturbed, RunnerDrives

\* The claimants' critical sections keep the invariant.
LEMMA ClaimStep ==
  ASSUME IInv, NEW c \in Claimants, ClaimNext(c)
  PROVE  IInv'
<1> USE DEF IInv, TypeOK, OneClaim, ClaimMatchesState, ClaimExists,
            RunnerMatchesState, RunnerUndisturbed, RunnerDrives
<1>1. CASE RequestGranted(c) BY <1>1 DEF RequestGranted
<1>2. CASE RequestQueued(c) BY <1>2 DEF RequestQueued
<1>3. CASE Expire(c) BY <1>3 DEF Expire
<1>4. CASE RequestReturns(c) BY <1>4 DEF RequestReturns, WaitAgain
<1>5. CASE UseRadio(c) BY <1>5 DEF UseRadio
<1>6. CASE Release(c) BY <1>6 DEF Release, WokenClaims
<1>7. QED BY <1>1, <1>2, <1>3, <1>4, <1>5, <1>6 DEF ClaimNext

\* So do the runner's steps.
LEMMA RunnerStep ==
  ASSUME IInv, RunnerNext
  PROVE  IInv'
<1> USE DEF IInv, TypeOK, OneClaim, ClaimMatchesState, ClaimExists,
            RunnerMatchesState, RunnerUndisturbed, RunnerDrives
<1>1. CASE Offer BY <1>1 DEF Offer
<1>2. CASE NothingPending BY <1>2 DEF NothingPending
<1>3. CASE YieldHands BY <1>3 DEF YieldHands, WokenClaims
<1>4. CASE YieldVoid BY <1>4 DEF YieldVoid
<1>5. CASE YieldReturns BY <1>5 DEF YieldReturns
<1>6. CASE Superframe BY <1>6 DEF Superframe
<1>7. QED BY <1>1, <1>2, <1>3, <1>4, <1>5, <1>6 DEF RunnerNext

LEMMA NextIInv == IInv /\ [Next]_vars => IInv'
<1> SUFFICES ASSUME IInv, [Next]_vars PROVE IInv'
  OBVIOUS
<1>1. CASE RunnerNext BY <1>1, RunnerStep
<1>2. ASSUME NEW c \in Claimants, ClaimNext(c) PROVE IInv'
  BY <1>2, ClaimStep
<1>3. CASE UNCHANGED vars
  BY <1>3 DEF vars, IInv, TypeOK, OneClaim, ClaimMatchesState, ClaimExists,
              RunnerMatchesState, RunnerUndisturbed, RunnerDrives
<1>4. QED BY <1>1, <1>2, <1>3 DEF Next

LEMMA Invariance == Spec => []IInv
<1>1. QED BY InitIInv, NextIInv, PTL DEF Spec

-----------------------------------------------------------------------------

\* Every variable keeps its type, for any set of claimants.
THEOREM TypeCorrect == Spec => []TypeOK
<1>1. IInv => TypeOK BY DEF IInv
<1>2. QED BY <1>1, Invariance, PTL

\* Two threads never drive the DW3000 at once, however a grant races a timeout
\* and however many threads call uwb_radio_request().
THEOREM ExclusiveRadio == Spec => []OneDriver
<1>1. IInv => OneDriver
  BY DEF IInv, TypeOK, OneClaim, ClaimMatchesState, RunnerMatchesState,
         OneDriver, Granted, RunnerDrives
<1>2. QED BY <1>1, Invariance, PTL

\* The comment of uwb_radio_request(): no broadcast reaches a claimant that
\* is still OWNER_REQUESTED, so its timeout is never restarted.
THEOREM TimeoutNotRestarted == Spec => []NoSpuriousWake
<1>1. IInv => NoSpuriousWake
  BY DEF IInv, ClaimMatchesState, TypeOK, NoSpuriousWake, WaitAgain
<1>2. QED BY <1>1, Invariance, PTL

\* The runner parks in uwb_radio_yield() only while a claimant has the radio.
THEOREM ParkedForSomebody == Spec => []NeverParkedInVain
<1>1. IInv => NeverParkedInVain
  BY DEF IInv, ClaimMatchesState, ClaimExists, RunnerMatchesState, TypeOK,
         NeverParkedInVain, Granted
<1>2. QED BY <1>1, Invariance, PTL

\* The handover contract on both sides: the claimant gets the DW3000 awake,
\* the runner never drives on what a claimant left behind.
THEOREM HandoverContract == Spec => []Contract
<1>1. IInv => HandedAwake /\ RunnerUndisturbed
  BY DEF IInv, ClaimMatchesState, RunnerMatchesState, TypeOK, HandedAwake,
         Granted
<1>2. IInv => TypeOK BY DEF IInv
<1>3. IInv => NoSpuriousWake
  BY DEF IInv, ClaimMatchesState, TypeOK, NoSpuriousWake, WaitAgain
<1>4. IInv => Contract BY <1>1, <1>2, <1>3 DEF Contract
<1>5. QED BY <1>4, Invariance, PTL

-----------------------------------------------------------------------------
(* The refinement of RadioLoan.                                            *)

\* The abstract holder, read off the invariant without CHOOSE.
LEMMA HolderIs ==
  ASSUME IInv
  PROVE  /\ \A c \in Claimants : Granted(c) => LoanHolder = c
         /\ (\A c \in Claimants : ~Granted(c)) =>
                LoanHolder = IF RunnerDrives THEN Runner ELSE Nobody
<1>1. ASSUME NEW c \in Claimants, Granted(c)
      PROVE  LoanHolder = c
  <2>1. \A d \in Claimants : Granted(d) => d = c
    BY <1>1 DEF IInv, TypeOK, OneClaim, ClaimMatchesState, Granted
  <2>2. QED BY <1>1, <2>1 DEF LoanHolder
<1>2. QED BY <1>1 DEF LoanHolder

\* The same in the next state.
LEMMA HolderIsNext ==
  ASSUME IInv'
  PROVE  /\ \A c \in Claimants : Granted(c)' => LoanHolder' = c
         /\ (\A c \in Claimants : ~Granted(c)') =>
                LoanHolder' = IF RunnerDrives' THEN Runner ELSE Nobody
<1>1. ASSUME NEW c \in Claimants, Granted(c)'
      PROVE  LoanHolder' = c
  <2>1. \A d \in Claimants : Granted(d)' => d = c
    BY <1>1 DEF IInv, TypeOK, OneClaim, ClaimMatchesState, Granted
  <2>2. QED BY <1>1, <2>1 DEF LoanHolder
<1>2. QED BY <1>1 DEF LoanHolder

LEMMA InitRefines == Init => Loan!LoanInit
<1> SUFFICES ASSUME Init PROVE Loan!LoanInit
  OBVIOUS
<1>1. \A c \in Claimants : ~Granted(c) BY DEF Init, Granted
<1>2. LoanHolder = IF RunnerDrives THEN Runner ELSE Nobody
  BY <1>1 DEF LoanHolder
<1>3. QED BY <1>2 DEF Init, Loan!LoanInit, RunnerDrives

\* A step that leaves the grants and the runner's side alone is a stutter.
LEMMA SameHolder ==
  ASSUME IInv, IInv', unmanaged' = unmanaged,
         \A c \in Claimants : Granted(c)' <=> Granted(c),
         RunnerDrives' <=> RunnerDrives
  PROVE  UNCHANGED Loan!loanVars
<1>1. LoanHolder' = LoanHolder
  BY HolderIs, HolderIsNext
<1>2. QED BY <1>1 DEF Loan!loanVars

LEMMA StepRefines ==
  ASSUME IInv, IInv', [Next]_vars
  PROVE  [Loan!LoanNext]_Loan!loanVars
<1> USE DEF Granted, RunnerDrives
<1>1. CASE RunnerNext
  <2>1. CASE Offer BY <2>1, SameHolder DEF Offer
  <2>2. CASE NothingPending BY <2>2, SameHolder DEF NothingPending
  <2>3. CASE YieldVoid BY <2>3, SameHolder DEF YieldVoid
  <2>4. CASE Superframe BY <2>4, SameHolder DEF Superframe
  <2>5. CASE YieldHands
    <3>1. PICK c \in Claimants : claim[c] # "out"
      BY <2>5 DEF YieldHands, IInv, ClaimExists
    <3>2. Granted(c)' /\ unmanaged' = unmanaged /\ ~unmanaged
      BY <2>5, <3>1 DEF YieldHands, WokenClaims, IInv, TypeOK,
                        ClaimMatchesState, RunnerMatchesState
    <3>3. LoanHolder' = c BY <3>2, HolderIsNext
    <3>4. LoanHolder = Runner
      BY <2>5, HolderIs DEF YieldHands, IInv, TypeOK, ClaimMatchesState
    <3>5. QED BY <3>2, <3>3, <3>4 DEF Loan!LoanNext, Loan!Lend
  <2>6. CASE YieldReturns
    <3>1. state # "HANDED" /\ runner = "woken" /\ runner' = "driving"
      BY <2>6 DEF YieldReturns, IInv, RunnerMatchesState
    <3>2. \A c \in Claimants : ~Granted(c) /\ ~Granted(c)'
      BY <2>6, <3>1 DEF YieldReturns, IInv, ClaimMatchesState, TypeOK
    <3>3. LoanHolder = Nobody /\ LoanHolder' = Runner
      BY <3>1, <3>2, HolderIs, HolderIsNext
    <3>4. ~unmanaged /\ unmanaged' = unmanaged
      BY <2>6, <3>1 DEF YieldReturns, IInv, RunnerMatchesState
    <3>5. QED BY <3>3, <3>4 DEF Loan!LoanNext, Loan!Reclaim
  <2>7. QED BY <1>1, <2>1, <2>2, <2>3, <2>4, <2>5, <2>6 DEF RunnerNext
<1>2. ASSUME NEW c \in Claimants, ClaimNext(c)
      PROVE  [Loan!LoanNext]_Loan!loanVars
  <2>1. CASE RequestGranted(c)
    <3>1. /\ Granted(c)' /\ unmanaged /\ unmanaged'
          /\ \A d \in Claimants : ~Granted(d)
          /\ ~RunnerDrives
      BY <2>1 DEF RequestGranted, IInv, TypeOK, ClaimMatchesState,
                  RunnerMatchesState
    <3>2. LoanHolder = Nobody /\ LoanHolder' = c
      BY <3>1, HolderIs, HolderIsNext
    <3>3. QED BY <3>1, <3>2 DEF Loan!LoanNext, Loan!Lend
  <2>2. CASE RequestQueued(c)
    BY <2>2, SameHolder
       DEF RequestQueued, IInv, TypeOK, ClaimMatchesState
  <2>3. CASE Expire(c)
    BY <2>3, SameHolder DEF Expire, IInv, TypeOK, ClaimMatchesState
  <2>4. CASE RequestReturns(c)
    BY <2>4, SameHolder
       DEF RequestReturns, WaitAgain, IInv, TypeOK, OneClaim, ClaimMatchesState
  <2>5. CASE UseRadio(c) BY <2>5, SameHolder DEF UseRadio
  <2>6. CASE Release(c)
    <3>1. /\ Granted(c) /\ unmanaged' = unmanaged
          /\ \A d \in Claimants : ~Granted(d)'
          /\ ~RunnerDrives'
      BY <2>6 DEF Release, WokenClaims, IInv, TypeOK, OneClaim,
                  ClaimMatchesState, RunnerMatchesState
    <3>2. LoanHolder = c /\ LoanHolder' = Nobody
      BY <3>1, HolderIs, HolderIsNext
    <3>3. QED BY <3>1, <3>2 DEF Loan!LoanNext, Loan!GiveBack
  <2>7. QED BY <1>2, <2>1, <2>2, <2>3, <2>4, <2>5, <2>6 DEF ClaimNext
<1>3. CASE UNCHANGED vars BY <1>3, SameHolder DEF vars
<1>4. QED BY <1>1, <1>2, <1>3 DEF Next

\* The handover implements the loan: a claimant gets the radio only from its
\* home, and it passes back through the runner before the next claimant.
THEOREM HandoverImplementsLoan == Spec => ImplementsLoan
<1>1. QED
  BY Invariance, InitRefines, StepRefines, PTL
     DEF Spec, ImplementsLoan, Loan!LoanSpec
=============================================================================
