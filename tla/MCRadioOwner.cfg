SPECIFICATION FairSpec
CONSTANTS
  Claimants <- SomeClaimants
  Runner = runner_thread
  Nobody = nobody
INVARIANTS
  Contract
  OneDriver
  NeverParkedInVain
PROPERTIES
  ImplementsLoan
  RunnerResumes
