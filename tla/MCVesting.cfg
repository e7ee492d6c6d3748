SPECIFICATION FairSpec
CONSTANTS
  Acme = Acme
  Dev = Dev
  Contract = Contract
  None = None
  Usdc = Usdc
  Users = {Acme, Dev}
  Tokens = {Usdc}
  Params <- MCParams
  Gifts = {3}
  InitialFunds <- MCInitialFunds
  MaxSchedules = 2
  MaxTime = 4
  MaxI128 = 5
CHECK_DEADLOCK FALSE
INVARIANTS
  TypeOK
  ClaimedWithinVested
  IndexesExact
  ShownIsPayable
PROPERTIES
  EntitlementKept
  EventuallySettled
  FundedEscrow
