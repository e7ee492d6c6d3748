SPECIFICATION Spec
CONSTANTS
  Acme = Acme
  Dev = Dev
  Contract = Contract
  None = None
  Usdc = Usdc
  Users = {Acme, Dev}
  Tokens = {Usdc}
  Params <- MCParams
  Gifts = {}
  InitialFunds <- MCInitialFunds
  MaxSchedules = 1
  MaxTime = 4
  MaxI128 = 100
CHECK_DEADLOCK FALSE
INVARIANTS
  RevokedStaysClaimable
