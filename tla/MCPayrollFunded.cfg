SPECIFICATION FairSpec
CONSTANTS
  Acme = Acme
  Dev = Dev
  Contract = Contract
  None = None
  Usdc = Usdc
  Users = {Acme, Dev}
  Tokens = {Usdc}
  Amounts = {2, 3}
  Times = {1, 4}
  BatchSizes = {}
  Gifts = {1}
  InitialFunds <- MCInitialFunds
  MaxStreams = 2
  MaxTime = 5
  MaxI128 = 8
CHECK_DEADLOCK FALSE
INVARIANT AccruedIsPayable
PROPERTIES
  FundedEscrow
  EventuallySettled
