SPECIFICATION Spec
CONSTANTS
  Acme = Acme
  Dev = Dev
  Contract = Contract
  None = None
  Usdc = Usdc
  Users = {Acme, Dev}
  Tokens = {Usdc}
  Amounts = {3}
  Times = {1, 4}
  BatchSizes = {1}
  Gifts = {}
  InitialFunds <- MCInitialFunds
  MaxStreams = 2
  MaxTime = 5
  MaxI128 = 100
CHECK_DEADLOCK FALSE
INVARIANT AccruedIsPayable
