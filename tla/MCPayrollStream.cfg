SPECIFICATION Spec
CONSTANTS
  Acme = Acme
  Dev = Dev
  Contract = Contract
  None = None
  Usdc = Usdc
  Users = {Acme, Dev}
  Tokens = {Usdc}
  Amounts <- MCAmounts
  Times = {1, 4}
  BatchSizes = {1, 2}
  Gifts = {}
  InitialFunds <- MCInitialFunds
  MaxStreams = 2
  MaxTime = 5
  MaxI128 = 100
CHECK_DEADLOCK FALSE
INVARIANTS
  TypeOK
  ClaimedIsAccrued
  CompletedAtEnd AllClaimableAtEnd
  IndexesExact
  Backed
PROPERTIES
  AgreementKept
  Escrow
