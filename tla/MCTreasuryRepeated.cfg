SPECIFICATION Spec
CONSTANTS
  Ann = Ann
  Bob = Bob
  Cat = Cat
  Contract = Contract
  None = None
  Usdc = Usdc
  Users = {Ann, Bob, Cat}
  Tokens = {Usdc}
  Admins = {Cat}
  Recipients = {Bob, Contract}
  Amounts <- MCAmounts
  SignerLists <- MCRepeatedSigners
  Thresholds = {0, 1, 2, 3, 4}
  Gifts = {}
  InitialFunds <- MCInitialFunds
  MaxProposals = 1
  MaxSigners = 3
CHECK_DEADLOCK FALSE
INVARIANTS
  ThresholdAchievable
