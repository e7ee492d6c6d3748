SPECIFICATION FairSpec
CONSTANTS
  Ann = Ann
  Bob = Bob
  Cat = Cat
  Contract = Contract
  None = None
  Usdc = Usdc
  Users = {Ann, Bob, Cat}
  Tokens = {Usdc}
  Admins = {Cat}
  Recipients = {Bob}
  Amounts <- MCAmounts
  SignerLists <- MCSignerLists
  Thresholds = {0, 1, 2, 3, 4}
  Gifts = {2}
  InitialFunds <- MCInitialFunds
  MaxProposals = 2
  MaxSigners = 3
CHECK_DEADLOCK FALSE
INVARIANTS
  TypeOK
  ApprovedByQuorum
  ThresholdAchievable
PROPERTIES
  ImplementsVault
  EventuallyPaid
