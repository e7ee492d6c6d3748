SPECIFICATION FairSpec
CONSTANTS
  Ann = Ann
  Bob = Bob
  Testnet = Testnet
  Mainnet = Mainnet
  First = First
  Second = Second
  Accounts = {Ann, Bob}
  Networks = {Testnet, Mainnet}
  Required = Testnet
  Connects = {First, Second}
  Polls = {First, Second}
  MaxChanges = 2
  MaxFailures = 1
  None = None
INVARIANTS
  TypeOK
  OneConnection
  OneOutcome
PROPERTIES
  ConnectEnds
  EventuallyAccurate
