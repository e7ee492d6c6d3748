SPECIFICATION FairSpec
CONSTANTS
  Ann = Ann
  Bob = Bob
  Cat = Cat
  None = None
  Users = {Ann, Bob, Cat}
  Admins = {Ann}
  Amounts <- MCAmounts
  MemberLists <- MCMemberLists
  Settings <- MCSettings
  MaxProposals = 1
  MaxMembers = 3
  MaxTime = 3
  MaxU32 = 200
  MaxU64 = 100
CHECK_DEADLOCK FALSE
INVARIANTS
  TypeOK
  TallyExact
  ApprovedByMajority
PROPERTIES
  ImplementsBallot
  ExpiredStaysDown
  EventuallyDecided
