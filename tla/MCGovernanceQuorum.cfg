SPECIFICATION Spec
CONSTANTS
  Ann = Ann
  Bob = Bob
  Cat = Cat
  None = None
  Users = {Ann, Bob, Cat}
  Admins = {Ann}
  Amounts <- MCAmounts
  MemberLists <- MCMemberLists
  Settings <- MCSafeSettings
  MaxProposals = 1
  MaxMembers = 3
  MaxTime = 3
  MaxU32 = 1000
  MaxU64 = 100
CHECK_DEADLOCK FALSE
PROPERTIES
  QuorumOfMembers
