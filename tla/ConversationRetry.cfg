SPECIFICATION FairSpec
CONSTANTS
  alice = alice
  mallory = mallory
  u1 = u1
  u2 = u2
  u3 = u3
  u4 = u4
  u5 = u5
  Updates = {u1}
  Message <- MCOneChat
  NoMessage = NoMessage
  Users = {alice, mallory}
  NoUser = NoUser
  NoChat = NoChat
  AllowFrom = {alice}
  MaxAttempts = 2
  MaxCrashes = 2
INVARIANTS
  SentIsRecorded
  SettledIsComplete
  GapIsFailure
  OnlyOverlapsMix
PROPERTIES
  EveryUpdateEnds
  RequestsEnd
