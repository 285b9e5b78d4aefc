SPECIFICATION Spec
CONSTANTS
  alice = alice
  mallory = mallory
  u1 = u1
  u2 = u2
  u3 = u3
  u4 = u4
  u5 = u5
  Updates = {u1}
  Message <- MCOneChat
  NoMessage = NoMessage
  Users = {alice, mallory}
  NoUser = NoUser
  NoChat = NoChat
  AllowFrom = {alice}
  MaxAttempts = 1
  MaxCrashes = 0
INVARIANT MirrorsMarkdown
