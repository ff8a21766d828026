SPECIFICATION Spec
CONSTANTS
  a1 = a1 a2 = a2 b = b o = o o2 = o2
  A = A B = B O = O
  alice = alice bob = bob oscar = oscar
  None = None
  Sessions = {a1, o}
  Ids = {A, O}
  Users = {alice, bob, oscar}
  IdOf <- TheIdOf
  UserOf <- TheUserOf
  OpUsers = {oscar}
  Autolock = FALSE
  Autokick = TRUE
  Redirected = FALSE
  MaxClients = 0
  MaxJoins = 1
  Messages = {"lock", "op", "kick", "leave", "update"}
  MaxActs = 1
CHECK_DEADLOCK FALSE
INVARIANT ViewExact
PROPERTY LastOpKicks
