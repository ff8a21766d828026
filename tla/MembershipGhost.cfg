SPECIFICATION Spec
CONSTANTS
  a1 = a1 a2 = a2 b = b o = o o2 = o2
  A = A B = B O = O
  alice = alice bob = bob oscar = oscar
  None = None
  Sessions = {a1, b, o}
  Ids = {A, B, O}
  Users = {alice, bob, oscar}
  IdOf <- TheIdOf
  UserOf <- TheUserOf
  OpUsers = {oscar}
  Autolock = FALSE
  Autokick = FALSE
  Redirected = FALSE
  MaxClients = 0
  MaxJoins = 1
  Messages = {}
  MaxActs = 0
CHECK_DEADLOCK FALSE
INVARIANT RosterSound
