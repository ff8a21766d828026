SPECIFICATION Spec
CONSTANTS
  a1 = a1 a2 = a2 b = b o = o o2 = o2
  A = A B = B O = O
  alice = alice bob = bob oscar = oscar
  None = None
  Sessions = {a1, a2, b}
  Ids = {A, B}
  Users = {alice, bob, oscar}
  IdOf <- TheIdOf
  UserOf <- TheUserOf
  OpUsers = {oscar}
  Autolock = FALSE
  Autokick = FALSE
  Redirected = FALSE
  MaxClients = 1
  MaxJoins = 2
  Messages = {}
  MaxActs = 0
CHECK_DEADLOCK FALSE
INVARIANTS ReplacedIsClosed Resumable NoGhost CapacityRespected
PROPERTY ReplacedGoes
