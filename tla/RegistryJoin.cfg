SPECIFICATION Spec
CONSTANTS
  s1 = s1
  Sessions = {s1}
  MaxVersions = 3
  MaxInstances = 2
INVARIANT JoinFindsGroup
