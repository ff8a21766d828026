SPECIFICATION Spec
CONSTANTS
  c1 = c1 c2 = c2 u1 = u1 t1 = t1 t2 = t2
  Clients = {c1, c2}
  Users = {u1}
  Toks = {t1, t2}
  Conditions = {"match", "none"}
  MaxWrites = 3
SYMMETRY Symmetry
INVARIANTS TypeOK InSync AsTold
PROPERTIES ConditionsHold SecretsKept
