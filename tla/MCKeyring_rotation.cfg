SPECIFICATION Spec
CONSTANTS
  f = f
  w = w
  a = a
  b = b
  User = {f, w}
  Device = {a, b}
  UserOf <- TwoUsers
  Nameless = {}
  Founder = f
  File = {"x"}
  MaxGen = 3
  MaxCommands = 6
  MaxIdentity = 2
INVARIANTS TypeOK LostOnlyByForks PersistedFirst Cutoff
CHECK_DEADLOCK FALSE
