SPECIFICATION Spec
CONSTANTS
  Client = {c1, c2}
  User = {u1, u2, u3}
  Record = {r1}
  Idle = Idle
  MaxSeq = 4
  MaxList = 2
  Contract = {"distinct"}
INVARIANTS Unique
