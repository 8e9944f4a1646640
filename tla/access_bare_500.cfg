\* May a race end in an unmapped database error?
SPECIFICATION Spec
CONSTANTS
  Nil = Nil
  Users = {u1, u2}
  Workspaces = {w1}
  Invites = {i1, i2}
  Names = {n1}
  Requests = {r1, r2}
  Ops <- WriteOps
  Faults = FALSE
INVARIANTS
  NoRaceIsA500
