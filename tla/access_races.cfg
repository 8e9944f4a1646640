\* Two requests on the three tables, every interleaving of their awaits.
SPECIFICATION Spec
CONSTANTS
  Nil = Nil
  Users = {u1, u2}
  Workspaces = {w1}
  Invites = {i1, i2}
  Names = {n1}
  Requests = {r1, r2}
  Ops <- WriteOps
  Faults = FALSE
INVARIANTS
  TypeOK
  OnePendingInvite
  OneOwner
  NoOrphans
  WritesStayAuthorized
PROPERTIES
  AcceptIsEntry
  AnswerIsFinal
  ImplementsMembership
  EveryRequestAnswered
