\* Statements may throw, servers die between two awaits, Redis calls fail.
SPECIFICATION Spec
CONSTANTS
  Nil = Nil
  Users = {u1, u2}
  Workspaces = {w1}
  Invites = {i1}
  Names = {n1, n2}
  Requests = {r1, r2}
  Ops = {"createWorkspace", "renameWorkspace", "removeWorkspace", "createInvite",
         "accept", "decline", "listWorkspaces", "listInvites"}
  Faults = TRUE
SYMMETRY Symmetry
PROPERTIES
  OutdatedForAReason
