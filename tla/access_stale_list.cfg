\* May the list of a removed member keep showing the workspace?
SPECIFICATION Spec
CONSTANTS
  Nil = Nil
  Users = {u1, u2}
  Workspaces = {w1}
  Invites = {i1, i2}
  Names = {n1}
  Requests = {r1, r2}
  Ops = {"createWorkspace", "createInvite", "accept", "removeMember", "listWorkspaces"}
  Faults = FALSE
INVARIANTS
  ListsShowOwnWorkspaces
