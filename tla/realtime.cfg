\* One tab opens and closes boards in two workspaces while its connection drops
\* and memberships change.
SPECIFICATION Spec
CONSTANTS
  Nil = Nil
  p1 = p1
  p2 = p2
  w1 = w1
  w2 = w2
  Projects = {p1, p2}
  Workspaces = {w1, w2}
  WorkspaceOf <- MCWorkspaceOf
  Paths <- MCPaths
  MaxEvents = 4
INVARIANTS
  TypeOK
  ConfirmedMeansInRoom
  OutsidersHearNothing
PROPERTIES
  VerifiedStayConnected
  JoinedOrTold
