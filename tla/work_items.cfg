\* Two requests at a time on projects, tasks, comments and history, while
\* members come and go and workspaces are deleted.
SPECIFICATION Spec
CONSTANTS
  Nil = Nil
  u1 = u1  u2 = u2  w1 = w1  w2 = w2  p1 = p1  p2 = p2  p3 = p3
  t1 = t1  t2 = t2  c1 = c1  c2 = c2  s1 = s1  n1 = n1  r1 = r1  r2 = r2
  Users = {u1, u2}
  Workspaces = {w1, w2}
  Projects = {p1, p2, p3}
  Tasks = {t1, t2}
  Comments = {c1, c2}
  TaskStatuses = {s1, s2, s3}
  Names = {n1, n2}
  Requests = {r1, r2}
  FirstRole <- MCFirstRole
  Seed <- MCSeed
  Paths <- MCPaths
  Ops <- MCOps
  MaxRequests = 2
  MaxChanges = 1
INVARIANTS
  TypeOK
  NoOrphanItems
  OutsidersLeaveNoTrace
  ManagersStayAuthorized
  ProjectPagesCurrent
  TrailNamesEveryStatus
PROPERTIES
  EveryRequestAnswered
