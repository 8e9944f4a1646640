\* Two tasks, two columns, two own updates at a time.
SPECIFICATION Spec
CONSTANTS
  t1 = t1
  t2 = t2
  Nil = Nil
  Tasks <- MCTasks
  Seed <- MCSeed
  NumSlots = 2
  Loaded = {2}
  Filtered = TRUE
  NumStatuses = 2
  MaxEvents = 3
INVARIANTS
  TypeOK
  BoardShowsServer
  DetailShowsServer
PROPERTIES
  ColumnsLoad
