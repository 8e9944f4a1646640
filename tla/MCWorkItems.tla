----------------------------- MODULE MCWorkItems -----------------------------
(* WorkItems on a small instance: one user owns w1, the other is a member of *)
(* w1 and owns w2; each workspace has a project.                 *)
EXTENDS WorkItems

CONSTANTS u1, u2, w1, w2, p1, p2, p3, t1, t2, c1, c2, s1, n1, r1, r2

MCFirstRole == [p \in Workspaces \X Users |->
  IF p \in {<<w1, u1>>, <<w2, u2>>} THEN "OWNER"
  ELSE IF p = <<w1, u2>> THEN "MEMBER" ELSE "none"]

NoRow == [life |-> "unused", ws |-> Nil, by |-> Nil, name |-> Nil]
NoTask == [life |-> "unused", project |-> Nil, by |-> Nil, status |-> Nil,
           assignee |-> Nil, opened |-> Nil]
MCSeed == [
  project |-> [p \in Projects |->
    IF p = p3 THEN NoRow
    ELSE [life |-> "live", ws |-> IF p = p1 THEN w1 ELSE w2, by |-> u2, name |-> n1]],
  task |-> [t \in Tasks |->
    IF t = t2 THEN NoTask
    ELSE [life |-> "live", project |-> p1, by |-> u2,
          status |-> s1, assignee |-> Nil, opened |-> s1]],
  comment |-> [c \in Comments |->
    IF c = c2 THEN [life |-> "unused", task |-> Nil, by |-> Nil]
    ELSE [life |-> "live", task |-> t1, by |-> u2]]]

\* URLs that name a project of their workspace, one to be created, and one
\* that names a project of another workspace.
MCPaths == {<<w1, p1>>, <<w1, p3>>, <<w1, p2>>}

\* One request at a time writes projects or their pages.
MCOps == [r \in Requests |-> IF r = r1 THEN ProjectOps \cup TaskOps \cup CommentOps \cup HistoryOps
                              ELSE {"createTask", "updateTask", "removeTask"}]
=============================================================================
