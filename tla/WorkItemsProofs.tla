--------------------------- MODULE WorkItemsProofs ---------------------------
(***************************************************************************)
(* Theorems about WorkItems for any sets of users, rows and requests: the  *)
(* cascade of deletes leaves nothing behind, whoever leaves a trace in a   *)
(* workspace was its member once, and what a handler was authorized to do  *)
(* it still is when its statement runs.                                    *)
(*                                                                         *)
(* A handler holds what its checks found (Sound).  That stays true while   *)
(* others write, because a row once inserted keeps its parent and its      *)
(* creator even when it is deleted, a member removed has still been one,   *)
(* and an owner stays one as long as the workspace lives (Keeps).          *)
(***************************************************************************)
EXTENDS WorkItems, TLAPS

RequestRecord ==
  [op : {"none"} \cup ProjectOps \cup TaskOps \cup CommentOps \cup HistoryOps,
   pc : PCs, actor : Users \cup {Nil}, ws : Workspaces \cup {Nil},
   project : Projects \cup {Nil}, task : Tasks \cup {Nil},
   comment : Comments \cup {Nil}, target : Users \cup {Nil},
   old : TaskStatuses \cup {Nil}, seen : SUBSET Rows, lists : SUBSET Users]

\* The types of the tables and of the rest.
TableTypes ==
  /\ live \subseteq Workspaces
  /\ role \in [Workspaces \X Users -> {"none", "MEMBER", "OWNER"}]
  /\ left \subseteq Workspaces \X Users
  /\ project \in [Projects -> ProjectRows]
  /\ task \in [Tasks -> TaskRows]
  /\ comment \in [Comments -> CommentRows]
  /\ history \in [Tasks -> Seq(HistoryRows)]
OtherTypes ==
  /\ cache \in [Key -> {Nil} \cup SUBSET Rows]
  /\ sent \in 0..MaxRequests /\ changes \in 0..MaxChanges

-----------------------------------------------------------------------------
(* What holds of every row ever inserted, deleted ones too.                *)

WorkspaceOf(t) == project[task[t].project].ws

ProjectRooted(p) ==
  /\ project[p].ws \in Workspaces /\ project[p].by \in Users
  /\ WasMember(project[p].ws, project[p].by)

TaskRooted(t) ==
  /\ task[t].project \in Projects /\ KnownProject(task[t].project)
  /\ task[t].status \in TaskStatuses /\ task[t].by \in Users
  /\ WasMember(WorkspaceOf(t), task[t].by)
  /\ task[t].assignee # Nil => WasMember(WorkspaceOf(t), task[t].assignee)
  /\ \A i \in DOMAIN history[t] : WasMember(WorkspaceOf(t), history[t][i].by)

CommentRooted(c) ==
  /\ comment[c].task \in Tasks /\ KnownTask(comment[c].task) /\ comment[c].by \in Users
  /\ WasMember(WorkspaceOf(comment[c].task), comment[c].by)

Rooted ==
  /\ \A p \in Projects : KnownProject(p) => ProjectRooted(p)
  /\ \A t \in Tasks : KnownTask(t) => TaskRooted(t)
  /\ \A c \in Comments : KnownComment(c) => CommentRooted(c)

DbInv == TableTypes /\ Rooted /\ NoOrphanItems

-----------------------------------------------------------------------------
(* What holds of a request q.                                              *)

ExistingProjectOps == {"findProject", "updateProject", "removeProject"}
ExistingTaskOps == {"findTask", "updateTask", "removeTask"}
ExistingCommentOps == {"updateComment", "removeComment"}
ManagerOps == {"updateProject", "removeProject", "removeTask",
               "updateComment", "removeComment"}

\* Its insert of a project is still to come.
Early == {"workspace", "member", "write"}

\* The ids it was sent with.
Ids(q) ==
  /\ q.op = "none" <=> q.pc = "answered"
  /\ q.op # "none" => q.actor \in Users /\ q.ws \in Workspaces
  /\ q.op \in ExistingProjectOps \cup TaskOps \cup CommentOps \cup HistoryOps =>
       q.project \in Projects /\ KnownProject(q.project)
  /\ q.op = "createProject" =>
       q.project \in Projects /\ (q.pc \in Early => ~KnownProject(q.project))
  /\ q.op \in ExistingTaskOps \cup CommentOps \cup HistoryOps =>
       q.task \in Tasks /\ KnownTask(q.task)
  /\ q.op = "createTask" => q.task \in Tasks /\ ~KnownTask(q.task)
  /\ q.op \in ExistingCommentOps => q.comment \in Comments /\ KnownComment(q.comment)
  /\ q.op = "createComment" => q.comment \in Comments /\ ~KnownComment(q.comment)

\* The awaits at which it can be found.
Stages(op, pc) ==
  /\ op = "createProject" =>
       pc \in {"workspace", "member", "write", "memberIds", "purgeLists"}
  /\ op \in {"listProjects", "findProject"} =>
       pc \in {"workspace", "member", "cacheGet", "read", "cacheSet"}
  /\ op \in {"updateProject", "removeProject"} =>
       pc \in {"workspace", "project", "manager", "write", "purgeDetail",
                 "memberIds", "purgeLists"}
  /\ op = "createTask" =>
       pc \in {"workspace", "project", "member", "assignee", "write"}
  /\ op = "listTasks" => pc \in {"workspace", "project", "member", "read"}
  /\ op = "findTask" => pc \in {"workspace", "project", "member", "task", "read"}
  /\ op = "updateTask" =>
       pc \in {"workspace", "project", "member", "task", "assignee", "write"}
  /\ op = "removeTask" => pc \in {"workspace", "project", "task", "manager", "write"}
  /\ op = "createComment" => pc \in {"workspace", "project", "task", "member", "write"}
  /\ op = "listComments" => pc \in {"workspace", "project", "task", "member", "read"}
  /\ op \in ExistingCommentOps =>
       pc \in {"workspace", "project", "task", "comment", "manager", "write"}
  /\ op = "listHistory" => pc \in {"workspace", "project", "task", "member", "read"}

InProject(q) == project[q.project].ws = q.ws
OnTask(q) == task[q.task].project = q.project
Admitted(q) == WasMember(q.ws, q.actor)

CreatorOf(q) == CASE q.op \in ProjectOps -> project[q.project].by
                  [] q.op \in TaskOps    -> task[q.task].by
                  [] OTHER               -> comment[q.comment].by

\* What its checks have found by the await pc.
Checked(q, pc) ==
  /\ q.op = "createProject" /\ pc = "write" => Admitted(q)
  /\ q.op = "createTask" =>
       /\ pc \in {"member", "assignee", "write"} => InProject(q)
       /\ pc \in {"assignee", "write"} => Admitted(q)
  /\ q.op = "updateTask" =>
       /\ pc \in {"member", "task", "assignee", "write"} => InProject(q)
       /\ pc \in {"task", "assignee", "write"} => Admitted(q)
       /\ pc \in {"assignee", "write"} => OnTask(q) /\ q.old \in TaskStatuses
  /\ q.op \in {"createTask", "updateTask"} /\ pc = "write" /\ q.target # Nil =>
       WasMember(q.ws, q.target)
  /\ q.op = "createComment" =>
       /\ pc \in {"task", "member", "write"} => InProject(q)
       /\ pc \in {"member", "write"} => OnTask(q)
       /\ pc = "write" => Admitted(q)
  /\ q.op \in ManagerOps /\ pc = "write" =>
       CreatorOf(q) = q.actor \/ IsOwner(q.ws, q.actor) \/ q.ws \notin live

Sound(q) == Ids(q) /\ Stages(q.op, q.pc) /\ Checked(q, q.pc)

\* The id of a row to be inserted is in no other request.
FreshIds ==
  \A r \in Requests, s \in Requests : r # s =>
    /\ req[r].op = "createProject" /\ req[r].pc \in Early =>
         req[s].project # req[r].project
    /\ req[r].op = "createTask" => req[s].task # req[r].task
    /\ req[r].op = "createComment" => req[s].comment # req[r].comment

IInv ==
  /\ DbInv /\ OtherTypes /\ FreshIds
  /\ req \in [Requests -> RequestRecord]
  /\ \A r \in Requests : Sound(req[r])

-----------------------------------------------------------------------------
(* Steps of one request that leave the tables alone.                       *)

\* A free slot is in order.
LEMMA FreeSound == Free \in RequestRecord /\ Sound(Free) /\ Sound(Free)'
  BY DEF Free, RequestRecord, PCs, Rows, Sound, Ids, Stages, Checked, ProjectOps, TaskOps,
         CommentOps, HistoryOps, ExistingProjectOps, ExistingTaskOps, ExistingCommentOps,
         ManagerOps

\* Request r keeps its ids in record q, or becomes free.
SameIds(r, q) ==
  \/ q = Free
  \/ /\ q.op = req[r].op /\ q.project = req[r].project
     /\ q.task = req[r].task /\ q.comment = req[r].comment
     /\ q.op = "createProject" /\ q.pc \in Early => req[r].pc \in Early

\* Ids that are kept stay its own.
LEMMA SameIdsFresh ==
  ASSUME IInv, NEW r \in Requests, NEW q \in RequestRecord, SameIds(r, q),
         req' = [req EXCEPT ![r] = q]
  PROVE  FreshIds'
<1>1. \A s \in Requests : /\ req[s].op = "createProject" => req[s].project # Nil
                          /\ req[s].op = "createTask" => req[s].task # Nil
                          /\ req[s].op = "createComment" => req[s].comment # Nil
  BY NilAssumption DEF IInv, Sound, Ids, TaskOps, CommentOps
<1>2. \A s \in Requests : req'[s] = IF s = r THEN q ELSE req[s]
  BY DEF IInv
<1>3. CASE q = Free
  <2>1. q.op = "none" /\ q.project = Nil /\ q.task = Nil /\ q.comment = Nil
    BY <1>3 DEF Free
  <2> QED BY <1>1, <1>2, <2>1 DEF IInv, FreshIds
<1>4. CASE q # Free
  BY <1>2, <1>4 DEF IInv, FreshIds, SameIds
<1> QED BY <1>3, <1>4

\* With the tables, a request's facts stay as they are.
LEMMA TablesKept ==
  ASSUME DbInv, UNCHANGED <<live, role, left, tables>> PROVE DbInv'
<1>1. /\ live' = live /\ role' = role /\ left' = left /\ project' = project
      /\ task' = task /\ comment' = comment /\ history' = history
  BY DEF tables
<1>2. TableTypes' /\ NoOrphanItems'
  BY <1>1 DEF DbInv, TableTypes, NoOrphanItems
<1>3. Rooted'
  BY <1>1 DEF DbInv, Rooted, KnownProject, KnownTask, KnownComment, ProjectRooted, TaskRooted,
              CommentRooted, WorkspaceOf, WasMember, IsMember
<1> QED BY <1>2, <1>3 DEF DbInv

\* Request r goes on with record q.
LEMMA SlotStep ==
  ASSUME IInv, NEW r \in Requests, NEW q \in RequestRecord,
         UNCHANGED <<live, role, left, tables>>, OtherTypes',
         req' = [req EXCEPT ![r] = q], Sound(q), SameIds(r, q)
  PROVE  IInv'
<1>1. DbInv'
  BY TablesKept DEF IInv
<1>2. req' \in [Requests -> RequestRecord] /\ FreshIds'
  BY SameIdsFresh DEF IInv
<1>3. ASSUME NEW s \in Requests PROVE Sound(req[s])'
  <2> DEFINE x == IF s = r THEN q ELSE req[s]
  <2>1. req'[s] = x
    BY DEF IInv
  <2>2. Sound(x)
    BY DEF IInv
  <2>3. /\ live' = live /\ role' = role /\ left' = left /\ project' = project
        /\ task' = task /\ comment' = comment
    BY DEF tables
  <2> HIDE DEF x
  <2>4. Ids(req[s])'
    BY <2>1, <2>2, <2>3 DEF Sound, Ids, KnownProject, KnownTask, KnownComment
  <2>5. Stages(req[s].op, req[s].pc)'
    BY <2>1, <2>2 DEF Sound, Stages
  <2>6. Checked(req[s], req[s].pc)'
    BY <2>1, <2>2, <2>3 DEF Sound, Checked, InProject, OnTask, Admitted, CreatorOf, WasMember,
                            IsMember, IsOwner
  <2> QED BY <2>4, <2>5, <2>6 DEF Sound
<1> QED BY <1>1, <1>2, <1>3 DEF IInv

\* A request that is answered.
LEMMA AnswerStep ==
  ASSUME IInv, NEW r \in Requests, Answer(r),
         UNCHANGED <<live, role, left, tables>>, OtherTypes'
  PROVE  IInv'
  BY FreeSound, SlotStep DEF Answer, SameIds

\* The record of a handler that goes on to another await.
LEMMA Moved ==
  ASSUME IInv, NEW r \in Requests, NEW pc \in PCs \ {"answered"}, ~IsFree(r),
         req[r].op = "createProject" /\ pc \in Early => req[r].pc \in Early
  PROVE  LET q == [req[r] EXCEPT !.pc = pc] IN
         /\ q \in RequestRecord /\ Ids(q) /\ SameIds(r, q)
         /\ q.pc = pc /\ q.op = req[r].op /\ q.actor = req[r].actor /\ q.ws = req[r].ws
         /\ q.project = req[r].project /\ q.task = req[r].task
         /\ q.comment = req[r].comment /\ q.target = req[r].target /\ q.old = req[r].old
<1> DEFINE q == [req[r] EXCEPT !.pc = pc]
<1>1. req[r] \in RequestRecord /\ Ids(req[r])
  BY DEF IInv, Sound
<1>2. /\ q \in RequestRecord
      /\ q.pc = pc /\ q.op = req[r].op /\ q.actor = req[r].actor /\ q.ws = req[r].ws
      /\ q.project = req[r].project /\ q.task = req[r].task
      /\ q.comment = req[r].comment /\ q.target = req[r].target /\ q.old = req[r].old
  BY <1>1 DEF RequestRecord
<1> HIDE DEF q
<1>3. Ids(q)
  BY <1>1, <1>2 DEF Ids, IsFree
<1>4. SameIds(r, q)
  BY <1>2 DEF SameIds
<1> QED BY <1>2, <1>3, <1>4 DEF q

\* A handler that goes on to another await.
LEMMA GotoStep ==
  ASSUME IInv, NEW r \in Requests, NEW pc \in PCs \ {"answered"}, ~IsFree(r), Goto(r, pc),
         req[r].op = "createProject" /\ pc \in Early => req[r].pc \in Early,
         Stages(req[r].op, pc), Checked(req[r], pc),
         UNCHANGED <<live, role, left, tables>>, OtherTypes'
  PROVE  IInv'
<1> DEFINE q == [req[r] EXCEPT !.pc = pc]
<1>1. /\ q \in RequestRecord /\ Ids(q) /\ SameIds(r, q)
      /\ q.pc = pc /\ q.op = req[r].op /\ q.actor = req[r].actor /\ q.ws = req[r].ws
      /\ q.project = req[r].project /\ q.task = req[r].task
      /\ q.comment = req[r].comment /\ q.target = req[r].target /\ q.old = req[r].old
  BY Moved
<1>2. req' = [req EXCEPT ![r] = q]
  BY DEF Goto
<1> HIDE DEF q
<1>3. Stages(q.op, q.pc)
  BY <1>1
<1>4. Checked(q, q.pc)
  BY <1>1 DEF Checked, InProject, OnTask, Admitted, CreatorOf
<1> QED BY <1>1, <1>2, <1>3, <1>4, SlotStep DEF Sound

-----------------------------------------------------------------------------
(* The checks.                                                             *)

\* What the invariant says of a request that is not free.
LEMMA RequestFacts ==
  ASSUME IInv, NEW r \in Requests
  PROVE  /\ req[r] \in RequestRecord /\ Ids(req[r])
         /\ Stages(req[r].op, req[r].pc) /\ Checked(req[r], req[r].pc)
  BY DEF IInv, Sound

\* A check passes, and the handler goes on to the await next, or it answers.
LEMMA CheckStep ==
  ASSUME IInv, NEW r \in Requests, NEW next \in PCs \ {"answered"}, ~IsFree(r),
         UNCHANGED <<members, tables, cache, sent>>,
         \/ Answer(r)
         \/ /\ Goto(r, next)
            /\ req[r].op = "createProject" /\ next \in Early => req[r].pc \in Early
            /\ Stages(req[r].op, next) /\ Checked(req[r], next)
  PROVE  IInv'
<1>1. UNCHANGED <<live, role, left, tables>> /\ OtherTypes'
  BY DEF members, IInv, OtherTypes
<1> QED BY <1>1, AnswerStep, GotoStep

\* The checks of ProjectsService.
LEMMA ProjectCheckStep ==
  ASSUME IInv, NEW r \in Requests, ProjectCheck(r) PROVE IInv'
<1> DEFINE op == req[r].op
           next == ProjectFlow(op, req[r].pc)
<1>1. op \in ProjectOps /\ Stages(op, req[r].pc)
  BY RequestFacts DEF ProjectCheck
<1>2. /\ UNCHANGED <<members, tables, cache, sent>>
      /\ req[r].pc \in {"workspace", "member", "project", "manager"}
      /\ Answer(r) \/ Goto(r, next)
  BY DEF ProjectCheck, Check, At
<1>3. /\ next \in PCs \ {"answered"} /\ ~IsFree(r) /\ Stages(op, next)
      /\ op = "createProject" /\ next \in Early => req[r].pc \in Early
      /\ next = "write" => \/ op = "createProject" /\ req[r].pc = "member"
                           \/ req[r].pc = "manager"
  <2>1. CASE req[r].pc = "workspace"
    <3>1. next = IF op \in {"updateProject", "removeProject"} THEN "project" ELSE "member"
      BY <2>1 DEF ProjectFlow
    <3> QED BY <1>1, <2>1, <3>1 DEF ProjectOps, PCs, IsFree, Stages, Early,
                                          ExistingCommentOps
  <2>2. CASE req[r].pc = "member"
    <3>1. next = IF op = "createProject" THEN "write" ELSE "cacheGet"
      BY <2>2 DEF ProjectFlow
    <3> QED BY <1>1, <2>2, <3>1 DEF ProjectOps, PCs, IsFree, Stages, Early,
                                          ExistingCommentOps
  <2>3. CASE req[r].pc = "project"
    <3>1. next = "manager"
      BY <2>3 DEF ProjectFlow
    <3> QED BY <1>1, <2>3, <3>1 DEF ProjectOps, PCs, IsFree, Stages, Early,
                                          ExistingCommentOps
  <2>4. CASE req[r].pc = "manager"
    <3>1. next = "write"
      BY <2>4 DEF ProjectFlow
    <3> QED BY <1>1, <2>4, <3>1 DEF ProjectOps, PCs, IsFree, Stages, Early,
                                          ExistingCommentOps
  <2> QED BY <1>2, <2>1, <2>2, <2>3, <2>4
<1>4. Goto(r, next) => Answer(r) \/ Checked(req[r], next)
  <2>1. CASE next # "write"
    BY <1>1, <2>1 DEF Checked, ProjectOps
  <2>2. CASE op = "createProject" /\ req[r].pc = "member"
    <3>1. Goto(r, next) => Answer(r) \/ IsMember(req[r].ws, req[r].actor)
      BY <2>2 DEF ProjectCheck, Check, At
    <3> QED BY <2>2, <3>1 DEF Checked, Admitted, WasMember, ManagerOps
  <2>3. CASE req[r].pc = "manager" /\ op # "createProject"
    <3>1. Goto(r, next) =>
            Answer(r) \/ MayManage(project[req[r].project].by, req[r].ws, req[r].actor)
      BY <2>3 DEF ProjectCheck, Check, At
    <3>2. CreatorOf(req[r]) = project[req[r].project].by
      BY <1>1 DEF CreatorOf, ProjectOps, TaskOps
    <3>3. op \in {"listProjects", "findProject", "updateProject", "removeProject"}
      BY <1>1, <2>3 DEF ProjectOps
    <3> QED BY <3>1, <3>2, <3>3 DEF Checked, MayManage
  <2> QED BY <2>1, <2>2, <2>3, <1>1, <1>3 DEF Stages
<1> HIDE DEF next
<1> QED BY <1>1, <1>2, <1>3, <1>4, CheckStep

\* The checks of TasksService.
LEMMA TaskCheckStep ==
  ASSUME IInv, NEW r \in Requests, TaskCheck(r) PROVE IInv'
<1> DEFINE op == req[r].op
           next == TaskFlow(op, req[r].pc)
<1>1. op \in TaskOps /\ Stages(op, req[r].pc) /\ Checked(req[r], req[r].pc)
  BY RequestFacts DEF TaskCheck
<1>2. /\ UNCHANGED <<members, tables, cache, sent>>
      /\ req[r].pc \in {"workspace", "member", "project", "manager"}
      /\ Answer(r) \/ Goto(r, next)
  BY DEF TaskCheck, Check, At
<1>3. /\ next \in PCs \ {"answered"} /\ ~IsFree(r) /\ Stages(op, next)
      /\ req[r].pc = "workspace" => next = "project"
      /\ req[r].pc = "project" => next \in {"task", "member"}
      /\ req[r].pc = "member" => next \in {"task", "assignee", "read"}
      /\ req[r].pc = "manager" => next = "write" /\ op = "removeTask"
  <2>1. CASE req[r].pc = "workspace"
    <3>1. next = "project"
      BY <2>1 DEF TaskFlow
    <3> QED BY <1>1, <2>1, <3>1 DEF TaskOps, PCs, IsFree, Stages, ExistingCommentOps
  <2>2. CASE req[r].pc = "project"
    <3>1. next = IF op = "removeTask" THEN "task" ELSE "member"
      BY <2>2 DEF TaskFlow
    <3> QED BY <1>1, <2>2, <3>1 DEF TaskOps, PCs, IsFree, Stages, ExistingCommentOps
  <2>3. CASE req[r].pc = "member"
    <3>1. next = IF op = "createTask" THEN "assignee"
                 ELSE IF op = "listTasks" THEN "read" ELSE "task"
      BY <2>3 DEF TaskFlow
    <3> QED BY <1>1, <2>3, <3>1 DEF TaskOps, PCs, IsFree, Stages, ExistingCommentOps
  <2>4. CASE req[r].pc = "manager"
    <3>1. next = "write"
      BY <2>4 DEF TaskFlow
    <3> QED BY <1>1, <2>4, <3>1 DEF TaskOps, PCs, IsFree, Stages, ExistingCommentOps
  <2> QED BY <1>2, <2>1, <2>2, <2>3, <2>4
<1>4. Goto(r, next) => Answer(r) \/ Checked(req[r], next)
  <2>1. CASE req[r].pc = "workspace"
    BY <2>1, <1>3 DEF Checked
  <2>2. CASE req[r].pc = "project"
    <3>1. Goto(r, next) => Answer(r) \/ ProjectIn(req[r].project, req[r].ws)
      BY <2>2 DEF TaskCheck, Check, At
    <3>2. op = "updateTask" => next = "member"
      BY <2>2 DEF TaskFlow
    <3> QED BY <1>1, <1>3, <2>2, <3>1, <3>2 DEF Checked, ProjectIn, InProject, TaskOps
  <2>3. CASE req[r].pc = "member"
    <3>1. Goto(r, next) => Answer(r) \/ IsMember(req[r].ws, req[r].actor)
      BY <2>3 DEF TaskCheck, Check, At
    <3>2. op = "updateTask" => next = "task"
      BY <2>3 DEF TaskFlow
    <3> QED BY <1>1, <1>3, <2>3, <3>1, <3>2 DEF Checked, Admitted, WasMember, TaskOps
  <2>4. CASE req[r].pc = "manager"
    <3>1. Goto(r, next) =>
            Answer(r) \/ MayManage(task[req[r].task].by, req[r].ws, req[r].actor)
      BY <2>4 DEF TaskCheck, Check, At
    <3> QED BY <1>3, <2>4, <3>1 DEF Checked, MayManage, CreatorOf, TaskOps, ProjectOps
  <2> QED BY <1>2, <2>1, <2>2, <2>3, <2>4
<1> HIDE DEF next
<1> QED BY <1>1, <1>2, <1>3, <1>4, CheckStep DEF TaskOps

\* The checks of CommentsService.
LEMMA CommentCheckStep ==
  ASSUME IInv, NEW r \in Requests, CommentCheck(r) PROVE IInv'
<1> DEFINE op == req[r].op
           next == CommentFlow(op, req[r].pc)
<1>1. op \in CommentOps /\ Stages(op, req[r].pc) /\ Checked(req[r], req[r].pc)
  BY RequestFacts DEF CommentCheck
<1>2. /\ UNCHANGED <<members, tables, cache, sent>>
      /\ req[r].pc \in {"workspace", "project", "task", "comment", "member", "manager"}
      /\ Answer(r) \/ Goto(r, next)
  BY DEF CommentCheck, Check, At
<1>3. /\ next \in PCs \ {"answered"} /\ ~IsFree(r) /\ Stages(op, next)
      /\ req[r].pc = "workspace" => next = "project"
      /\ req[r].pc = "project" => next = "task"
      /\ req[r].pc = "task" => next \in {"member", "comment"}
      /\ req[r].pc = "comment" => next = "manager"
      /\ req[r].pc = "member" => next \in {"write", "read"} /\ op \notin ManagerOps
      /\ req[r].pc = "manager" => next = "write" /\ op \in ExistingCommentOps
  BY <1>1, <1>2 DEF CommentFlow, CommentOps, PCs, IsFree, Stages, ManagerOps, ExistingCommentOps
<1>4. Goto(r, next) => Answer(r) \/ Checked(req[r], next)
  <2>1. CASE req[r].pc \in {"workspace", "comment"}
    BY <1>1, <2>1, <1>3 DEF Checked, CommentOps, Stages
  <2>2. CASE req[r].pc = "project"
    <3>1. Goto(r, next) => Answer(r) \/ ProjectIn(req[r].project, req[r].ws)
      BY <2>2 DEF CommentCheck, Check, At
    <3> QED BY <1>1, <1>3, <2>2, <3>1 DEF Checked, ProjectIn, InProject, CommentOps
  <2>3. CASE req[r].pc = "task"
    <3>1. Goto(r, next) => Answer(r) \/ TaskIn(req[r].task, req[r].project)
      BY <2>3 DEF CommentCheck, Check, At
    <3> QED BY <1>1, <1>3, <2>3, <3>1 DEF Checked, TaskIn, OnTask, CommentOps
  <2>4. CASE req[r].pc = "member"
    <3>1. Goto(r, next) => Answer(r) \/ IsMember(req[r].ws, req[r].actor)
      BY <2>4 DEF CommentCheck, Check, At
    <3> QED BY <1>1, <1>3, <2>4, <3>1 DEF Checked, Admitted, WasMember, CommentOps
  <2>5. CASE req[r].pc = "manager"
    <3>1. Goto(r, next) =>
            Answer(r) \/ MayManage(comment[req[r].comment].by, req[r].ws, req[r].actor)
      BY <2>5 DEF CommentCheck, Check, At
    <3> QED BY <1>3, <2>5, <3>1
            DEF Checked, MayManage, CreatorOf, ExistingCommentOps, TaskOps, ProjectOps
  <2> QED BY <1>2, <2>1, <2>2, <2>3, <2>4, <2>5
<1> HIDE DEF next
<1> QED BY <1>1, <1>2, <1>3, <1>4, CheckStep DEF CommentOps

\* The checks of HistoryService: nothing it finds is used for a write.
LEMMA HistoryCheckStep ==
  ASSUME IInv, NEW r \in Requests, HistoryCheck(r) PROVE IInv'
<1> DEFINE op == req[r].op
           next == HistoryFlow(op, req[r].pc)
<1>1. op = "listHistory" /\ Stages(op, req[r].pc)
  BY RequestFacts DEF HistoryCheck, HistoryOps
<1>2. /\ UNCHANGED <<members, tables, cache, sent>>
      /\ req[r].pc \in {"workspace", "project", "task", "member"}
      /\ Answer(r) \/ Goto(r, next)
  BY DEF HistoryCheck, Check, At
<1>3. next \in PCs \ {"answered"} /\ ~IsFree(r) /\ Stages(op, next)
  BY <1>1, <1>2 DEF HistoryFlow, PCs, IsFree, Stages, ExistingCommentOps
<1>4. Checked(req[r], next)
  BY <1>1 DEF Checked, ManagerOps
<1> HIDE DEF next
<1> QED BY <1>1, <1>2, <1>3, <1>4, CheckStep

\* Which handlers come to the awaits that only some do.
LEMMA OpsAt ==
  ASSUME IInv, NEW r \in Requests
  PROVE  /\ At(r, "assignee") => req[r].op \in {"createTask", "updateTask"}
         /\ At(r, "cacheGet") => req[r].op \in {"listProjects", "findProject"}
         /\ At(r, "purgeDetail") => req[r].op \in {"updateProject", "removeProject"}
         /\ At(r, "memberIds") =>
              req[r].op \in {"createProject", "updateProject", "removeProject"}
<1> DEFINE op == req[r].op
           pc == req[r].pc
<1>1. op \in {"none"} \cup ProjectOps \cup TaskOps \cup CommentOps \cup HistoryOps
  BY RequestFacts DEF RequestRecord
<1>2. pc # "answered" => op # "none"
  BY RequestFacts DEF Ids
<1>3. Stages(op, pc)
  BY RequestFacts
<1> HIDE DEF op, pc
<1>4. /\ pc = "assignee" => op \in {"createTask", "updateTask"}
      /\ pc = "cacheGet" => op \in {"listProjects", "findProject"}
      /\ pc = "purgeDetail" => op \in {"updateProject", "removeProject"}
      /\ pc = "memberIds" => op \in {"createProject", "updateProject", "removeProject"}
  BY <1>1, <1>2, <1>3 DEF Stages, ProjectOps, TaskOps, CommentOps, HistoryOps,
                          ExistingCommentOps
<1> QED BY <1>4 DEF At, op, pc

\* getTaskOrThrow in TasksService: an update goes on with the status it read.
LEMMA GetTaskStep ==
  ASSUME IInv, NEW r \in Requests, GetTask(r) PROVE IInv'
<1> DEFINE op == req[r].op
           t == req[r].task
           next == TaskFlow(op, "task")
           q == [req[r] EXCEPT !.pc = next,
                               !.old = IF op = "updateTask" THEN task[t].status ELSE Nil]
<1>1. /\ op \in TaskOps /\ req[r].pc = "task" /\ req[r] \in RequestRecord
      /\ Ids(req[r]) /\ Stages(op, "task") /\ Checked(req[r], "task")
  BY RequestFacts DEF GetTask, At
<1>2. UNCHANGED <<live, role, left, tables>> /\ OtherTypes'
  BY DEF GetTask, members, IInv, OtherTypes
<1>3. op \in {"findTask", "updateTask", "removeTask"}
  BY <1>1 DEF Stages, TaskOps
<1>4. CASE TaskIn(t, req[r].project)
  <2>1. next = CASE op = "updateTask" -> "assignee" [] op = "removeTask" -> "manager"
                 [] op = "findTask" -> "read"
    BY DEF TaskFlow
  <2>2. /\ op = "updateTask" => next = "assignee"
        /\ op = "removeTask" => next = "manager"
        /\ op = "findTask" => next = "read"
    BY <2>1
  <2> HIDE DEF next
  <2>3. t \in Tasks /\ KnownTask(t)
    BY <1>1, <1>3 DEF Ids, ExistingTaskOps
  <2>4. task[t].status \in TaskStatuses
    BY <2>3 DEF IInv, DbInv, Rooted, TaskRooted
  <2>5. next \in PCs \ {"answered"}
    BY <1>3, <2>2 DEF PCs
  <2>6. /\ q \in RequestRecord
        /\ q.pc = next /\ q.op = op /\ q.actor = req[r].actor /\ q.ws = req[r].ws
        /\ q.project = req[r].project /\ q.task = t /\ q.comment = req[r].comment
        /\ op = "updateTask" => q.old = task[t].status
    BY <1>1, <2>4, <2>5 DEF RequestRecord
  <2>7. req' = [req EXCEPT ![r] = q]
    BY <1>4 DEF GetTask, Doing, next
  <2> HIDE DEF q
  <2>8. Ids(q)
    BY <1>1, <1>3, <2>5, <2>6 DEF Ids
  <2>9. Stages(q.op, q.pc)
    BY <1>3, <2>2, <2>6 DEF Stages, ExistingCommentOps
  <2>10. Checked(q, q.pc)
    <3>1. CASE op = "updateTask"
      <4>1. InProject(req[r]) /\ Admitted(req[r])
        BY <1>1, <3>1 DEF Checked
      <4>2. InProject(q) /\ Admitted(q) /\ OnTask(q) /\ q.old \in TaskStatuses
        BY <4>1, <1>4, <2>4, <2>6, <3>1 DEF InProject, Admitted, OnTask, TaskIn
      <4> QED BY <4>2, <2>2, <2>6, <3>1 DEF Checked, ManagerOps
    <3>2. CASE op # "updateTask"
      BY <3>2, <1>3, <2>2, <2>6 DEF Checked
    <3> QED BY <3>1, <3>2
  <2>11. SameIds(r, q)
    BY <1>3, <2>6 DEF SameIds
  <2> QED BY <1>2, <2>6, <2>7, <2>8, <2>9, <2>10, <2>11, SlotStep DEF Sound
<1>5. CASE ~TaskIn(t, req[r].project)
  BY <1>2, <1>5, AnswerStep DEF GetTask
<1> QED BY <1>4, <1>5

\* The assignee is a member when it is looked up.
LEMMA AssertAssigneeStep ==
  ASSUME IInv, NEW r \in Requests, AssertAssignee(r) PROVE IInv'
<1> DEFINE op == req[r].op
<1>1. /\ req[r].pc = "assignee" /\ req[r] \in RequestRecord
      /\ Ids(req[r]) /\ Stages(op, "assignee") /\ Checked(req[r], "assignee")
  BY RequestFacts DEF AssertAssignee, At
<1>2. UNCHANGED <<live, role, left, tables>> /\ OtherTypes'
  BY DEF AssertAssignee, members, IInv, OtherTypes
<1>3. op \in {"createTask", "updateTask"}
  BY OpsAt DEF AssertAssignee
<1>4. PICK u \in Users \cup {Nil} :
        IF u = Nil \/ IsMember(req[r].ws, u)
          THEN req' = [req EXCEPT ![r].pc = "write", ![r].target = u]
          ELSE Answer(r)
  BY DEF AssertAssignee
<1>5. CASE u = Nil \/ IsMember(req[r].ws, u)
  <2> DEFINE q == [req[r] EXCEPT !.pc = "write", !.target = u]
  <2>a. "write" \in PCs
    BY DEF PCs
  <2>b. q \in RequestRecord
    BY <1>1, <2>a DEF RequestRecord
  <2>1. /\ q \in RequestRecord
        /\ q.pc = "write" /\ q.op = op /\ q.actor = req[r].actor /\ q.ws = req[r].ws
        /\ q.project = req[r].project /\ q.task = req[r].task
        /\ q.comment = req[r].comment /\ q.old = req[r].old /\ q.target = u
    BY <1>1, <2>b DEF RequestRecord
  <2>2. req' = [req EXCEPT ![r] = q]
    BY <1>4, <1>5
  <2> HIDE DEF q
  <2>3. Ids(q)
    BY <1>1, <1>3, <2>1 DEF Ids
  <2>4. Stages(q.op, q.pc)
    BY <1>3, <2>1 DEF Stages, ExistingCommentOps
  <2>5. Checked(q, q.pc)
    BY <1>1, <1>3, <1>5, <2>1
    DEF Checked, InProject, OnTask, Admitted, WasMember, ManagerOps
  <2>6. SameIds(r, q)
    BY <1>3, <2>1 DEF SameIds
  <2> QED BY <1>2, <2>1, <2>2, <2>3, <2>4, <2>5, <2>6, SlotStep DEF Sound
<1>6. CASE ~(u = Nil \/ IsMember(req[r].ws, u))
  BY <1>2, <1>4, <1>6, AnswerStep
<1> QED BY <1>5, <1>6

\* A read that ends in the answer.
LEMMA ReadStep ==
  ASSUME IInv, NEW r \in Requests, Read(r) PROVE IInv'
  BY AnswerStep DEF Read, members, IInv, OtherTypes

-----------------------------------------------------------------------------
(* Redis.                                                                  *)

\* A page is answered, or its query comes next.
LEMMA CacheGetStep ==
  ASSUME IInv, NEW r \in Requests, CacheGet(r) PROVE IInv'
<1>1. /\ req[r].pc = "cacheGet" /\ UNCHANGED <<members, tables, cache, sent>>
      /\ Answer(r) \/ Goto(r, "read")
  BY DEF CacheGet, At
<1>3. req[r].op \in {"listProjects", "findProject"}
  BY OpsAt DEF CacheGet
<1>4. Stages(req[r].op, "read") /\ Checked(req[r], "read")
  BY <1>3 DEF Stages, Checked, ExistingCommentOps
<1> QED BY <1>1, <1>3, <1>4, CheckStep DEF PCs, IsFree

\* The key of a request's page, and what the query behind it can return.
LEMMA QueryType ==
  ASSUME IInv, NEW r \in Requests, req[r].op \in {"listProjects", "findProject"}
  PROVE  Query(PageKey(r)) \in SUBSET Rows
<1>1. project \in [Projects -> ProjectRows]
  BY DEF IInv, DbInv, TableTypes
<1>2. \A p \in Projects : <<p, project[p].name>> \in Rows
  BY <1>1 DEF ProjectRows, Rows
<1>3. CASE req[r].op = "findProject"
  <2>1. PageKey(r) = <<"detail", req[r].ws, req[r].project>>
    BY <1>3 DEF PageKey, Doing
  <2>2. PageKey(r)[1] = "detail" /\ PageKey(r)[3] = req[r].project
    BY <2>1
  <2>3. req[r].project \in Projects
    BY <1>3, RequestFacts DEF Ids, ExistingProjectOps
  <2> QED BY <1>2, <2>2, <2>3 DEF Query
<1>4. CASE req[r].op # "findProject"
  <2>1. PageKey(r) = <<"list", req[r].ws, req[r].actor>>
    BY <1>4 DEF PageKey, Doing
  <2>2. PageKey(r)[1] # "detail"
    BY <2>1
  <2> QED BY <1>2, <2>2 DEF Query
<1> QED BY <1>3, <1>4

\* The query of a page.
LEMMA QueryProjectsStep ==
  ASSUME IInv, NEW r \in Requests, QueryProjects(r) PROVE IInv'
<1> DEFINE seen == Query(PageKey(r))
           q == [req[r] EXCEPT !.pc = "cacheSet", !.seen = seen]
<1>1. /\ req[r].op \in {"listProjects", "findProject"} /\ req[r] \in RequestRecord
      /\ req[r].pc = "read" /\ Ids(req[r]) /\ seen \in SUBSET Rows
  BY RequestFacts, QueryType DEF QueryProjects, At
<1>2. UNCHANGED <<live, role, left, tables>> /\ OtherTypes'
  BY DEF QueryProjects, members, IInv, OtherTypes
<1>3. Answer(r) \/ req' = [req EXCEPT ![r] = q]
  BY DEF QueryProjects
<1> HIDE DEF seen
<1>4. /\ q \in RequestRecord
      /\ q.pc = "cacheSet" /\ q.op = req[r].op /\ q.actor = req[r].actor /\ q.ws = req[r].ws
      /\ q.project = req[r].project /\ q.task = req[r].task /\ q.comment = req[r].comment
  <2>1. "cacheSet" \in PCs
    BY DEF PCs
  <2>3. q \in RequestRecord
    BY <1>1, <2>1 DEF RequestRecord
  <2> QED BY <1>1, <2>3 DEF RequestRecord
<1> HIDE DEF q
<1>5. Ids(q)
  BY <1>1, <1>4 DEF Ids
<1>6. Stages(q.op, q.pc) /\ Checked(q, q.pc)
  BY <1>1, <1>4 DEF Stages, Checked, ExistingCommentOps
<1>7. SameIds(r, q)
  BY <1>1, <1>4 DEF SameIds
<1> QED BY <1>2, <1>3, <1>4, <1>5, <1>6, <1>7, SlotStep, AnswerStep DEF Sound

\* A page is stored.
LEMMA CacheSetStep ==
  ASSUME IInv, NEW r \in Requests, CacheSet(r) PROVE IInv'
<1>1. req[r].seen \in SUBSET Rows
  BY RequestFacts DEF RequestRecord
<1>2. OtherTypes'
  BY <1>1 DEF CacheSet, members, IInv, OtherTypes
<1> QED BY <1>2, AnswerStep DEF CacheSet, members

\* A key is deleted and the members are looked up next.
LEMMA PurgeDetailStep ==
  ASSUME IInv, NEW r \in Requests, PurgeDetail(r) PROVE IInv'
<1>1. OtherTypes' /\ UNCHANGED <<live, role, left, tables>>
  BY DEF PurgeDetail, members, IInv, OtherTypes
<1>2. req[r].pc = "purgeDetail" /\ Goto(r, "memberIds")
  BY DEF PurgeDetail, At
<1>4. req[r].op \in {"updateProject", "removeProject"}
  BY OpsAt DEF PurgeDetail
<1>5. Stages(req[r].op, "memberIds") /\ Checked(req[r], "memberIds")
  BY <1>4 DEF Stages, Checked, ExistingCommentOps
<1> QED BY <1>1, <1>2, <1>4, <1>5, GotoStep DEF PCs, IsFree

\* The members whose pages will go.
LEMMA FindMemberIdsStep ==
  ASSUME IInv, NEW r \in Requests, FindMemberIds(r) PROVE IInv'
<1> DEFINE q == [req[r] EXCEPT !.pc = "purgeLists", !.lists = MembersOf(req[r].ws)]
<1>1. /\ req[r].pc = "memberIds" /\ req[r] \in RequestRecord /\ Ids(req[r])
      /\ Stages(req[r].op, "memberIds")
  BY RequestFacts DEF FindMemberIds, At
<1>2. UNCHANGED <<live, role, left, tables>> /\ OtherTypes'
  BY DEF FindMemberIds, members, IInv, OtherTypes
<1>3. req[r].op \in {"createProject", "updateProject", "removeProject"}
  BY OpsAt DEF FindMemberIds
<1>4. req' = [req EXCEPT ![r] = q]
  BY DEF FindMemberIds
<1>5. /\ q \in RequestRecord
      /\ q.pc = "purgeLists" /\ q.op = req[r].op /\ q.actor = req[r].actor /\ q.ws = req[r].ws
      /\ q.project = req[r].project /\ q.task = req[r].task /\ q.comment = req[r].comment
  <2>1. "purgeLists" \in PCs
    BY DEF PCs
  <2>2. MembersOf(req[r].ws) \in SUBSET Users
    BY DEF MembersOf
  <2>3. q \in RequestRecord
    BY <1>1, <2>1, <2>2 DEF RequestRecord
  <2> QED BY <1>1, <2>3 DEF RequestRecord
<1> HIDE DEF q
<1>6. Ids(q)
  BY <1>1, <1>3, <1>5 DEF Ids, Early
<1>7. Stages(q.op, q.pc) /\ Checked(q, q.pc)
  BY <1>3, <1>5 DEF Stages, Checked, ExistingCommentOps
<1>8. SameIds(r, q)
  BY <1>5 DEF SameIds, Early
<1> QED BY <1>2, <1>4, <1>5, <1>6, <1>7, <1>8, SlotStep DEF Sound

\* Their pages go.
LEMMA PurgeListsStep ==
  ASSUME IInv, NEW r \in Requests, PurgeLists(r) PROVE IInv'
<1>1. OtherTypes'
  BY DEF PurgeLists, members, IInv, OtherTypes
<1> QED BY <1>1, AnswerStep DEF PurgeLists, members

-----------------------------------------------------------------------------
(* Statements.                                                             *)

\* What no statement takes away: rows keep their parent and creator, former
\* members stay former members, owners stay owners of what lives.
Keeps ==
  /\ \A p \in Projects : KnownProject(p) =>
       /\ project'[p].life # "unused"
       /\ project'[p].ws = project[p].ws /\ project'[p].by = project[p].by
  /\ \A t \in Tasks : KnownTask(t) =>
       /\ task'[t].life # "unused"
       /\ task'[t].project = task[t].project /\ task'[t].by = task[t].by
  /\ \A c \in Comments : KnownComment(c) =>
       /\ comment'[c].life # "unused"
       /\ comment'[c].task = comment[c].task /\ comment'[c].by = comment[c].by
  /\ live' \subseteq live
  /\ \A w \in Workspaces, u \in Users :
       /\ WasMember(w, u) => role'[<<w, u>>] # "none" \/ <<w, u>> \in left'
       /\ IsOwner(w, u) => role'[<<w, u>>] = "OWNER" \/ w \notin live'

\* The rows that request r is to insert are still unknown.
StillFresh(r) ==
  /\ req[r].op = "createProject" /\ req[r].pc \in Early =>
       project'[req[r].project].life = "unused"
  /\ req[r].op = "createTask" => task'[req[r].task].life = "unused"
  /\ req[r].op = "createComment" => comment'[req[r].comment].life = "unused"

\* What a request holds survives the statements of the others.
LEMMA SoundKept ==
  ASSUME IInv, Keeps, NEW r \in Requests, req'[r] = req[r], StillFresh(r)
  PROVE  Sound(req[r])'
<1> DEFINE q == req[r]
           was(u) == role'[<<q.ws, u>>] # "none" \/ <<q.ws, u>> \in left'
<1>1. q \in RequestRecord /\ Ids(q) /\ Stages(q.op, q.pc) /\ Checked(q, q.pc)
  BY RequestFacts
<1>2. req'[r] = q
  OBVIOUS
<1>3. /\ q.op # "none" => q.actor \in Users /\ q.ws \in Workspaces
      /\ q.op \in ExistingProjectOps \cup TaskOps \cup CommentOps \cup HistoryOps =>
           q.project \in Projects /\ KnownProject(q.project)
      /\ q.op \in ExistingTaskOps \cup CommentOps \cup HistoryOps =>
           q.task \in Tasks /\ KnownTask(q.task)
      /\ q.op \in ExistingCommentOps => q.comment \in Comments /\ KnownComment(q.comment)
  BY <1>1 DEF Ids
<1>4. StillFresh(r) <=>
        /\ q.op = "createProject" /\ q.pc \in Early => project'[q.project].life = "unused"
        /\ q.op = "createTask" => task'[q.task].life = "unused"
        /\ q.op = "createComment" => comment'[q.comment].life = "unused"
  BY DEF StillFresh
<1> HIDE DEF q
<1>5. Ids(req[r])'
  BY <1>1, <1>2, <1>4 DEF Ids, Keeps, KnownProject, KnownTask, KnownComment
<1>6. Stages(req[r].op, req[r].pc)'
  BY <1>1, <1>2 DEF Stages
<1>7. ASSUME q.op # "none", Admitted(q) PROVE was(q.actor)
  BY <1>3, <1>7 DEF Admitted, Keeps
<1>8. ASSUME q.op \in TaskOps \cup CommentOps, InProject(q)
      PROVE  project'[q.project].ws = q.ws
  BY <1>3, <1>8 DEF InProject, Keeps
<1>9. ASSUME q.op \in {"updateTask", "createComment"}, OnTask(q)
      PROVE  task'[q.task].project = q.project
  BY <1>3, <1>9 DEF OnTask, Keeps, ExistingTaskOps, CommentOps
<1>10. ASSUME q.target # Nil, q.op # "none", WasMember(q.ws, q.target)
       PROVE  was(q.target)
  BY <1>1, <1>3, <1>10 DEF Keeps, RequestRecord
<1>11. ASSUME q.op \in ManagerOps,
              CreatorOf(q) = q.actor \/ IsOwner(q.ws, q.actor) \/ q.ws \notin live
       PROVE  \/ (CASE q.op \in ProjectOps -> project'[q.project].by
                    [] q.op \in TaskOps    -> task'[q.task].by
                    [] OTHER               -> comment'[q.comment].by) = q.actor
              \/ role'[<<q.ws, q.actor>>] = "OWNER" \/ q.ws \notin live'
  <2>1. q.op # "none"
    BY <1>11 DEF ManagerOps
  <2>2. CASE IsOwner(q.ws, q.actor) \/ q.ws \notin live
    BY <1>3, <2>1, <2>2 DEF Keeps
  <2>3. CASE CreatorOf(q) = q.actor
    <3>1. CASE q.op \in {"updateProject", "removeProject"}
      <4>1. project'[q.project].by = project[q.project].by
        BY <3>1, <1>3 DEF Keeps, ExistingProjectOps
      <4> QED BY <2>3, <3>1, <4>1 DEF CreatorOf, ProjectOps, TaskOps
    <3>2. CASE q.op = "removeTask"
      <4>1. task'[q.task].by = task[q.task].by
        BY <3>2, <1>3 DEF Keeps, ExistingTaskOps
      <4> QED BY <2>3, <3>2, <4>1 DEF CreatorOf, ProjectOps, TaskOps
    <3>3. CASE q.op \in ExistingCommentOps
      <4>1. comment'[q.comment].by = comment[q.comment].by
        BY <3>3, <1>3 DEF Keeps
      <4> QED BY <2>3, <3>3, <4>1 DEF CreatorOf, ProjectOps, TaskOps, ExistingCommentOps
    <3> QED BY <1>11, <3>1, <3>2, <3>3 DEF ManagerOps, ExistingCommentOps
  <2> QED BY <1>11, <2>2, <2>3
<1>12. Checked(req[r], req[r].pc)'
  <2>1. /\ Admitted(req[r])' <=> was(q.actor)
        /\ InProject(req[r])' <=> project'[q.project].ws = q.ws
        /\ OnTask(req[r])' <=> task'[q.task].project = q.project
        /\ CreatorOf(req[r])' = CASE q.op \in ProjectOps -> project'[q.project].by
                                  [] q.op \in TaskOps    -> task'[q.task].by
                                  [] OTHER               -> comment'[q.comment].by
        /\ WasMember(req[r].ws, req[r].target)' <=> was(q.target)
        /\ IsOwner(req[r].ws, req[r].actor)' <=> role'[<<q.ws, q.actor>>] = "OWNER"
    BY <1>2 DEF Admitted, InProject, OnTask, CreatorOf, WasMember, IsOwner, IsMember, q
  <2> QED BY <1>1, <1>2, <1>7, <1>8, <1>9, <1>10, <1>11, <2>1
          DEF Checked, TaskOps, CommentOps, ManagerOps
<1> QED BY <1>5, <1>6, <1>12 DEF Sound

\* Rows that are kept stay rooted.
LEMMA RootedKept ==
  ASSUME DbInv, Keeps,
         \A p \in Projects : project'[p].life # "unused" =>
           KnownProject(p) \/ ProjectRooted(p)',
         \A t \in Tasks : task'[t].life # "unused" =>
           \/ TaskRooted(t)'
           \/ /\ KnownTask(t)
              /\ task'[t].status = task[t].status /\ task'[t].assignee = task[t].assignee
              /\ history'[t] = history[t] \/ history'[t] = <<>>,
         \A c \in Comments : comment'[c].life # "unused" =>
           KnownComment(c) \/ CommentRooted(c)',
         TableTypes'
  PROVE  Rooted'
<1>1. ASSUME NEW p \in Projects, KnownProject(p) PROVE ProjectRooted(p)'
  <2>1. ProjectRooted(p)
    BY <1>1 DEF DbInv, Rooted
  <2>2. project'[p].ws = project[p].ws /\ project'[p].by = project[p].by
    BY <1>1 DEF Keeps
  <2>3. role'[<<project[p].ws, project[p].by>>] # "none"
          \/ <<project[p].ws, project[p].by>> \in left'
    BY <2>1 DEF ProjectRooted, Keeps
  <2> QED BY <2>1, <2>2, <2>3 DEF ProjectRooted, WasMember, IsMember
<1>2. ASSUME NEW t \in Tasks, KnownTask(t)
      PROVE  /\ task'[t].project \in Projects /\ project'[task'[t].project].life # "unused"
             /\ task'[t].by \in Users /\ WorkspaceOf(t)' = WorkspaceOf(t)
             /\ WorkspaceOf(t) \in Workspaces
             /\ \A u \in Users : WasMember(WorkspaceOf(t), u) =>
                  \/ role'[<<WorkspaceOf(t), u>>] # "none"
                  \/ <<WorkspaceOf(t), u>> \in left'
  <2>1. TaskRooted(t)
    BY <1>2 DEF DbInv, Rooted
  <2>2. task'[t].project = task[t].project /\ task'[t].by = task[t].by
    BY <1>2 DEF Keeps
  <2>3. /\ task[t].project \in Projects /\ KnownProject(task[t].project)
        /\ task[t].by \in Users
    BY <2>1 DEF TaskRooted
  <2>4. /\ project'[task[t].project].life # "unused"
        /\ project'[task[t].project].ws = project[task[t].project].ws
    BY <2>3 DEF Keeps
  <2>5. WorkspaceOf(t)' = WorkspaceOf(t)
    BY <2>2, <2>4 DEF WorkspaceOf
  <2>6. WorkspaceOf(t) \in Workspaces
    BY <2>3 DEF WorkspaceOf, DbInv, Rooted, ProjectRooted
  <2> QED BY <2>2, <2>3, <2>4, <2>5, <2>6 DEF Keeps
<1>3. ASSUME NEW t \in Tasks, KnownTask(t),
             task'[t].status = task[t].status, task'[t].assignee = task[t].assignee,
             history'[t] = history[t] \/ history'[t] = <<>>
      PROVE  TaskRooted(t)'
  <2> DEFINE w == WorkspaceOf(t)
             was(u) == role'[<<w, u>>] # "none" \/ <<w, u>> \in left'
  <2>1. TaskRooted(t)
    BY <1>3 DEF DbInv, Rooted
  <2>2. WorkspaceOf(t)' = w /\ \A u \in Users : WasMember(w, u) => was(u)
    BY <1>2, <1>3
  <2>3. was(task[t].by) /\ task'[t].by = task[t].by
    BY <1>3, <2>1, <2>2 DEF TaskRooted, Keeps
  <2>4. task[t].assignee # Nil => was(task[t].assignee)
    <3>1. task[t].assignee \in Users \cup {Nil}
      BY DEF DbInv, TableTypes, TaskRows
    <3> QED BY <2>1, <2>2, <3>1 DEF TaskRooted
  <2>5. ASSUME NEW i \in DOMAIN history'[t] PROVE was(history'[t][i].by)
    <3>1. history'[t] = history[t] /\ i \in DOMAIN history[t]
      BY <1>3, <2>5
    <3>2. history[t] \in Seq(HistoryRows)
      BY DEF DbInv, TableTypes
    <3>3. history[t][i] \in HistoryRows
      BY <3>1, <3>2
    <3>4. history[t][i].by \in Users
      BY <3>3 DEF HistoryRows
    <3> QED BY <2>1, <2>2, <3>1, <3>4 DEF TaskRooted
  <2>6. task[t].status \in TaskStatuses
    BY <2>1 DEF TaskRooted
  <2> HIDE DEF w
  <2> QED BY <1>2, <1>3, <2>2, <2>3, <2>4, <2>5, <2>6
          DEF TaskRooted, WasMember, IsMember, KnownProject
<1>4. ASSUME NEW c \in Comments, KnownComment(c) PROVE CommentRooted(c)'
  <2> DEFINE t == comment[c].task
  <2>1. CommentRooted(c)
    BY <1>4 DEF DbInv, Rooted
  <2>2. comment'[c].task = t /\ comment'[c].by = comment[c].by
    BY <1>4 DEF Keeps
  <2>3. t \in Tasks /\ KnownTask(t) /\ comment[c].by \in Users
    BY <2>1 DEF CommentRooted
  <2> HIDE DEF t
  <2>4. WasMember(WorkspaceOf(t), comment[c].by)
    BY <2>1 DEF CommentRooted, t
  <2>5. \/ role'[<<WorkspaceOf(t), comment[c].by>>] # "none"
        \/ <<WorkspaceOf(t), comment[c].by>> \in left'
    BY <1>2, <2>3, <2>4
  <2>6. task'[t].life # "unused" /\ project'[task'[t].project].ws = WorkspaceOf(t)
    <3>1. task'[t].life # "unused" /\ task'[t].project = task[t].project
      BY <2>3 DEF Keeps
    <3>2. task[t].project \in Projects /\ KnownProject(task[t].project)
      BY <2>3 DEF DbInv, Rooted, TaskRooted
    <3>3. project'[task[t].project].ws = project[task[t].project].ws
      BY <3>2 DEF Keeps
    <3> QED BY <3>1, <3>3 DEF WorkspaceOf
  <2> QED BY <2>2, <2>3, <2>5, <2>6
          DEF CommentRooted, WasMember, IsMember, KnownTask, WorkspaceOf
<1> QED BY <1>1, <1>3, <1>4 DEF Rooted, KnownProject, KnownTask, KnownComment

\* Request r has run its statement, and is answered or goes on to the purge.
LEMMA WriteStep ==
  ASSUME IInv, NEW r \in Requests, NEW pc \in {"memberIds", "purgeDetail"},
         DbInv', OtherTypes', Keeps,
         \A p \in Projects : project'[p].life # "unused" =>
           \/ KnownProject(p)
           \/ req[r].op = "createProject" /\ req[r].pc \in Early /\ req[r].project = p,
         \A t \in Tasks : task'[t].life # "unused" =>
           KnownTask(t) \/ (req[r].op = "createTask" /\ req[r].task = t),
         \A c \in Comments : comment'[c].life # "unused" =>
           KnownComment(c) \/ (req[r].op = "createComment" /\ req[r].comment = c),
         \/ Answer(r)
         \/ /\ Goto(r, pc) /\ Stages(req[r].op, pc)
            /\ req[r].op \in {"createProject", "updateProject", "removeProject"}
  PROVE  IInv'
<1> DEFINE moved == [req[r] EXCEPT !.pc = pc]
           q == IF Answer(r) THEN Free ELSE moved
<1>1. req' = [req EXCEPT ![r] = q]
  BY DEF Answer, Goto
<1>2. ASSUME ~Answer(r)
      PROVE  /\ moved \in RequestRecord /\ SameIds(r, moved)
             /\ moved.pc = pc /\ moved.op = req[r].op /\ moved.actor = req[r].actor
             /\ moved.ws = req[r].ws /\ moved.project = req[r].project
  <2>1. req[r].op \in {"createProject", "updateProject", "removeProject"}
    BY <1>2
  <2>2. pc \in PCs \ {"answered"} /\ pc \notin Early
    BY DEF PCs, Early
  <2>3. ~IsFree(r)
    BY <2>1, RequestFacts DEF Ids, IsFree
  <2> QED BY <2>2, <2>3, Moved
<1>3. q \in RequestRecord /\ SameIds(r, q)
  BY <1>2, FreeSound DEF SameIds
<1>4. FreshIds' /\ req' \in [Requests -> RequestRecord]
  BY <1>1, <1>3, SameIdsFresh DEF IInv
<1>5. Sound(req[r])'
  <2>1. CASE Answer(r)
    <3>1. req'[r] = Free
      BY <2>1 DEF Answer, IInv
    <3> QED BY <3>1, FreeSound
            DEF Sound, Ids, Stages, Checked, Free, ProjectOps, TaskOps,
                CommentOps, HistoryOps, ExistingProjectOps, ExistingTaskOps,
                ExistingCommentOps, ManagerOps
  <2>2. CASE ~Answer(r)
    <3>1. req'[r] = moved
      BY <1>1, <2>2 DEF IInv
    <3>2. /\ moved.pc = pc /\ moved.op = req[r].op /\ moved.actor = req[r].actor
          /\ moved.ws = req[r].ws /\ moved.project = req[r].project
      BY <1>2, <2>2
    <3>3. /\ moved.op \in {"createProject", "updateProject", "removeProject"}
          /\ Stages(moved.op, moved.pc)
      BY <2>2, <3>2
    <3>4. Ids(req[r])
      BY RequestFacts
    <3>5. /\ moved.actor \in Users /\ moved.ws \in Workspaces /\ moved.project \in Projects
          /\ moved.op # "createProject" => project'[moved.project].life # "unused"
      BY <3>2, <3>3, <3>4 DEF Ids, ExistingProjectOps, Keeps
    <3> HIDE DEF moved
    <3>6. Ids(req[r])'
      BY <3>1, <3>2, <3>3, <3>5
      DEF Ids, KnownProject, Early, ExistingProjectOps, ExistingTaskOps, ExistingCommentOps,
          TaskOps, CommentOps, HistoryOps
    <3>7. Stages(req[r].op, req[r].pc)' /\ Checked(req[r], req[r].pc)'
      BY <3>1, <3>2, <3>3 DEF Stages, Checked
    <3> QED BY <3>6, <3>7 DEF Sound
  <2> QED BY <2>1, <2>2
<1>6. ASSUME NEW s \in Requests, s # r PROVE Sound(req[s])'
  <2>1. req'[s] = req[s]
    BY <1>1, <1>6 DEF IInv
  <2>2. Ids(req[s])
    BY RequestFacts
  <2>3. /\ req[s].op = "createProject" /\ req[s].pc \in Early => req[r].project # req[s].project
        /\ req[s].op = "createTask" => req[r].task # req[s].task
        /\ req[s].op = "createComment" => req[r].comment # req[s].comment
    BY <1>6 DEF IInv, FreshIds
  <2>4. StillFresh(s)
    BY <2>2, <2>3 DEF StillFresh, Ids, TaskOps, CommentOps
  <2> QED BY <2>1, <2>4, SoundKept
<1> HIDE DEF q, moved
<1>7. \A s \in Requests : Sound(req[s])'
  BY <1>5, <1>6
<1> QED BY <1>4, <1>7 DEF IInv

-----------------------------------------------------------------------------
(* Inserts and updates.                                                    *)

\* A statement that leaves the members alone.
LEMMA MembersKept ==
  ASSUME UNCHANGED <<live, role, left>>
  PROVE  /\ live' \subseteq live
         /\ \A w \in Workspaces, u \in Users :
              /\ WasMember(w, u) => role'[<<w, u>>] # "none" \/ <<w, u>> \in left'
              /\ IsOwner(w, u) => role'[<<w, u>>] = "OWNER" \/ w \notin live'
  BY DEF WasMember, IsMember, IsOwner

\* A new project is made by someone who was admitted.
LEMMA InsertProjectStep ==
  ASSUME IInv, NEW r \in Requests, InsertProject(r) PROVE IInv'
<1> DEFINE p == req[r].project
           w == req[r].ws
           a == req[r].actor
<1>1. /\ At(r, "write") /\ req[r].op = "createProject"
      /\ UNCHANGED <<live, role, left, task, comment, history>>
      /\ UNCHANGED <<cache, sent, changes>>
  BY DEF InsertProject, Doing, members
<1>2. OtherTypes'
  BY <1>1 DEF IInv, OtherTypes
<1>3. CASE w \notin live
  BY <1>1, <1>2, <1>3, AnswerStep DEF InsertProject, tables
<1>4. CASE w \in live
  <2>1. PICK n \in Names : project' = [project EXCEPT ![p] =
                             [life |-> "live", ws |-> w, by |-> a, name |-> n]]
    BY <1>4 DEF InsertProject
  <2>2. Goto(r, "memberIds")
    BY <1>4 DEF InsertProject
  <2>3. /\ p \in Projects /\ ~KnownProject(p) /\ w \in Workspaces /\ a \in Users
        /\ WasMember(w, a)
    BY <1>1, RequestFacts DEF At, Ids, Checked, Admitted, Early
  <2>4. DbInv
    BY DEF IInv
  <2>5. project' \in [Projects -> ProjectRows]
    BY <2>1, <2>3, <2>4 DEF DbInv, TableTypes, ProjectRows, Lives
  <2>6. /\ project'[p].life = "live" /\ project'[p].ws = w /\ project'[p].by = a
        /\ \A q \in Projects \ {p} : project'[q] = project[q]
    BY <2>1, <2>3, <2>4 DEF DbInv, TableTypes
  <2>7. Keeps
    BY <1>1, <2>3, <2>6, MembersKept DEF Keeps, KnownProject, KnownTask, KnownComment
  <2>8. TableTypes'
    BY <1>1, <2>4, <2>5 DEF DbInv, TableTypes
  <2>10. Rooted'
    <3>1. \A q \in Projects : project'[q].life # "unused" =>
            KnownProject(q) \/ ProjectRooted(q)'
      <4> SUFFICES ASSUME NEW q \in Projects, project'[q].life # "unused", ~KnownProject(q)
                   PROVE  ProjectRooted(q)'
        OBVIOUS
      <4>1. q = p
        BY <2>6 DEF KnownProject
      <4>2. /\ project'[q].ws = w /\ project'[q].by = a
        BY <2>6, <4>1
      <4> QED BY <1>1, <2>3, <4>2 DEF ProjectRooted, WasMember, IsMember
    <3>2. \A t \in Tasks : task'[t].life # "unused" =>
            /\ KnownTask(t)
            /\ task'[t].status = task[t].status /\ task'[t].assignee = task[t].assignee
            /\ history'[t] = history[t]
      BY <1>1 DEF KnownTask
    <3>3. \A c \in Comments : comment'[c].life # "unused" => KnownComment(c)
      BY <1>1 DEF KnownComment
    <3> QED BY <2>4, <2>7, <2>8, <3>1, <3>2, <3>3, RootedKept
  <2>11. NoOrphanItems'
    <3>1. \A q \in Projects : project'[q].life = "live" => project'[q].ws \in live
      BY <1>4, <2>4, <2>6 DEF DbInv, NoOrphanItems
    <3>2. ASSUME NEW t \in Tasks, task[t].life = "live"
          PROVE  project'[task[t].project].life = "live"
      <4>1. KnownTask(t) /\ project[task[t].project].life = "live"
        BY <2>4, <3>2 DEF DbInv, NoOrphanItems, KnownTask
      <4>2. task[t].project \in Projects
        BY <2>4, <4>1 DEF DbInv, Rooted, TaskRooted
      <4> QED BY <2>6, <4>1, <4>2
    <3> QED BY <1>1, <2>4, <3>1, <3>2 DEF DbInv, NoOrphanItems
  <2>12. DbInv'
    BY <2>8, <2>10, <2>11 DEF DbInv
  <2>13. \A q \in Projects : project'[q].life # "unused" =>
           \/ KnownProject(q)
           \/ req[r].op = "createProject" /\ req[r].pc \in Early /\ req[r].project = q
    BY <1>1, <2>6 DEF KnownProject, At, Early
  <2>14. /\ \A t \in Tasks : task'[t].life # "unused" => KnownTask(t)
         /\ \A c \in Comments : comment'[c].life # "unused" => KnownComment(c)
    BY <1>1 DEF KnownTask, KnownComment
  <2>15. Stages(req[r].op, "memberIds")
    BY <1>1 DEF Stages, ExistingCommentOps
  <2> QED BY <1>1, <1>2, <2>2, <2>7, <2>12, <2>13, <2>14, <2>15, WriteStep
<1> QED BY <1>3, <1>4

\* A new name changes nothing the invariant speaks of.
LEMMA UpdateProjectStep ==
  ASSUME IInv, NEW r \in Requests, UpdateProject(r) PROVE IInv'
<1> DEFINE p == req[r].project
<1>1. /\ At(r, "write") /\ req[r].op = "updateProject"
      /\ UNCHANGED <<live, role, left, task, comment, history>>
      /\ UNCHANGED <<cache, sent, changes>>
  BY DEF UpdateProject, Doing, members
<1>2. OtherTypes'
  BY <1>1 DEF IInv, OtherTypes
<1>3. CASE project[p].life # "live"
  BY <1>1, <1>2, <1>3, AnswerStep DEF UpdateProject, tables
<1>4. CASE project[p].life = "live"
  <2>1. PICK n \in Names : project' = [project EXCEPT ![p].name = n]
    BY <1>4 DEF UpdateProject
  <2>2. Goto(r, "purgeDetail")
    BY <1>4 DEF UpdateProject
  <2>3. DbInv /\ project \in [Projects -> ProjectRows]
    BY DEF IInv, DbInv, TableTypes
  <2>4. ASSUME NEW q \in Projects
        PROVE  /\ project'[q] \in ProjectRows /\ project'[q].life = project[q].life
               /\ project'[q].ws = project[q].ws /\ project'[q].by = project[q].by
    BY <2>1, <2>3 DEF ProjectRows
  <2>5. project' \in [Projects -> ProjectRows]
    BY <2>1, <2>3, <2>4
  <2>6. Keeps
    BY <1>1, <2>4, MembersKept DEF Keeps, KnownProject, KnownTask, KnownComment
  <2>7. TableTypes'
    BY <1>1, <2>3, <2>5 DEF DbInv, TableTypes
  <2>8. /\ \A q \in Projects : project'[q].life # "unused" => KnownProject(q)
        /\ \A t \in Tasks : task'[t].life # "unused" => KnownTask(t)
        /\ \A c \in Comments : comment'[c].life # "unused" => KnownComment(c)
    BY <1>1, <2>4 DEF KnownProject, KnownTask, KnownComment
  <2>9. Rooted'
    BY <1>1, <2>3, <2>6, <2>7, <2>8, RootedKept
  <2>10. NoOrphanItems'
    <3>1. ASSUME NEW t \in Tasks, task[t].life = "live"
          PROVE  project'[task[t].project].life = "live"
      <4>1. KnownTask(t) /\ project[task[t].project].life = "live"
        BY <2>3, <3>1 DEF DbInv, NoOrphanItems, KnownTask
      <4>2. task[t].project \in Projects
        BY <2>3, <4>1 DEF DbInv, Rooted, TaskRooted
      <4> QED BY <2>4, <4>1, <4>2
    <3> QED BY <1>1, <2>3, <2>4, <3>1 DEF DbInv, NoOrphanItems
  <2>11. DbInv'
    BY <2>7, <2>9, <2>10 DEF DbInv
  <2>12. Stages(req[r].op, "purgeDetail")
    BY <1>1 DEF Stages, ExistingCommentOps
  <2> QED BY <1>1, <1>2, <2>2, <2>6, <2>8, <2>11, <2>12, WriteStep
<1> QED BY <1>3, <1>4

\* A new task is made by, and assigned to, someone who was admitted.
LEMMA InsertTaskStep ==
  ASSUME IInv, NEW r \in Requests, InsertTask(r) PROVE IInv'
<1> DEFINE t == req[r].task
           p == req[r].project
           w == req[r].ws
           a == req[r].actor
           x == req[r].target
<1>1. /\ At(r, "write") /\ req[r].op = "createTask" /\ Answer(r)
      /\ UNCHANGED <<live, role, left, project, comment, history>>
      /\ UNCHANGED <<cache, sent, changes>>
  BY DEF InsertTask, Doing, members
<1>2. OtherTypes'
  BY <1>1 DEF IInv, OtherTypes
<1>3. CASE project[p].life # "live"
  BY <1>1, <1>2, <1>3, AnswerStep DEF InsertTask, tables
<1>4. CASE project[p].life = "live"
  <2>1. PICK s \in TaskStatuses : task' = [task EXCEPT ![t] =
          [life |-> "live", project |-> p, by |-> a, status |-> s, assignee |-> x,
           opened |-> s]]
    BY <1>4 DEF InsertTask
  <2>2. req[r] \in RequestRecord /\ Ids(req[r]) /\ Checked(req[r], "write")
    BY <1>1, RequestFacts DEF At
  <2>3. /\ t \in Tasks /\ ~KnownTask(t) /\ p \in Projects /\ KnownProject(p)
        /\ w \in Workspaces /\ a \in Users
    BY <1>1, <2>2 DEF Ids, TaskOps
  <2>4. /\ x \in Users \cup {Nil} /\ project[p].ws = w /\ WasMember(w, a)
        /\ x # Nil => WasMember(w, x)
    BY <1>1, <2>2 DEF RequestRecord, Checked, InProject, Admitted
  <2>5. DbInv
    BY DEF IInv
  <2> HIDE DEF t, p, w, a, x
  <2>6. task' \in [Tasks -> TaskRows]
    BY <2>1, <2>3, <2>4, <2>5 DEF DbInv, TableTypes, TaskRows, Lives
  <2>7. /\ task'[t].life = "live" /\ task'[t].project = p /\ task'[t].by = a
        /\ task'[t].status = s /\ task'[t].assignee = x
        /\ \A u \in Tasks \ {t} : task'[u] = task[u]
    BY <2>1, <2>3, <2>5 DEF DbInv, TableTypes
  <2>8. Keeps
    BY <1>1, <2>3, <2>7, MembersKept DEF Keeps, KnownProject, KnownTask, KnownComment
  <2>9. TableTypes'
    BY <1>1, <2>5, <2>6 DEF DbInv, TableTypes
  <2>10. history[t] = <<>>
    BY <2>3, <2>5 DEF DbInv, NoOrphanItems, KnownTask
  <2>11. /\ \A q \in Projects : project'[q].life # "unused" => KnownProject(q)
         /\ \A u \in Tasks : task'[u].life # "unused" => KnownTask(u) \/ u = t
         /\ \A c \in Comments : comment'[c].life # "unused" => KnownComment(c)
    BY <1>1, <2>7 DEF KnownProject, KnownTask, KnownComment
  <2>12. ASSUME NEW u \in Tasks, u = t PROVE TaskRooted(u)'
    <3>1. /\ task'[u].project = p /\ task'[u].by = a /\ task'[u].status = s
          /\ task'[u].assignee = x /\ history'[u] = <<>>
      BY <1>1, <2>7, <2>10, <2>12
    <3>2. DOMAIN history'[u] = {}
      BY <3>1
    <3>3. project'[p].life # "unused" /\ project'[p].ws = w
      BY <1>1, <2>3, <2>4 DEF KnownProject
    <3> QED BY <1>1, <2>3, <2>4, <3>1, <3>2, <3>3
            DEF TaskRooted, WorkspaceOf, WasMember, IsMember, KnownProject
  <2>13. Rooted'
    <3>1. \A u \in Tasks : task'[u].life # "unused" =>
            \/ TaskRooted(u)'
            \/ /\ KnownTask(u)
               /\ task'[u].status = task[u].status /\ task'[u].assignee = task[u].assignee
               /\ history'[u] = history[u]
      BY <1>1, <2>7, <2>11, <2>12
    <3> QED BY <2>5, <2>8, <2>9, <2>11, <3>1, RootedKept
  <2>14. NoOrphanItems'
    <3>1. ASSUME NEW c \in Comments, comment[c].life = "live"
          PROVE  task'[comment[c].task].life = "live"
      <4>1. KnownComment(c) /\ task[comment[c].task].life = "live"
        BY <2>5, <3>1 DEF DbInv, NoOrphanItems, KnownComment
      <4>2. comment[c].task \in Tasks
        BY <2>5, <4>1 DEF DbInv, Rooted, CommentRooted
      <4> QED BY <2>7, <4>1, <4>2
    <3>2. ASSUME NEW u \in Tasks, task'[u].life = "live"
          PROVE  project'[task'[u].project].life = "live"
      <4>1. CASE u = t
        BY <1>1, <1>4, <2>7, <4>1 DEF p
      <4>2. CASE u # t
        BY <1>1, <2>5, <2>7, <3>2, <4>2 DEF DbInv, NoOrphanItems
      <4> QED BY <4>1, <4>2
    <3>3. ASSUME NEW u \in Tasks, history'[u] # <<>> PROVE task'[u].life = "live"
      BY <1>1, <2>5, <2>7, <3>3 DEF DbInv, NoOrphanItems
    <3> QED BY <1>1, <2>5, <3>1, <3>2, <3>3 DEF DbInv, NoOrphanItems
  <2>15. DbInv'
    BY <2>9, <2>13, <2>14 DEF DbInv
  <2>16. \A u \in Tasks : task'[u].life # "unused" =>
           KnownTask(u) \/ (req[r].op = "createTask" /\ req[r].task = u)
    BY <1>1, <2>11 DEF t
  <2> QED BY <1>1, <1>2, <2>8, <2>11, <2>15, <2>16, WriteStep
<1> QED BY <1>3, <1>4

\* A new comment is made by someone who was admitted.
LEMMA InsertCommentStep ==
  ASSUME IInv, NEW r \in Requests, InsertComment(r) PROVE IInv'
<1> DEFINE c == req[r].comment
           t == req[r].task
           w == req[r].ws
           a == req[r].actor
<1>1. /\ At(r, "write") /\ req[r].op = "createComment" /\ Answer(r)
      /\ UNCHANGED <<live, role, left, project, task, history>>
      /\ UNCHANGED <<cache, sent, changes>>
  BY DEF InsertComment, Doing, members
<1>2. OtherTypes'
  BY <1>1 DEF IInv, OtherTypes
<1>3. CASE task[t].life # "live"
  BY <1>1, <1>2, <1>3, AnswerStep DEF InsertComment, tables
<1>4. CASE task[t].life = "live"
  <2>1. comment' = [comment EXCEPT ![c] = [life |-> "live", task |-> t, by |-> a]]
    BY <1>4 DEF InsertComment
  <2>2. Ids(req[r]) /\ Checked(req[r], "write")
    BY <1>1, RequestFacts DEF At
  <2>3. /\ c \in Comments /\ ~KnownComment(c) /\ t \in Tasks /\ KnownTask(t)
        /\ w \in Workspaces /\ a \in Users
    BY <1>1, <2>2 DEF Ids, CommentOps
  <2>4. WorkspaceOf(t) = w /\ WasMember(w, a)
    BY <1>1, <2>2 DEF Checked, InProject, OnTask, Admitted, WorkspaceOf
  <2>5. DbInv
    BY DEF IInv
  <2> HIDE DEF c, t, w, a
  <2>6. comment' \in [Comments -> CommentRows]
    BY <2>1, <2>3, <2>5 DEF DbInv, TableTypes, CommentRows, Lives
  <2>7. /\ comment'[c].life = "live" /\ comment'[c].task = t /\ comment'[c].by = a
        /\ \A d \in Comments \ {c} : comment'[d] = comment[d]
    BY <2>1, <2>3, <2>5 DEF DbInv, TableTypes
  <2>8. Keeps
    BY <1>1, <2>3, <2>7, MembersKept DEF Keeps, KnownProject, KnownTask, KnownComment
  <2>9. TableTypes'
    BY <1>1, <2>5, <2>6 DEF DbInv, TableTypes
  <2>10. /\ \A q \in Projects : project'[q].life # "unused" => KnownProject(q)
         /\ \A u \in Tasks : task'[u].life # "unused" => KnownTask(u)
         /\ \A d \in Comments : comment'[d].life # "unused" => KnownComment(d) \/ d = c
    BY <1>1, <2>7 DEF KnownProject, KnownTask, KnownComment
  <2>11. ASSUME NEW d \in Comments, d = c PROVE CommentRooted(d)'
    <3>1. comment'[d].task = t /\ comment'[d].by = a
      BY <2>7, <2>11
    <3>2. task'[t].life # "unused" /\ project'[task'[t].project].ws = w
      BY <1>1, <2>3, <2>4 DEF KnownTask, WorkspaceOf
    <3> QED BY <1>1, <2>3, <2>4, <3>1, <3>2
            DEF CommentRooted, WorkspaceOf, WasMember, IsMember, KnownTask
  <2>12. Rooted'
    BY <1>1, <2>5, <2>8, <2>9, <2>10, <2>11, RootedKept
  <2>13. NoOrphanItems'
    <3>1. ASSUME NEW d \in Comments, comment'[d].life = "live"
          PROVE  task'[comment'[d].task].life = "live"
      BY <1>1, <1>4, <2>5, <2>7, <3>1 DEF DbInv, NoOrphanItems, t
    <3> QED BY <1>1, <2>5, <3>1 DEF DbInv, NoOrphanItems
  <2>14. DbInv'
    BY <2>9, <2>12, <2>13 DEF DbInv
  <2>15. \A d \in Comments : comment'[d].life # "unused" =>
           KnownComment(d) \/ (req[r].op = "createComment" /\ req[r].comment = d)
    BY <1>1, <2>10 DEF c
  <2> QED BY <1>1, <1>2, <2>8, <2>10, <2>14, <2>15, WriteStep
<1> QED BY <1>3, <1>4

\* An update of a comment leaves its row as it is.
LEMMA UpdateCommentStep ==
  ASSUME IInv, NEW r \in Requests, UpdateComment(r) PROVE IInv'
  BY AnswerStep DEF UpdateComment, members, IInv, OtherTypes

\* An update moves the status with its history row, and assigns a member.
LEMMA UpdateTaskStep ==
  ASSUME IInv, NEW r \in Requests, UpdateTask(r) PROVE IInv'
<1> DEFINE t == req[r].task
           w == req[r].ws
           a == req[r].actor
           x == req[r].target
<1>1. /\ At(r, "write") /\ req[r].op = "updateTask" /\ Answer(r)
      /\ UNCHANGED <<live, role, left, project, comment>>
      /\ UNCHANGED <<cache, sent, changes>>
  BY DEF UpdateTask, Doing, members
<1>2. OtherTypes'
  BY <1>1 DEF IInv, OtherTypes
<1>3. CASE task[t].life # "live"
  BY <1>1, <1>2, <1>3, AnswerStep DEF UpdateTask, tables
<1>4. CASE task[t].life = "live"
  <2>1. PICK s \in TaskStatuses \cup {Nil}, u \in Assigned(r, t) :
          /\ task' = Patched(t, s, u)
          /\ history' = IF s \in {Nil, req[r].old} THEN history
                        ELSE [history EXCEPT ![t] = Append(@,
                          [by |-> req[r].actor, old |-> req[r].old, new |-> s])]
    BY <1>4 DEF UpdateTask
  <2>2. req[r] \in RequestRecord /\ Ids(req[r]) /\ Checked(req[r], "write")
    BY <1>1, RequestFacts DEF At
  <2>3. t \in Tasks /\ KnownTask(t) /\ w \in Workspaces /\ a \in Users
    BY <1>1, <2>2 DEF Ids, ExistingTaskOps
  <2>4. /\ InProject(req[r]) /\ OnTask(req[r]) /\ Admitted(req[r])
        /\ req[r].old \in TaskStatuses /\ x \in Users \cup {Nil}
        /\ x # Nil => WasMember(w, x)
    BY <1>1, <2>2 DEF Checked, RequestRecord
  <2>5. WorkspaceOf(t) = w /\ WasMember(w, a)
    BY <2>4 DEF InProject, OnTask, Admitted, WorkspaceOf
  <2>6. DbInv /\ TaskRooted(t) /\ task \in [Tasks -> TaskRows]
        /\ history \in [Tasks -> Seq(HistoryRows)]
    BY <2>3 DEF IInv, DbInv, Rooted, TableTypes
  <2>7. u \in Users \cup {Nil} /\ (u # Nil => WasMember(w, u))
    <3>1. task[t].assignee \in Users \cup {Nil}
      BY <2>3, <2>6 DEF TaskRows
    <3>2. task[t].assignee # Nil => WasMember(w, task[t].assignee)
      BY <2>5, <2>6 DEF TaskRooted
    <3> QED BY <2>1, <2>4, <3>1, <3>2 DEF Assigned
  <2> DEFINE status == IF s = Nil THEN task[t].status ELSE s
             row == [by |-> a, old |-> req[r].old, new |-> s]
  <2>8. status \in TaskStatuses
    BY <2>1, <2>6 DEF TaskRooted
  <2>9. task' = [task EXCEPT ![t] = [task[t] EXCEPT !.status = status, !.assignee = u]]
    BY <2>1 DEF Patched
  <2>10. \A v \in Tasks \ {t} : task'[v] = task[v]
    BY <2>3, <2>6, <2>9
  <2>11. /\ task'[t] \in TaskRows /\ task'[t].life = task[t].life
         /\ task'[t].project = task[t].project /\ task'[t].by = task[t].by
         /\ task'[t].status = status /\ task'[t].assignee = u
    <3> DEFINE new == [task[t] EXCEPT !.status = status, !.assignee = u]
    <3>1. task'[t] = new
      BY <2>3, <2>6, <2>9
    <3>2. task[t] \in TaskRows
      BY <2>3, <2>6
    <3> HIDE DEF status
    <3>3. /\ new \in TaskRows /\ new.life = task[t].life /\ new.project = task[t].project
          /\ new.by = task[t].by /\ new.status = status /\ new.assignee = u
      BY <3>2, <2>7, <2>8 DEF TaskRows
    <3> QED BY <3>1, <3>3
  <2>12. task' \in [Tasks -> TaskRows]
    BY <2>6, <2>9, <2>10, <2>11
  <2>13. /\ \A v \in Tasks \ {t} : history'[v] = history[v]
         /\ history'[t] = history[t] \/ history'[t] = Append(history[t], row)
         /\ history' \in [Tasks -> Seq(HistoryRows)]
    <3>1. CASE s \in {Nil, req[r].old}
      BY <3>1, <2>1, <2>6
    <3>2. CASE s \notin {Nil, req[r].old}
      <4>1. row \in HistoryRows
        BY <2>1, <2>3, <2>4, <3>2 DEF HistoryRows
      <4>2. history[t] \in Seq(HistoryRows)
        BY <2>3, <2>6
      <4>3. history' = [history EXCEPT ![t] = Append(history[t], row)]
        BY <2>1, <3>2
      <4>4. Append(history[t], row) \in Seq(HistoryRows)
        BY <4>1, <4>2
      <4> HIDE DEF row
      <4> QED BY <2>3, <2>6, <4>3, <4>4
    <3> QED BY <3>1, <3>2
  <2>14. Keeps
    BY <1>1, <2>3, <2>10, <2>11, MembersKept DEF Keeps, KnownProject, KnownTask, KnownComment
  <2>15. TableTypes'
    BY <1>1, <2>6, <2>12, <2>13 DEF DbInv, TableTypes
  <2>16. \A i \in DOMAIN history'[t] : WasMember(w, history'[t][i].by)
    <3>1. \A i \in DOMAIN history[t] : WasMember(w, history[t][i].by)
      BY <2>5, <2>6 DEF TaskRooted
    <3>2. CASE history'[t] = history[t]
      BY <3>1, <3>2
    <3>3. CASE history'[t] = Append(history[t], row)
      <4> DEFINE h == history[t]
      <4>1. h \in Seq(HistoryRows)
        BY <2>3, <2>6
      <4> SUFFICES ASSUME NEW i \in DOMAIN Append(h, row)
                   PROVE  WasMember(w, Append(h, row)[i].by)
        BY <3>3
      <4>2. CASE i \in DOMAIN h
        <5>1. Append(h, row)[i] = h[i]
          BY <4>1, <4>2
        <5> QED BY <3>1, <4>2, <5>1
      <4>3. CASE i \notin DOMAIN h
        <5>1. i = Len(h) + 1
          BY <4>1, <4>3
        <5>2. Append(h, row)[i] = row
          BY <4>1, <5>1
        <5>3. Append(h, row)[i].by = a
          BY <5>2
        <5> QED BY <2>5, <5>3
      <4> QED BY <4>2, <4>3
    <3> QED BY <2>13, <3>2, <3>3
  <2>17. ASSUME NEW v \in Tasks, v = t PROVE TaskRooted(v)'
    <3>1. /\ task'[v].project = task[t].project /\ task'[v].by = task[t].by
          /\ task'[v].status \in TaskStatuses /\ task'[v].assignee = u
          /\ \A i \in DOMAIN history'[v] : WasMember(w, history'[v][i].by)
      BY <2>8, <2>11, <2>16, <2>17
    <3>2. /\ task[t].project \in Projects /\ project[task[t].project].life # "unused"
          /\ project[task[t].project].ws = w
          /\ task[t].by \in Users /\ WasMember(w, task[t].by)
      BY <2>5, <2>6 DEF TaskRooted, KnownProject, WorkspaceOf
    <3> QED BY <1>1, <2>7, <3>1, <3>2
            DEF TaskRooted, WorkspaceOf, WasMember, IsMember, KnownProject
  <2>18. /\ \A q \in Projects : project'[q].life # "unused" => KnownProject(q)
         /\ \A v \in Tasks : task'[v].life # "unused" => KnownTask(v)
         /\ \A c \in Comments : comment'[c].life # "unused" => KnownComment(c)
    BY <1>1, <2>10, <2>11 DEF KnownProject, KnownTask, KnownComment
  <2>19. Rooted'
    <3>1. \A v \in Tasks : task'[v].life # "unused" =>
            \/ TaskRooted(v)'
            \/ /\ KnownTask(v)
               /\ task'[v].status = task[v].status /\ task'[v].assignee = task[v].assignee
               /\ history'[v] = history[v]
      BY <2>10, <2>13, <2>17, <2>18
    <3> QED BY <2>6, <2>14, <2>15, <2>18, <3>1, RootedKept
  <2>20. NoOrphanItems'
    <3>1. \A v \in Tasks : task'[v].life = task[v].life /\ task'[v].project = task[v].project
      BY <2>10, <2>11
    <3>2. ASSUME NEW c \in Comments, comment[c].life = "live"
          PROVE  task'[comment[c].task].life = "live"
      <4>1. KnownComment(c) /\ task[comment[c].task].life = "live"
        BY <2>6, <3>2 DEF DbInv, NoOrphanItems, KnownComment
      <4>2. comment[c].task \in Tasks
        BY <2>6, <4>1 DEF DbInv, Rooted, CommentRooted
      <4> QED BY <3>1, <4>1, <4>2
    <3>3. ASSUME NEW v \in Tasks, history'[v] # <<>> PROVE task'[v].life = "live"
      BY <1>4, <2>6, <2>13, <3>1, <3>3 DEF DbInv, NoOrphanItems
    <3> QED BY <1>1, <2>6, <3>1, <3>2, <3>3 DEF DbInv, NoOrphanItems
  <2>21. DbInv'
    BY <2>15, <2>19, <2>20 DEF DbInv
  <2> QED BY <1>1, <1>2, <2>14, <2>18, <2>21, WriteStep
<1> QED BY <1>3, <1>4

-----------------------------------------------------------------------------
(* Deletes.                                                                *)

\* What a delete leaves of a row.
LEMMA GoneRow ==
  /\ \A row \in ProjectRows :
       /\ Gone(row) \in ProjectRows /\ Gone(row).ws = row.ws /\ Gone(row).by = row.by
       /\ Gone(row).life # "live" /\ (Gone(row).life = "unused" <=> row.life = "unused")
  /\ \A row \in TaskRows :
       /\ Gone(row) \in TaskRows /\ Gone(row).project = row.project /\ Gone(row).by = row.by
       /\ Gone(row).status = row.status /\ Gone(row).assignee = row.assignee
       /\ Gone(row).life # "live" /\ (Gone(row).life = "unused" <=> row.life = "unused")
  /\ \A row \in CommentRows :
       /\ Gone(row) \in CommentRows /\ Gone(row).task = row.task /\ Gone(row).by = row.by
       /\ Gone(row).life # "live" /\ (Gone(row).life = "unused" <=> row.life = "unused")
<1>1. ASSUME NEW row \in ProjectRows
      PROVE  /\ Gone(row) \in ProjectRows /\ Gone(row).ws = row.ws /\ Gone(row).by = row.by
             /\ Gone(row).life # "live" /\ (Gone(row).life = "unused" <=> row.life = "unused")
  BY DEF Gone, ProjectRows, Lives
<1>2. ASSUME NEW row \in TaskRows
      PROVE  /\ Gone(row) \in TaskRows /\ Gone(row).project = row.project
             /\ Gone(row).by = row.by
             /\ Gone(row).status = row.status /\ Gone(row).assignee = row.assignee
             /\ Gone(row).life # "live" /\ (Gone(row).life = "unused" <=> row.life = "unused")
  BY DEF Gone, TaskRows, Lives
<1>3. ASSUME NEW row \in CommentRows
      PROVE  /\ Gone(row) \in CommentRows /\ Gone(row).task = row.task
             /\ Gone(row).by = row.by
             /\ Gone(row).life # "live" /\ (Gone(row).life = "unused" <=> row.life = "unused")
  BY DEF Gone, CommentRows, Lives
<1> QED BY <1>1, <1>2, <1>3

\* Tasks ts are deleted, and with them their history and comments.
LEMMA DropTasksEffect ==
  ASSUME DbInv, NEW ts \in SUBSET Tasks, DropTasks(ts)
  PROVE  /\ task' \in [Tasks -> TaskRows] /\ comment' \in [Comments -> CommentRows]
         /\ history' \in [Tasks -> Seq(HistoryRows)]
         /\ \A t \in Tasks :
              /\ task'[t].project = task[t].project /\ task'[t].by = task[t].by
              /\ task'[t].status = task[t].status /\ task'[t].assignee = task[t].assignee
              /\ task'[t].life = "unused" <=> task[t].life = "unused"
              /\ task'[t].life = "live" <=> task[t].life = "live" /\ t \notin ts
              /\ history'[t] = IF t \in ts THEN <<>> ELSE history[t]
         /\ \A c \in Comments :
              /\ comment'[c].task = comment[c].task /\ comment'[c].by = comment[c].by
              /\ comment'[c].life = "unused" <=> comment[c].life = "unused"
              /\ comment'[c].life = "live" =>
                   comment[c].life = "live" /\ comment[c].task \notin ts
<1>1. /\ task \in [Tasks -> TaskRows] /\ comment \in [Comments -> CommentRows]
      /\ history \in [Tasks -> Seq(HistoryRows)]
  BY DEF DbInv, TableTypes
<1>2. /\ task' = [t \in Tasks |-> IF t \in ts THEN Gone(task[t]) ELSE task[t]]
      /\ history' = [t \in Tasks |-> IF t \in ts THEN <<>> ELSE history[t]]
      /\ comment' = [c \in Comments |->
                       IF comment[c].task \in ts THEN Gone(comment[c]) ELSE comment[c]]
  BY DEF DropTasks
<1>3. ASSUME NEW t \in Tasks
      PROVE  /\ task'[t] \in TaskRows
             /\ task'[t].project = task[t].project /\ task'[t].by = task[t].by
             /\ task'[t].status = task[t].status /\ task'[t].assignee = task[t].assignee
             /\ task'[t].life = "unused" <=> task[t].life = "unused"
             /\ task'[t].life = "live" <=> task[t].life = "live" /\ t \notin ts
             /\ history'[t] = IF t \in ts THEN <<>> ELSE history[t]
             /\ history'[t] \in Seq(HistoryRows)
  <2>1. CASE t \in ts
    <3>1. task'[t] = Gone(task[t]) /\ history'[t] = <<>> /\ task[t] \in TaskRows
      BY <1>1, <1>2, <2>1
    <3>2. <<>> \in Seq(HistoryRows)
      OBVIOUS
    <3> QED BY <2>1, <3>1, <3>2, GoneRow
  <2>2. CASE t \notin ts
    <3>1. task'[t] = task[t] /\ history'[t] = history[t]
      BY <1>2, <2>2
    <3> QED BY <1>1, <2>2, <3>1
  <2> QED BY <2>1, <2>2
<1>4. ASSUME NEW c \in Comments
      PROVE  /\ comment'[c] \in CommentRows
             /\ comment'[c].task = comment[c].task /\ comment'[c].by = comment[c].by
             /\ comment'[c].life = "unused" <=> comment[c].life = "unused"
             /\ comment'[c].life = "live" =>
                  comment[c].life = "live" /\ comment[c].task \notin ts
  <2>1. CASE comment[c].task \in ts
    <3>1. comment'[c] = Gone(comment[c]) /\ comment[c] \in CommentRows
      BY <1>1, <1>2, <2>1
    <3> QED BY <3>1, GoneRow
  <2>2. CASE comment[c].task \notin ts
    <3>1. comment'[c] = comment[c]
      BY <1>2, <2>2
    <3> QED BY <1>1, <2>2, <3>1
  <2> QED BY <2>1, <2>2
<1>5. task' \in [Tasks -> TaskRows] /\ history' \in [Tasks -> Seq(HistoryRows)]
  BY <1>2, <1>3
<1>6. comment' \in [Comments -> CommentRows]
  BY <1>2, <1>4
<1> QED BY <1>3, <1>4, <1>5, <1>6

\* A delete keeps what Keeps asks for, makes nothing known and leaves no
\* orphan of the tasks that are gone.
LEMMA DropKeeps ==
  ASSUME DbInv, NEW ts \in SUBSET Tasks, DropTasks(ts),
         live' \subseteq live, role' \in [Workspaces \X Users -> {"none", "MEMBER", "OWNER"}],
         left' \subseteq Workspaces \X Users,
         \A w \in Workspaces, u \in Users :
           /\ WasMember(w, u) => role'[<<w, u>>] # "none" \/ <<w, u>> \in left'
           /\ IsOwner(w, u) => role'[<<w, u>>] = "OWNER" \/ w \notin live',
         project' \in [Projects -> ProjectRows],
         \A p \in Projects :
           /\ project'[p].ws = project[p].ws /\ project'[p].by = project[p].by
           /\ project'[p].life = "unused" <=> project[p].life = "unused",
         \A p \in Projects : project'[p].life = "live" =>
           project[p].life = "live" /\ project[p].ws \in live',
         \A t \in Tasks : task[t].life = "live" /\ t \notin ts =>
           project'[task[t].project].life = "live"
  PROVE  /\ DbInv' /\ Keeps
         /\ \A p \in Projects : project'[p].life # "unused" => KnownProject(p)
         /\ \A t \in Tasks : task'[t].life # "unused" => KnownTask(t)
         /\ \A c \in Comments : comment'[c].life # "unused" => KnownComment(c)
<1>1. /\ \A p \in Projects : project'[p].life # "unused" => KnownProject(p)
      /\ \A t \in Tasks : task'[t].life # "unused" => KnownTask(t)
      /\ \A c \in Comments : comment'[c].life # "unused" => KnownComment(c)
  BY DropTasksEffect DEF KnownProject, KnownTask, KnownComment
<1>2. Keeps
  <2>1. \A t \in Tasks : KnownTask(t) =>
          /\ task'[t].life # "unused"
          /\ task'[t].project = task[t].project /\ task'[t].by = task[t].by
    BY DropTasksEffect DEF KnownTask
  <2>2. \A c \in Comments : KnownComment(c) =>
          /\ comment'[c].life # "unused"
          /\ comment'[c].task = comment[c].task /\ comment'[c].by = comment[c].by
    BY DropTasksEffect DEF KnownComment
  <2>3. \A p \in Projects : KnownProject(p) =>
          /\ project'[p].life # "unused"
          /\ project'[p].ws = project[p].ws /\ project'[p].by = project[p].by
    BY DEF KnownProject
  <2> QED BY <2>1, <2>2, <2>3 DEF Keeps
<1>3. TableTypes'
  BY DropTasksEffect DEF DbInv, TableTypes
<1>4. Rooted'
  <2>1. \A t \in Tasks : task'[t].life # "unused" =>
          /\ KnownTask(t)
          /\ task'[t].status = task[t].status /\ task'[t].assignee = task[t].assignee
          /\ history'[t] = history[t] \/ history'[t] = <<>>
    BY <1>1, DropTasksEffect
  <2> QED BY <1>1, <1>2, <1>3, <2>1, RootedKept
<1>5. NoOrphanItems'
  <2>1. ASSUME NEW t \in Tasks, task'[t].life = "live"
        PROVE  project'[task'[t].project].life = "live"
    BY <2>1, DropTasksEffect
  <2>2. ASSUME NEW c \in Comments, comment'[c].life = "live"
        PROVE  task'[comment'[c].task].life = "live"
    <3>1. /\ comment[c].life = "live" /\ comment[c].task \notin ts
          /\ comment'[c].task = comment[c].task
      BY <2>2, DropTasksEffect
    <3>2. KnownComment(c) /\ task[comment[c].task].life = "live"
      BY <3>1 DEF DbInv, NoOrphanItems, KnownComment
    <3>3. comment[c].task \in Tasks
      BY <3>2 DEF DbInv, Rooted, CommentRooted
    <3> QED BY <3>1, <3>2, <3>3, DropTasksEffect
  <2>3. ASSUME NEW t \in Tasks, history'[t] # <<>> PROVE task'[t].life = "live"
    <3>1. t \notin ts /\ history[t] # <<>>
      BY <2>3, DropTasksEffect
    <3>2. task[t].life = "live"
      BY <3>1 DEF DbInv, NoOrphanItems
    <3> QED BY <3>1, <3>2, DropTasksEffect
  <2>4. \A p \in Projects : project'[p].life = "live" => project'[p].ws \in live'
    OBVIOUS
  <2> QED BY <2>1, <2>2, <2>3, <2>4 DEF NoOrphanItems
<1> QED BY <1>1, <1>2, <1>3, <1>4, <1>5 DEF DbInv

\* The tasks of the projects that go are the ones that go.
LEMMA DropProjectsEffect ==
  ASSUME DbInv, NEW ps \in SUBSET Projects, DropProjects(ps)
  PROVE  LET ts == {t \in Tasks : task[t].project \in ps} IN
         /\ ts \in SUBSET Tasks /\ DropTasks(ts)
         /\ project' \in [Projects -> ProjectRows]
         /\ \A p \in Projects :
              /\ project'[p].ws = project[p].ws /\ project'[p].by = project[p].by
              /\ project'[p].life = "unused" <=> project[p].life = "unused"
              /\ project'[p].life = "live" <=> project[p].life = "live" /\ p \notin ps
         /\ \A t \in Tasks : task[t].life = "live" /\ t \notin ts =>
              project'[task[t].project].life = "live"
<1> DEFINE ts == {t \in Tasks : task[t].project \in ps}
<1>1. ts \in SUBSET Tasks /\ DropTasks(ts)
  BY DEF DropProjects
<1>2. project \in [Projects -> ProjectRows]
  BY DEF DbInv, TableTypes
<1>3. project' = [p \in Projects |-> IF p \in ps THEN Gone(project[p]) ELSE project[p]]
  BY DEF DropProjects
<1>4. ASSUME NEW p \in Projects
      PROVE  /\ project'[p] \in ProjectRows
             /\ project'[p].ws = project[p].ws /\ project'[p].by = project[p].by
             /\ project'[p].life = "unused" <=> project[p].life = "unused"
             /\ project'[p].life = "live" <=> project[p].life = "live" /\ p \notin ps
  <2>1. CASE p \in ps
    <3>1. project'[p] = Gone(project[p]) /\ project[p] \in ProjectRows
      BY <1>2, <1>3, <2>1
    <3> QED BY <2>1, <3>1, GoneRow
  <2>2. CASE p \notin ps
    <3>1. project'[p] = project[p]
      BY <1>3, <2>2
    <3> QED BY <1>2, <2>2, <3>1
  <2> QED BY <2>1, <2>2
<1>5. project' \in [Projects -> ProjectRows]
  BY <1>3, <1>4
<1>6. ASSUME NEW t \in Tasks, task[t].life = "live", t \notin ts
      PROVE  project'[task[t].project].life = "live"
  <2>1. project[task[t].project].life = "live" /\ KnownTask(t)
    BY <1>6 DEF DbInv, NoOrphanItems, KnownTask
  <2>2. task[t].project \in Projects
    BY <2>1 DEF DbInv, Rooted, TaskRooted
  <2>3. task[t].project \notin ps
    BY <1>6
  <2> QED BY <1>4, <2>1, <2>2, <2>3
<1> HIDE DEF ts
<1>7. /\ ts \in SUBSET Tasks /\ DropTasks(ts)
      /\ project' \in [Projects -> ProjectRows]
      /\ \A p \in Projects :
           /\ project'[p].ws = project[p].ws /\ project'[p].by = project[p].by
           /\ project'[p].life = "unused" <=> project[p].life = "unused"
           /\ project'[p].life = "live" <=> project[p].life = "live" /\ p \notin ps
      /\ \A t \in Tasks : task[t].life = "live" /\ t \notin ts =>
           project'[task[t].project].life = "live"
  BY <1>1, <1>4, <1>5, <1>6
<1> QED BY <1>7 DEF ts

\* removeProject deletes the project with all that is below it.
LEMMA DeleteProjectStep ==
  ASSUME IInv, NEW r \in Requests, DeleteProject(r) PROVE IInv'
<1> DEFINE p == req[r].project
           ts == {t \in Tasks : task[t].project \in {p}}
<1>1. /\ At(r, "write") /\ req[r].op = "removeProject"
      /\ UNCHANGED <<live, role, left>> /\ UNCHANGED <<cache, sent, changes>>
  BY DEF DeleteProject, Doing, members
<1>2. OtherTypes' /\ DbInv
  BY <1>1 DEF IInv, OtherTypes
<1>3. CASE project[p].life # "live"
  BY <1>1, <1>2, <1>3, AnswerStep DEF DeleteProject
<1>4. CASE project[p].life = "live"
  <2>1. DropProjects({p}) /\ Goto(r, "purgeDetail")
    BY <1>4 DEF DeleteProject
  <2>2. {p} \in SUBSET Projects
    BY <1>1, RequestFacts DEF Ids, ExistingProjectOps
  <2>3. /\ ts \in SUBSET Tasks /\ DropTasks(ts)
        /\ project' \in [Projects -> ProjectRows]
        /\ \A q \in Projects :
             /\ project'[q].ws = project[q].ws /\ project'[q].by = project[q].by
             /\ project'[q].life = "unused" <=> project[q].life = "unused"
             /\ project'[q].life = "live" <=> project[q].life = "live" /\ q \notin {p}
        /\ \A t \in Tasks : task[t].life = "live" /\ t \notin ts =>
             project'[task[t].project].life = "live"
    BY <1>2, <2>1, <2>2, DropProjectsEffect
  <2> HIDE DEF ts, p
  <2>4. /\ role' \in [Workspaces \X Users -> {"none", "MEMBER", "OWNER"}]
        /\ left' \subseteq Workspaces \X Users
    BY <1>1, <1>2 DEF DbInv, TableTypes
  <2>5. \A q \in Projects : project'[q].life = "live" =>
          project[q].life = "live" /\ project[q].ws \in live'
    BY <1>1, <1>2, <2>3 DEF DbInv, NoOrphanItems
  <2>6. /\ DbInv' /\ Keeps
        /\ \A q \in Projects : project'[q].life # "unused" => KnownProject(q)
        /\ \A t \in Tasks : task'[t].life # "unused" => KnownTask(t)
        /\ \A c \in Comments : comment'[c].life # "unused" => KnownComment(c)
    BY <1>1, <1>2, <2>3, <2>4, <2>5, MembersKept, DropKeeps
  <2>7. Stages(req[r].op, "purgeDetail")
    BY <1>1 DEF Stages, ExistingCommentOps
  <2> QED BY <1>1, <1>2, <2>1, <2>6, <2>7, WriteStep
<1> QED BY <1>3, <1>4

\* The delete of a task.
LEMMA DeleteTaskStep ==
  ASSUME IInv, NEW r \in Requests, DeleteTask(r) PROVE IInv'
<1> DEFINE t == req[r].task
<1>1. /\ At(r, "write") /\ req[r].op = "removeTask" /\ Answer(r)
      /\ UNCHANGED <<live, role, left, project>> /\ UNCHANGED <<cache, sent, changes>>
  BY DEF DeleteTask, Doing, members
<1>2. OtherTypes' /\ DbInv
  BY <1>1 DEF IInv, OtherTypes
<1>3. CASE task[t].life # "live"
  BY <1>1, <1>2, <1>3, AnswerStep DEF DeleteTask, tables
<1>4. CASE task[t].life = "live"
  <2>1. DropTasks({t})
    BY <1>4 DEF DeleteTask
  <2>2. {t} \in SUBSET Tasks
    BY <1>1, RequestFacts DEF Ids, ExistingTaskOps
  <2> HIDE DEF t
  <2>3. /\ role' \in [Workspaces \X Users -> {"none", "MEMBER", "OWNER"}]
        /\ left' \subseteq Workspaces \X Users /\ project' \in [Projects -> ProjectRows]
    BY <1>1, <1>2 DEF DbInv, TableTypes
  <2>4. \A q \in Projects : project'[q].life = "live" =>
          project[q].life = "live" /\ project[q].ws \in live'
    BY <1>1, <1>2 DEF DbInv, NoOrphanItems
  <2>5. \A u \in Tasks : task[u].life = "live" /\ u \notin {t} =>
          project'[task[u].project].life = "live"
    BY <1>1, <1>2 DEF DbInv, NoOrphanItems
  <2>6. \A q \in Projects :
          /\ project'[q].ws = project[q].ws /\ project'[q].by = project[q].by
          /\ project'[q].life = "unused" <=> project[q].life = "unused"
    BY <1>1
  <2>7. /\ DbInv' /\ Keeps
        /\ \A q \in Projects : project'[q].life # "unused" => KnownProject(q)
        /\ \A u \in Tasks : task'[u].life # "unused" => KnownTask(u)
        /\ \A c \in Comments : comment'[c].life # "unused" => KnownComment(c)
    BY <1>1, <1>2, <2>1, <2>2, <2>3, <2>4, <2>5, <2>6, MembersKept, DropKeeps
  <2> QED BY <1>1, <1>2, <2>7, WriteStep
<1> QED BY <1>3, <1>4

\* The delete of a comment.
LEMMA DeleteCommentStep ==
  ASSUME IInv, NEW r \in Requests, DeleteComment(r) PROVE IInv'
<1> DEFINE c == req[r].comment
<1>1. /\ At(r, "write") /\ req[r].op = "removeComment" /\ Answer(r)
      /\ UNCHANGED <<live, role, left, project, task, history>>
      /\ UNCHANGED <<cache, sent, changes>>
  BY DEF DeleteComment, Doing, members
<1>2. OtherTypes' /\ DbInv /\ comment \in [Comments -> CommentRows]
  BY <1>1 DEF IInv, OtherTypes, DbInv, TableTypes
<1>3. c \in Comments /\ comment' = [comment EXCEPT ![c] = Gone(comment[c])]
  BY <1>1, RequestFacts DEF DeleteComment, Ids, ExistingCommentOps
<1> HIDE DEF c
<1>4. ASSUME NEW d \in Comments
      PROVE  /\ comment'[d] \in CommentRows
             /\ comment'[d].task = comment[d].task /\ comment'[d].by = comment[d].by
             /\ comment'[d].life = "unused" <=> comment[d].life = "unused"
             /\ comment'[d].life = "live" => comment[d].life = "live"
  <2>1. CASE d = c
    <3>1. comment'[d] = Gone(comment[d]) /\ comment[d] \in CommentRows
      BY <1>2, <1>3, <2>1
    <3> QED BY <3>1, GoneRow
  <2>2. CASE d # c
    <3>1. comment'[d] = comment[d]
      BY <1>2, <1>3, <2>2
    <3> QED BY <1>2, <3>1
  <2> QED BY <2>1, <2>2
<1>5. comment' \in [Comments -> CommentRows]
  BY <1>2, <1>3, <1>4
<1>6. /\ \A q \in Projects : project'[q].life # "unused" => KnownProject(q)
      /\ \A u \in Tasks : task'[u].life # "unused" => KnownTask(u)
      /\ \A d \in Comments : comment'[d].life # "unused" => KnownComment(d)
  BY <1>1, <1>4 DEF KnownProject, KnownTask, KnownComment
<1>7. Keeps
  BY <1>1, <1>4, MembersKept DEF Keeps, KnownProject, KnownTask, KnownComment
<1>8. TableTypes'
  BY <1>1, <1>2, <1>5 DEF DbInv, TableTypes
<1>9. Rooted'
  BY <1>1, <1>2, <1>6, <1>7, <1>8, RootedKept
<1>10. NoOrphanItems'
  <2>1. \A d \in Comments : comment'[d].life = "live" => task'[comment'[d].task].life = "live"
    BY <1>1, <1>2, <1>4 DEF DbInv, NoOrphanItems
  <2> QED BY <1>1, <1>2, <2>1 DEF DbInv, NoOrphanItems
<1>11. DbInv'
  BY <1>8, <1>9, <1>10 DEF DbInv
<1> QED BY <1>1, <1>2, <1>6, <1>7, <1>11, WriteStep

-----------------------------------------------------------------------------
(* Members come and go, workspaces are deleted.                            *)

\* A change of the members or workspaces that keeps what Keeps asks for.
LEMMA EnvironmentKeeps ==
  ASSUME IInv, DbInv', Keeps, OtherTypes', req' = req,
         \A p \in Projects : project'[p].life # "unused" => KnownProject(p),
         \A t \in Tasks : task'[t].life # "unused" => KnownTask(t),
         \A c \in Comments : comment'[c].life # "unused" => KnownComment(c)
  PROVE  IInv'
<1>1. ASSUME NEW s \in Requests PROVE Sound(req[s])'
  <2>1. Ids(req[s]) /\ req'[s] = req[s]
    BY RequestFacts
  <2>2. StillFresh(s)
    BY <2>1 DEF StillFresh, Ids, TaskOps, CommentOps
  <2> QED BY <2>1, <2>2, SoundKept
<1>2. FreshIds' /\ req' \in [Requests -> RequestRecord]
  BY DEF IInv, FreshIds
<1> QED BY <1>1, <1>2 DEF IInv

\* A user joins, or a member who is not the owner is removed.
LEMMA MemberStep ==
  ASSUME IInv, NEW w \in Workspaces, NEW u \in Users,
         Join(w, u) \/ RemoveMember(w, u), OtherTypes', req' = req
  PROVE  IInv'
<1>1. /\ live' = live /\ UNCHANGED tables
      /\ project' = project /\ task' = task /\ comment' = comment /\ history' = history
  BY DEF Join, RemoveMember, tables
<1>2. DbInv /\ role \in [Workspaces \X Users -> {"none", "MEMBER", "OWNER"}]
        /\ left \subseteq Workspaces \X Users
  BY DEF IInv, DbInv, TableTypes
<1>3. /\ role' \in [Workspaces \X Users -> {"none", "MEMBER", "OWNER"}]
      /\ left' \subseteq Workspaces \X Users
  BY <1>2 DEF Join, RemoveMember
<1>4. ASSUME NEW v \in Workspaces, NEW x \in Users
      PROVE  /\ WasMember(v, x) => role'[<<v, x>>] # "none" \/ <<v, x>> \in left'
             /\ IsOwner(v, x) => role'[<<v, x>>] = "OWNER"
  <2>1. CASE Join(w, u)
    <3>1. role' = [role EXCEPT ![<<w, u>>] = "MEMBER"] /\ left' = left
            /\ role[<<w, u>>] = "none"
      BY <2>1 DEF Join, IsMember
    <3>2. CASE <<v, x>> = <<w, u>>
      BY <1>2, <3>1, <3>2 DEF WasMember, IsMember, IsOwner
    <3>3. CASE <<v, x>> # <<w, u>>
      <4>1. role'[<<v, x>>] = role[<<v, x>>]
        BY <1>2, <3>1, <3>3
      <4> QED BY <3>1, <4>1 DEF WasMember, IsMember, IsOwner
    <3> QED BY <3>2, <3>3
  <2>2. CASE RemoveMember(w, u)
    <3>1. /\ role' = [role EXCEPT ![<<w, u>>] = "none"] /\ left' = left \cup {<<w, u>>}
          /\ role[<<w, u>>] # "OWNER"
      BY <2>2 DEF RemoveMember, IsOwner
    <3>2. CASE <<v, x>> = <<w, u>>
      BY <3>1, <3>2 DEF IsOwner
    <3>3. CASE <<v, x>> # <<w, u>>
      <4>1. role'[<<v, x>>] = role[<<v, x>>]
        BY <1>2, <3>1, <3>3
      <4> QED BY <3>1, <4>1 DEF WasMember, IsMember, IsOwner
    <3> QED BY <3>2, <3>3
  <2> QED BY <2>1, <2>2
<1>5. Keeps
  BY <1>1, <1>4 DEF Keeps, KnownProject, KnownTask, KnownComment
<1>6. /\ \A p \in Projects : project'[p].life # "unused" => KnownProject(p)
      /\ \A t \in Tasks : task'[t].life # "unused" => KnownTask(t)
      /\ \A c \in Comments : comment'[c].life # "unused" => KnownComment(c)
  BY <1>1 DEF KnownProject, KnownTask, KnownComment
<1>7. TableTypes'
  BY <1>1, <1>2, <1>3 DEF DbInv, TableTypes
<1>8. Rooted'
  BY <1>1, <1>2, <1>5, <1>6, <1>7, RootedKept
<1>9. NoOrphanItems'
  BY <1>1, <1>2 DEF DbInv, NoOrphanItems
<1>10. DbInv'
  BY <1>7, <1>8, <1>9 DEF DbInv
<1> QED BY <1>5, <1>6, <1>10, EnvironmentKeeps

\* A workspace is deleted with its members and projects.
LEMMA DeleteWorkspaceStep ==
  ASSUME IInv, NEW w \in Workspaces, DeleteWorkspace(w), OtherTypes', req' = req
  PROVE  IInv'
<1> DEFINE ps == {p \in Projects : project[p].ws = w}
           ts == {t \in Tasks : task[t].project \in ps}
<1>1. /\ live' = live \ {w} /\ DropProjects(ps)
      /\ role' = [p \in Workspaces \X Users |-> IF p[1] = w THEN "none" ELSE role[p]]
      /\ left' = left \cup ({w} \X MembersOf(w))
  BY DEF DeleteWorkspace
<1>2. DbInv /\ role \in [Workspaces \X Users -> {"none", "MEMBER", "OWNER"}]
        /\ left \subseteq Workspaces \X Users
  BY DEF IInv, DbInv, TableTypes
<1>3. /\ ts \in SUBSET Tasks /\ DropTasks(ts)
      /\ project' \in [Projects -> ProjectRows]
      /\ \A q \in Projects :
           /\ project'[q].ws = project[q].ws /\ project'[q].by = project[q].by
           /\ project'[q].life = "unused" <=> project[q].life = "unused"
           /\ project'[q].life = "live" <=> project[q].life = "live" /\ q \notin ps
      /\ \A t \in Tasks : task[t].life = "live" /\ t \notin ts =>
           project'[task[t].project].life = "live"
  BY <1>1, <1>2, DropProjectsEffect
<1>4. \A q \in Projects : project'[q].life = "live" =>
        project[q].life = "live" /\ project[q].ws \in live'
  BY <1>1, <1>2, <1>3 DEF DbInv, NoOrphanItems
<1> HIDE DEF ps, ts
<1>5. /\ role' \in [Workspaces \X Users -> {"none", "MEMBER", "OWNER"}]
      /\ left' \subseteq Workspaces \X Users
  BY <1>1, <1>2 DEF MembersOf
<1>6. ASSUME NEW v \in Workspaces, NEW x \in Users
      PROVE  /\ WasMember(v, x) => role'[<<v, x>>] # "none" \/ <<v, x>> \in left'
             /\ IsOwner(v, x) => role'[<<v, x>>] = "OWNER" \/ v \notin live'
  <2>1. role'[<<v, x>>] = IF v = w THEN "none" ELSE role[<<v, x>>]
    BY <1>1
  <2>2. CASE v = w
    BY <1>1, <2>2 DEF WasMember, IsMember, MembersOf
  <2>3. CASE v # w
    BY <1>1, <2>1, <2>3 DEF WasMember, IsMember, IsOwner
  <2> QED BY <2>2, <2>3
<1>7. /\ DbInv' /\ Keeps
      /\ \A q \in Projects : project'[q].life # "unused" => KnownProject(q)
      /\ \A t \in Tasks : task'[t].life # "unused" => KnownTask(t)
      /\ \A c \in Comments : comment'[c].life # "unused" => KnownComment(c)
  BY <1>1, <1>2, <1>3, <1>4, <1>5, <1>6, DropKeeps
<1> QED BY <1>7, EnvironmentKeeps

\* Whatever happens to members and workspaces.
LEMMA EnvironmentStep == ASSUME IInv, Environment PROVE IInv'
<1>1. OtherTypes' /\ req' = req
  BY BoundAssumption DEF Environment, IInv, OtherTypes
<1> QED BY <1>1, DeleteWorkspaceStep, MemberStep DEF Environment

-----------------------------------------------------------------------------
(* Requests that are sent.                                                 *)

\* A free slot holds a request that carries only ids it may know or has just
\* made.
LEMMA StartStep ==
  ASSUME IInv, NEW r \in Requests, IsFree(r),
         NEW op \in ProjectOps \cup TaskOps \cup CommentOps \cup HistoryOps,
         NEW a \in Users, NEW w \in Workspaces, NEW p \in Projects \cup {Nil},
         NEW t \in Tasks \cup {Nil}, NEW c \in Comments \cup {Nil},
         Start(r, op, a, w, p, t, c),
         op # "listProjects" => p \in Projects,
         op = "createProject" => FreshProject(p),
         op \in ExistingProjectOps \cup TaskOps \cup CommentOps \cup HistoryOps =>
           KnownProject(p),
         op = "createTask" => t \in Tasks /\ FreshTask(t),
         op \in ExistingTaskOps \cup CommentOps \cup HistoryOps => t \in Tasks /\ KnownTask(t),
         op \notin TaskOps \cup CommentOps \cup HistoryOps => t = Nil,
         op = "listTasks" => t = Nil,
         op = "createComment" => c \in Comments /\ FreshComment(c),
         op \in ExistingCommentOps => c \in Comments /\ KnownComment(c),
         op \notin {"createComment"} \cup ExistingCommentOps => c = Nil,
         op = "listProjects" => p = Nil,
         UNCHANGED <<members, tables, cache>>, sent' \in 0..MaxRequests
  PROVE  IInv'
<1> DEFINE q == [Free EXCEPT !.op = op, !.pc = "workspace", !.actor = a, !.ws = w,
                             !.project = p, !.task = t, !.comment = c]
<1>1. req' = [req EXCEPT ![r] = q]
  BY DEF Start
<1>2. /\ q.op = op /\ q.pc = "workspace" /\ q.actor = a /\ q.ws = w
      /\ q.project = p /\ q.task = t /\ q.comment = c
      /\ q.target = Nil /\ q.old = Nil /\ q.seen = {} /\ q.lists = {}
  BY DEF Free
<1>3. q \in RequestRecord
  <2>1. "workspace" \in PCs /\ {} \in SUBSET Rows
    BY DEF PCs
  <2> DEFINE q1 == [Free EXCEPT !.op = op, !.pc = "workspace"]
             q2 == [q1 EXCEPT !.actor = a, !.ws = w]
             q3 == [q2 EXCEPT !.project = p, !.task = t]
  <2>2. q1 \in RequestRecord
    BY <2>1, FreeSound DEF RequestRecord
  <2> HIDE DEF q1
  <2>3. q2 \in RequestRecord
    BY <2>2 DEF RequestRecord
  <2> HIDE DEF q2
  <2>4. q3 \in RequestRecord
    BY <2>3 DEF RequestRecord
  <2> HIDE DEF q3
  <2>5. [q3 EXCEPT !.comment = c] \in RequestRecord
    BY <2>4 DEF RequestRecord
  <2> QED BY <2>5 DEF q1, q2, q3
<1> HIDE DEF q
<1>4. op # "none"
  BY DEF ProjectOps, TaskOps, CommentOps, HistoryOps
<1>5. Ids(q)
  BY <1>2, <1>4 DEF Ids, FreshProject, FreshTask, FreshComment, KnownProject, KnownTask,
                    KnownComment, ExistingProjectOps, ExistingTaskOps, ExistingCommentOps,
                    TaskOps, CommentOps, HistoryOps
<1>6. Stages(q.op, q.pc)
  BY <1>2 DEF Stages
<1>7. Checked(q, q.pc)
  BY <1>2 DEF Checked
<1>8. FreshIds'
  <2>1. \A s \in Requests : req'[s] = IF s = r THEN q ELSE req[s]
    BY <1>1 DEF IInv
  <2>2. ASSUME NEW s \in Requests \ {r}
        PROVE  /\ op = "createProject" => req[s].project # p
               /\ op = "createTask" => req[s].task # t
               /\ op = "createComment" => req[s].comment # c
    BY DEF FreshProject, FreshTask, FreshComment
  <2>3. ASSUME NEW s \in Requests \ {r}
        PROVE  /\ req[s].op = "createProject" /\ req[s].pc \in Early => req[s].project # p
               /\ req[s].op = "createTask" => req[s].task # t
               /\ req[s].op = "createComment" => req[s].comment # c
    <3>1. Ids(req[s])
      BY RequestFacts
    <3>2. CASE req[s].op = "createProject" /\ req[s].pc \in Early
      <4>1. req[s].project \in Projects /\ ~KnownProject(req[s].project)
        BY <3>1, <3>2 DEF Ids
      <4>2. op = "listProjects" \/ op = "createProject" \/ KnownProject(p)
        BY DEF ProjectOps, ExistingProjectOps
      <4> QED BY <3>2, <4>1, <4>2, <2>2, NilAssumption
    <3>3. CASE req[s].op = "createTask"
      <4>1. req[s].task \in Tasks /\ ~KnownTask(req[s].task)
        BY <3>1, <3>3 DEF Ids
      <4>2. t = Nil \/ op = "createTask" \/ KnownTask(t)
        BY DEF TaskOps, ExistingTaskOps
      <4> QED BY <3>3, <4>1, <4>2, <2>2, NilAssumption
    <3>4. CASE req[s].op = "createComment"
      <4>1. req[s].comment \in Comments /\ ~KnownComment(req[s].comment)
        BY <3>1, <3>4 DEF Ids
      <4>2. c = Nil \/ op = "createComment" \/ KnownComment(c)
        OBVIOUS
      <4> QED BY <3>4, <4>1, <4>2, <2>2, NilAssumption
    <3> QED BY <3>2, <3>3, <3>4
  <2>4. SUFFICES ASSUME NEW x \in Requests, NEW y \in Requests, x # y
                 PROVE  /\ req'[x].op = "createProject" /\ req'[x].pc \in Early =>
                             req'[y].project # req'[x].project
                        /\ req'[x].op = "createTask" => req'[y].task # req'[x].task
                        /\ req'[x].op = "createComment" => req'[y].comment # req'[x].comment
    BY DEF FreshIds
  <2>5. CASE x = r
    BY <1>2, <2>1, <2>2, <2>4, <2>5
  <2>6. CASE y = r
    BY <1>2, <2>1, <2>3, <2>4, <2>6
  <2>7. CASE x # r /\ y # r
    BY <2>1, <2>4, <2>7 DEF IInv, FreshIds
  <2> QED BY <2>5, <2>6, <2>7
<1>9. /\ DbInv' /\ OtherTypes' /\ req' \in [Requests -> RequestRecord]
      /\ live' = live /\ role' = role /\ left' = left
      /\ project' = project /\ task' = task /\ comment' = comment
  BY <1>1, <1>3, TablesKept DEF members, tables, IInv, OtherTypes
<1>10. Sound(q)
  BY <1>5, <1>6, <1>7 DEF Sound
<1>11. ASSUME NEW s \in Requests PROVE Sound(req[s])'
  <2>1. CASE s = r
    <3>1. req'[s] = q
      BY <1>1, <2>1 DEF IInv
    <3>2. Ids(req[s])' /\ Stages(req[s].op, req[s].pc)'
      BY <1>5, <1>6, <1>9, <3>1 DEF Ids, Stages, KnownProject, KnownTask, KnownComment
    <3>3. Checked(req[s], req[s].pc)'
      BY <1>2, <3>1 DEF Checked
    <3> QED BY <3>2, <3>3 DEF Sound
  <2>2. CASE s # r
    <3>1. req'[s] = req[s] /\ Ids(req[s])
      BY <1>1, <2>2, RequestFacts DEF IInv
    <3>2. Keeps
      BY <1>9, MembersKept DEF Keeps, KnownProject, KnownTask, KnownComment
    <3>3. StillFresh(s)
      BY <1>9, <3>1 DEF StillFresh, Ids, KnownProject, KnownTask, KnownComment
    <3> QED BY <3>1, <3>2, <3>3, SoundKept
  <2> QED BY <2>1, <2>2
<1> QED BY <1>8, <1>9, <1>11 DEF IInv

\* Every request a client may send.
LEMMA SendStep == ASSUME IInv, NEW r \in Requests, Send(r) PROVE IInv'
<1>1. PICK a \in Users, wp \in Paths :
        \/ ProjectRequest(r, a, wp[1], wp[2])
        \/ TaskRequest(r, a, wp[1], wp[2])
        \/ CommentRequest(r, a, wp[1], wp[2])
        \/ HistoryRequest(r, a, wp[1], wp[2])
  BY DEF Send
<1> DEFINE w == wp[1]
           p == wp[2]
<1>2. w \in Workspaces /\ p \in Projects
  BY PathAssumption
<1>3. /\ IsFree(r) /\ UNCHANGED <<members, tables, cache>> /\ sent' \in 0..MaxRequests
  BY BoundAssumption DEF Send, IInv, OtherTypes
<1> HIDE DEF w, p
<1>4. CASE ProjectRequest(r, a, w, p)
  <2>1. CASE FreshProject(p) /\ Start(r, "createProject", a, w, p, Nil, Nil)
    BY <1>2, <1>3, <2>1, StartStep
    DEF ProjectOps, TaskOps, CommentOps, HistoryOps, ExistingProjectOps, ExistingTaskOps,
        ExistingCommentOps
  <2>2. CASE Start(r, "listProjects", a, w, Nil, Nil, Nil)
    BY <1>2, <1>3, <2>2, StartStep
    DEF ProjectOps, TaskOps, CommentOps, HistoryOps, ExistingProjectOps, ExistingTaskOps,
        ExistingCommentOps
  <2>3. ASSUME KnownProject(p), NEW op \in {"findProject", "updateProject", "removeProject"},
               Start(r, op, a, w, p, Nil, Nil)
        PROVE  IInv'
    BY <1>2, <1>3, <2>3, StartStep
    DEF ProjectOps, TaskOps, CommentOps, HistoryOps, ExistingProjectOps, ExistingTaskOps,
        ExistingCommentOps
  <2> QED BY <1>4, <2>1, <2>2, <2>3 DEF ProjectRequest
<1>5. CASE TaskRequest(r, a, w, p)
  <2>1. KnownProject(p)
    BY <1>5 DEF TaskRequest
  <2>2. CASE Start(r, "listTasks", a, w, p, Nil, Nil)
    BY <1>2, <1>3, <2>1, <2>2, StartStep
    DEF ProjectOps, TaskOps, CommentOps, HistoryOps, ExistingProjectOps, ExistingTaskOps,
        ExistingCommentOps
  <2>3. ASSUME NEW t \in Tasks, FreshTask(t), Start(r, "createTask", a, w, p, t, Nil)
        PROVE  IInv'
    BY <1>2, <1>3, <2>1, <2>3, StartStep
    DEF ProjectOps, TaskOps, CommentOps, HistoryOps, ExistingProjectOps, ExistingTaskOps,
        ExistingCommentOps
  <2>4. ASSUME NEW t \in Tasks, KnownTask(t),
               NEW op \in {"findTask", "updateTask", "removeTask"},
               Start(r, op, a, w, p, t, Nil)
        PROVE  IInv'
    BY <1>2, <1>3, <2>1, <2>4, StartStep
    DEF ProjectOps, TaskOps, CommentOps, HistoryOps, ExistingProjectOps, ExistingTaskOps,
        ExistingCommentOps
  <2> QED BY <1>5, <2>2, <2>3, <2>4 DEF TaskRequest
<1>6. CASE CommentRequest(r, a, w, p)
  <2>1. KnownProject(p)
    BY <1>6 DEF CommentRequest
  <2>2. PICK t \in Tasks :
          /\ KnownTask(t)
          /\ \/ Start(r, "listComments", a, w, p, t, Nil)
             \/ \E c \in Comments :
                  \/ FreshComment(c) /\ Start(r, "createComment", a, w, p, t, c)
                  \/ /\ KnownComment(c)
                     /\ \E op \in {"updateComment", "removeComment"} :
                          Start(r, op, a, w, p, t, c)
    BY <1>6 DEF CommentRequest
  <2>3. CASE Start(r, "listComments", a, w, p, t, Nil)
    BY <1>2, <1>3, <2>1, <2>2, <2>3, StartStep
    DEF ProjectOps, TaskOps, CommentOps, HistoryOps, ExistingProjectOps, ExistingTaskOps,
        ExistingCommentOps
  <2>4. ASSUME NEW c \in Comments, FreshComment(c), Start(r, "createComment", a, w, p, t, c)
        PROVE  IInv'
    BY <1>2, <1>3, <2>1, <2>2, <2>4, StartStep
    DEF ProjectOps, TaskOps, CommentOps, HistoryOps, ExistingProjectOps, ExistingTaskOps,
        ExistingCommentOps
  <2>5. ASSUME NEW c \in Comments, KnownComment(c),
               NEW op \in {"updateComment", "removeComment"}, Start(r, op, a, w, p, t, c)
        PROVE  IInv'
    BY <1>2, <1>3, <2>1, <2>2, <2>5, StartStep
    DEF ProjectOps, TaskOps, CommentOps, HistoryOps, ExistingProjectOps, ExistingTaskOps,
        ExistingCommentOps
  <2> QED BY <2>2, <2>3, <2>4, <2>5
<1>7. CASE HistoryRequest(r, a, w, p)
  <2>1. KnownProject(p)
    BY <1>7 DEF HistoryRequest
  <2>2. PICK t \in Tasks : KnownTask(t) /\ Start(r, "listHistory", a, w, p, t, Nil)
    BY <1>7 DEF HistoryRequest
  <2> QED BY <1>2, <1>3, <2>1, <2>2, StartStep
      DEF ProjectOps, TaskOps, CommentOps, HistoryOps, ExistingProjectOps, ExistingTaskOps,
          ExistingCommentOps
<1> QED BY <1>1, <1>4, <1>5, <1>6, <1>7 DEF w, p

-----------------------------------------------------------------------------
(* The invariant.                                                          *)

\* It holds of the rows of the start, with every slot free.
LEMMA InitInv == Init => IInv
<1> SUFFICES ASSUME Init PROVE IInv
  OBVIOUS
<1>1. /\ live = Workspaces /\ role = FirstRole /\ left = {}
      /\ project = Seed.project /\ task = Seed.task /\ comment = Seed.comment
      /\ history = [t \in Tasks |-> <<>>]
      /\ req = [r \in Requests |-> Free]
  BY DEF Init
<1>2. TableTypes
  <2>1. <<>> \in Seq(HistoryRows)
    OBVIOUS
  <2>2. history \in [Tasks -> Seq(HistoryRows)]
    BY <1>1, <2>1
  <2> QED BY <1>1, <2>2, SeedAssumption DEF TableTypes
<1>3. Rooted
  <2>1. ASSUME NEW p \in Projects, KnownProject(p) PROVE ProjectRooted(p)
    BY <1>1, <2>1, SeedAssumption DEF KnownProject, ProjectRooted, WasMember, IsMember
  <2>2. ASSUME NEW t \in Tasks, KnownTask(t) PROVE TaskRooted(t)
    <3> DEFINE row == Seed.task[t]
    <3>1. /\ row.status \in TaskStatuses /\ row.by \in Users
          /\ row.project \in Projects /\ Seed.project[row.project].life = "live"
          /\ \A u \in {row.by, row.assignee} \ {Nil} :
               FirstRole[<<Seed.project[row.project].ws, u>>] # "none"
      BY <1>1, <2>2, SeedAssumption DEF KnownTask
    <3>2. row.by # Nil
      BY <3>1, NilAssumption
    <3>3. task[t] = row /\ DOMAIN history[t] = {}
      BY <1>1
    <3> HIDE DEF row
    <3>4. /\ FirstRole[<<Seed.project[row.project].ws, row.by>>] # "none"
          /\ row.assignee # Nil =>
               FirstRole[<<Seed.project[row.project].ws, row.assignee>>] # "none"
      BY <3>1, <3>2
    <3> QED BY <1>1, <3>1, <3>3, <3>4
            DEF TaskRooted, KnownProject, WorkspaceOf, WasMember, IsMember
  <2>3. ASSUME NEW c \in Comments, KnownComment(c) PROVE CommentRooted(c)
    <3>1. /\ Seed.comment[c].by \in Users /\ Seed.comment[c].task \in Tasks
          /\ Seed.task[Seed.comment[c].task].life = "live"
          /\ FirstRole[<<Seed.project[Seed.task[Seed.comment[c].task].project].ws,
                         Seed.comment[c].by>>] # "none"
      BY <1>1, <2>3, SeedAssumption DEF KnownComment
    <3> QED BY <1>1, <3>1 DEF CommentRooted, KnownTask, WorkspaceOf, WasMember, IsMember
  <2> QED BY <2>1, <2>2, <2>3 DEF Rooted
<1>4. NoOrphanItems
  <2>1. \A p \in Projects : project[p].life = "live" => project[p].ws \in live
    BY <1>1, <1>3 DEF Rooted, KnownProject, ProjectRooted
  <2>2. \A t \in Tasks : task[t].life = "live" => project[task[t].project].life = "live"
    BY <1>1, SeedAssumption
  <2>3. \A c \in Comments : comment[c].life = "live" => task[comment[c].task].life = "live"
    BY <1>1, SeedAssumption
  <2>4. \A t \in Tasks : history[t] = <<>>
    BY <1>1
  <2> QED BY <2>1, <2>2, <2>3, <2>4 DEF NoOrphanItems
<1>5. OtherTypes
  <2>1. cache \in [Key -> {Nil} \cup SUBSET Rows]
    BY DEF Init
  <2>2. sent \in 0..MaxRequests /\ changes \in 0..MaxChanges
    BY BoundAssumption DEF Init
  <2> QED BY <2>1, <2>2 DEF OtherTypes
<1>6. FreshIds
  <2>1. \A r \in Requests : req[r].op = "none"
    BY <1>1 DEF Free
  <2> QED BY <2>1 DEF FreshIds
<1>7. req \in [Requests -> RequestRecord] /\ \A r \in Requests : Sound(req[r])
  BY <1>1, FreeSound
<1> QED BY <1>2, <1>3, <1>4, <1>5, <1>6, <1>7 DEF IInv, DbInv

\* Every await of a handler keeps it.
LEMMA StepInv == ASSUME IInv, NEW r \in Requests, Step(r) PROVE IInv'
<1>1. CASE \/ ProjectCheck(r) \/ TaskCheck(r) \/ GetTask(r) \/ CommentCheck(r)
           \/ HistoryCheck(r) \/ AssertAssignee(r) \/ Read(r)
  BY <1>1, ProjectCheckStep, TaskCheckStep, GetTaskStep, CommentCheckStep, HistoryCheckStep,
     AssertAssigneeStep, ReadStep
<1>2. CASE \/ InsertProject(r) \/ UpdateProject(r) \/ DeleteProject(r)
           \/ InsertTask(r) \/ UpdateTask(r) \/ DeleteTask(r)
           \/ InsertComment(r) \/ UpdateComment(r) \/ DeleteComment(r)
  BY <1>2, InsertProjectStep, UpdateProjectStep, DeleteProjectStep, InsertTaskStep,
     UpdateTaskStep, DeleteTaskStep, InsertCommentStep, UpdateCommentStep, DeleteCommentStep
<1>3. CASE \/ CacheGet(r) \/ QueryProjects(r) \/ CacheSet(r)
           \/ PurgeDetail(r) \/ FindMemberIds(r) \/ PurgeLists(r)
  BY <1>3, CacheGetStep, QueryProjectsStep, CacheSetStep, PurgeDetailStep, FindMemberIdsStep,
     PurgeListsStep
<1> QED BY <1>1, <1>2, <1>3 DEF Step

\* Nothing moves.
LEMMA StutterStep == ASSUME IInv, UNCHANGED vars PROVE IInv'
<1>1. /\ live' = live /\ role' = role /\ left' = left /\ changes' = changes
      /\ UNCHANGED <<project, task, comment, history>>
      /\ req' = req /\ cache' = cache /\ sent' = sent
  BY DEF vars, members, tables
<1>2. DbInv' /\ OtherTypes'
  BY <1>1, TablesKept DEF IInv, OtherTypes, tables
<1>3. FreshIds' /\ req' \in [Requests -> RequestRecord]
  BY <1>1 DEF IInv, FreshIds
<1>4. ASSUME NEW s \in Requests PROVE Sound(req[s])'
  <2>1. Ids(req[s]) /\ Stages(req[s].op, req[s].pc) /\ Checked(req[s], req[s].pc)
    BY RequestFacts
  <2>2. Ids(req[s])'
    BY <1>1, <2>1 DEF Ids, KnownProject, KnownTask, KnownComment
  <2>3. Stages(req[s].op, req[s].pc)'
    BY <1>1, <2>1 DEF Stages
  <2>4. Checked(req[s], req[s].pc)'
    BY <1>1, <2>1 DEF Checked, InProject, OnTask, Admitted, CreatorOf, WasMember, IsMember,
                      IsOwner
  <2> QED BY <2>2, <2>3, <2>4 DEF Sound
<1> QED BY <1>2, <1>3, <1>4 DEF IInv

\* So does every step of the system.
LEMMA NextInv == IInv /\ [Next]_vars => IInv'
<1> SUFFICES ASSUME IInv, [Next]_vars PROVE IInv'
  OBVIOUS
<1>1. ASSUME NEW r \in Requests, Send(r) \/ Step(r) PROVE IInv'
  BY <1>1, SendStep, StepInv
<1>2. CASE Environment
  BY <1>2, EnvironmentStep
<1>3. CASE Done \/ UNCHANGED vars
  BY <1>3, StutterStep DEF Done
<1> QED BY <1>1, <1>2, <1>3 DEF Next

-----------------------------------------------------------------------------
(* What it says to a reader.                                               *)

\* The invariant of the handlers of ProjectsService, TasksService,
\* CommentsService and HistoryService, whatever awaits of them interleave.
THEOREM WorkItemsInvariance == Spec => []IInv
<1>1. IInv /\ [Next]_vars => IInv'
  BY NextInv
<1> QED BY InitInv, <1>1, PTL DEF Spec

\* The tables and the requests have their types: no update leaves a task
\* without a status (TasksService.update).
THEOREM TypeCorrectness == Spec => []TypeOK
<1>1. IInv => TypeOK
  <2> SUFFICES ASSUME IInv PROVE TypeOK
    OBVIOUS
  <2>1. ASSUME NEW t \in Tasks, task[t].life # "unused" PROVE task[t].status # Nil
    <3>1. task[t].status \in TaskStatuses
      BY <2>1 DEF IInv, DbInv, Rooted, TaskRooted, KnownTask
    <3> QED BY <3>1, NilAssumption
  <2>2. TableTypes /\ OtherTypes /\ req \in [Requests -> RequestRecord]
    BY DEF IInv, DbInv
  <2> QED BY <2>1, <2>2 DEF TypeOK, TableTypes, OtherTypes, RequestRecord
<1> QED BY WorkItemsInvariance, <1>1, PTL

\* No project, task, comment or history row outlives what it belongs to, also
\* when the insert's checks were made before the delete (schema.prisma,
\* onDelete: Cascade).
THEOREM NothingIsOrphaned == Spec => []NoOrphanItems
<1>1. IInv => NoOrphanItems
  BY DEF IInv, DbInv
<1> QED BY WorkItemsInvariance, <1>1, PTL

\* Whoever made, changed or was assigned something in a workspace was a
\* member of it once: the path a URL names is checked row by row
\* (getProjectOrThrow, getTaskOrThrow, getCommentOrThrow, assertAssignee...).
THEOREM TracesAreOfMembers == Spec => []OutsidersLeaveNoTrace
<1>1. IInv => OutsidersLeaveNoTrace
  <2> SUFFICES ASSUME IInv PROVE OutsidersLeaveNoTrace
    OBVIOUS
  <2>1. Rooted
    BY DEF IInv, DbInv
  <2>2. \A p \in Projects : project[p].life = "live" => ProjectRooted(p)
    BY <2>1 DEF Rooted, KnownProject
  <2>3. \A t \in Tasks : task[t].life = "live" => TaskRooted(t)
    BY <2>1 DEF Rooted, KnownTask
  <2>4. \A c \in Comments : comment[c].life = "live" => CommentRooted(c)
    BY <2>1 DEF Rooted, KnownComment
  <2> QED BY <2>2, <2>3, <2>4
          DEF OutsidersLeaveNoTrace, ProjectRooted, TaskRooted, CommentRooted, WorkspaceOf
<1> QED BY WorkItemsInvariance, <1>1, PTL

\* What assertCreatorOrOwner found still holds when the statement runs.
THEOREM ManagersAreStillManagers == Spec => []ManagersStayAuthorized
<1>1. IInv => ManagersStayAuthorized
  <2> SUFFICES ASSUME IInv, NEW r \in Requests, At(r, "write"), req[r].op \in ManagerOps
               PROVE  \/ TargetBy(r) = req[r].actor
                      \/ IsOwner(req[r].ws, req[r].actor)
                      \/ req[r].ws \notin live
    BY DEF ManagersStayAuthorized, ManagerOps
  <2>1. CreatorOf(req[r]) = req[r].actor \/ IsOwner(req[r].ws, req[r].actor)
          \/ req[r].ws \notin live
    BY RequestFacts DEF At, Checked
  <2>2. CreatorOf(req[r]) = TargetBy(r)
    BY DEF CreatorOf, TargetBy
  <2> QED BY <2>1, <2>2
<1> QED BY WorkItemsInvariance, <1>1, PTL

-----------------------------------------------------------------------------
(* The trail of a task.  What an update holds in old is a status the trail  *)
(* named when it was read, and a trail forgets nothing while its task lives *)
(* (TrailInv): so the row the update appends links up with the rows before. *)

\* The statuses named by the one a task was opened with and the first n rows.
NamedBy(opened, trail, n) == {opened} \cup {trail[i].new : i \in 1..n}

\* Every row changes a status named before it into another.
Chained(opened, trail) ==
  \A n \in DOMAIN trail : /\ trail[n].old \in NamedBy(opened, trail, n - 1)
                         /\ trail[n].new # trail[n].old

\* What the whole trail of t names.
NamedOf(t) == NamedBy(task[t].opened, history[t], Len(history[t]))

TrailInv ==
  \A t \in Tasks : task[t].life = "live" =>
    /\ Chained(task[t].opened, history[t])
    /\ task[t].status \in NamedOf(t)
    /\ \A r \in Requests : req[r].task = t /\ req[r].old # Nil => req[r].old \in NamedOf(t)

\* A row that changes a named status extends the trail.
LEMMA TrailGrows ==
  ASSUME NEW opened, NEW trail \in Seq(HistoryRows), NEW row \in HistoryRows,
         Chained(opened, trail), row.new # row.old,
         row.old \in NamedBy(opened, trail, Len(trail))
  PROVE  LET longer == Append(trail, row) IN
         /\ Chained(opened, longer)
         /\ NamedBy(opened, trail, Len(trail)) \subseteq NamedBy(opened, longer, Len(longer))
         /\ row.new \in NamedBy(opened, longer, Len(longer))
<1> DEFINE longer == Append(trail, row)
<1>1. /\ Len(longer) = Len(trail) + 1 /\ Len(trail) \in Nat
      /\ DOMAIN longer = 1..Len(trail) + 1 /\ DOMAIN trail = 1..Len(trail)
      /\ longer[Len(trail) + 1] = row
      /\ \A i \in 1..Len(trail) : longer[i] = trail[i]
  OBVIOUS
<1> HIDE DEF longer
<1>2. ASSUME NEW n \in 0..Len(trail)
      PROVE  NamedBy(opened, longer, n) = NamedBy(opened, trail, n)
  <2>1. \A i \in 1..n : longer[i] = trail[i]
    BY <1>1
  <2> QED BY <2>1 DEF NamedBy
<1>3. ASSUME NEW n \in DOMAIN longer
      PROVE  /\ longer[n].old \in NamedBy(opened, longer, n - 1)
             /\ longer[n].new # longer[n].old
  <2>1. CASE n \in DOMAIN trail
    <3>1. /\ longer[n] = trail[n] /\ n - 1 \in 0..Len(trail)
          /\ trail[n].old \in NamedBy(opened, trail, n - 1) /\ trail[n].new # trail[n].old
      BY <1>1, <2>1 DEF Chained
    <3> QED BY <1>2, <3>1
  <2>2. CASE n = Len(trail) + 1
    <3>1. longer[n] = row /\ n - 1 = Len(trail) /\ Len(trail) \in 0..Len(trail)
      BY <1>1, <2>2
    <3> QED BY <1>2, <3>1
  <2> QED BY <1>1, <1>3, <2>1, <2>2
<1>4. NamedBy(opened, trail, Len(trail)) \subseteq NamedBy(opened, longer, Len(longer))
  BY <1>1 DEF NamedBy
<1>5. row.new \in NamedBy(opened, longer, Len(longer))
  <2>1. Len(longer) \in 1..Len(longer) /\ longer[Len(longer)] = row
    BY <1>1
  <2> QED BY <2>1 DEF NamedBy
<1>6. Chained(opened, longer)
  BY <1>3 DEF Chained
<1> QED BY <1>4, <1>5, <1>6 DEF longer

\* What a step may do to the task and the status that request q holds.
OldKept(q) ==
  \/ req'[q].old = Nil
  \/ req'[q].old = req[q].old /\ req'[q].task = req[q].task
  \/ /\ req'[q].task = req[q].task
     /\ task[req[q].task].life = "live" /\ req'[q].old = task[req[q].task].status

\* An answer or a move within the handler leaves them alone.
LEMMA SlotKeepsOld ==
  ASSUME req \in [Requests -> RequestRecord], NEW r \in Requests,
         Answer(r) \/ (\E pc \in PCs : Goto(r, pc)) \/ req' = req, NEW q \in Requests
  PROVE  OldKept(q)
<1>1. CASE Answer(r)
  BY <1>1 DEF Answer, Free, OldKept
<1>2. CASE \E pc \in PCs : Goto(r, pc)
  <2>1. PICK pc \in PCs : req' = [req EXCEPT ![r] = [req[r] EXCEPT !.pc = pc]]
    BY <1>2 DEF Goto
  <2>2. req[r] \in RequestRecord
    OBVIOUS
  <2>3. /\ [req[r] EXCEPT !.pc = pc].old = req[r].old
        /\ [req[r] EXCEPT !.pc = pc].task = req[r].task
    BY <2>2 DEF RequestRecord
  <2> QED BY <2>1, <2>3 DEF OldKept
<1> QED BY <1>1, <1>2 DEF OldKept

\* getTaskOrThrow reads the status; no other await touches what was read.
LEMMA StepKeepsOld ==
  ASSUME IInv, NEW r \in Requests, Step(r), NEW q \in Requests PROVE OldKept(q)
<1>1. req \in [Requests -> RequestRecord] /\ req[r] \in RequestRecord
  BY DEF IInv
<1> DEFINE Slot == Answer(r) \/ (\E pc \in PCs : Goto(r, pc)) \/ req' = req
<1>2. Slot => OldKept(q)
  BY <1>1, SlotKeepsOld
<1> HIDE DEF Slot
<1>3. ASSUME NEW pc, NEW next, NEW passes, Check(r, pc, next, passes) PROVE OldKept(q)
  <2>1. CASE Answer(r)
    BY <1>2, <2>1 DEF Slot
  <2>2. CASE Goto(r, next)
    <3>1. req' = [req EXCEPT ![r] = [req[r] EXCEPT !.pc = next]]
      BY <2>2 DEF Goto
    <3>2. /\ [req[r] EXCEPT !.pc = next].old = req[r].old
          /\ [req[r] EXCEPT !.pc = next].task = req[r].task
      BY <1>1 DEF RequestRecord
    <3> QED BY <1>1, <3>1, <3>2 DEF OldKept
  <2> QED BY <1>3, <2>1, <2>2 DEF Check
<1>4. CASE ProjectCheck(r) \/ TaskCheck(r) \/ CommentCheck(r) \/ HistoryCheck(r)
  BY <1>3, <1>4 DEF ProjectCheck, TaskCheck, CommentCheck, HistoryCheck
<1>5. CASE GetTask(r)
  <2>1. CASE Answer(r)
    BY <1>2, <2>1 DEF Slot
  <2>2. CASE ~Answer(r)
    <3> DEFINE old == IF Doing(r, "updateTask") THEN task[req[r].task].status ELSE Nil
               next == TaskFlow(req[r].op, "task")
    <3>1. /\ task[req[r].task].life = "live"
          /\ req' = [req EXCEPT ![r] = [req[r] EXCEPT !.pc = next, !.old = old]]
      BY <1>5, <2>2 DEF GetTask, TaskIn
    <3> HIDE DEF next
    <3>2. /\ [req[r] EXCEPT !.pc = next, !.old = old].old = old
          /\ [req[r] EXCEPT !.pc = next, !.old = old].task = req[r].task
      BY <1>1 DEF RequestRecord
    <3>3. req'[r].old = old /\ req'[r].task = req[r].task
      BY <1>1, <3>1, <3>2
    <3>4. q # r => req'[q] = req[q]
      BY <1>1, <3>1
    <3> QED BY <3>1, <3>3, <3>4 DEF OldKept
  <2> QED BY <2>1, <2>2
<1>6. CASE AssertAssignee(r)
  <2>1. CASE Answer(r)
    BY <1>2, <2>1 DEF Slot
  <2>2. CASE ~Answer(r)
    <3>1. PICK u \in Users \cup {Nil} :
            req' = [req EXCEPT ![r] = [req[r] EXCEPT !.pc = "write", !.target = u]]
      BY <1>6, <2>2 DEF AssertAssignee
    <3>2. /\ [req[r] EXCEPT !.pc = "write", !.target = u].old = req[r].old
          /\ [req[r] EXCEPT !.pc = "write", !.target = u].task = req[r].task
      BY <1>1 DEF RequestRecord
    <3> QED BY <1>1, <3>1, <3>2 DEF OldKept
  <2> QED BY <2>1, <2>2
<1>7. CASE QueryProjects(r)
  <2>1. CASE Answer(r)
    BY <1>2, <2>1 DEF Slot
  <2>2. CASE ~Answer(r)
    <3> DEFINE seen == Query(PageKey(r))
    <3>1. req' = [req EXCEPT ![r] = [req[r] EXCEPT !.pc = "cacheSet", !.seen = seen]]
      BY <1>7, <2>2 DEF QueryProjects
    <3> HIDE DEF seen
    <3>2. /\ [req[r] EXCEPT !.pc = "cacheSet", !.seen = seen].old = req[r].old
          /\ [req[r] EXCEPT !.pc = "cacheSet", !.seen = seen].task = req[r].task
      BY <1>1 DEF RequestRecord
    <3> QED BY <1>1, <3>1, <3>2 DEF OldKept
  <2> QED BY <2>1, <2>2
<1>8. CASE FindMemberIds(r)
  <2> DEFINE lists == MembersOf(req[r].ws)
  <2>1. req' = [req EXCEPT ![r] = [req[r] EXCEPT !.pc = "purgeLists", !.lists = lists]]
    BY <1>8 DEF FindMemberIds
  <2> HIDE DEF lists
  <2>2. /\ [req[r] EXCEPT !.pc = "purgeLists", !.lists = lists].old = req[r].old
        /\ [req[r] EXCEPT !.pc = "purgeLists", !.lists = lists].task = req[r].task
    BY <1>1 DEF RequestRecord
  <2> QED BY <1>1, <2>1, <2>2 DEF OldKept
<1>9. CASE \/ Read(r) \/ InsertTask(r) \/ UpdateTask(r) \/ DeleteTask(r)
           \/ InsertComment(r) \/ UpdateComment(r) \/ DeleteComment(r)
           \/ CacheSet(r) \/ PurgeLists(r)
  <2>1. Answer(r)
    BY <1>9 DEF Read, InsertTask, UpdateTask, DeleteTask, InsertComment, UpdateComment,
                DeleteComment, CacheSet, PurgeLists
  <2> QED BY <1>2, <2>1 DEF Slot
<1>10. CASE \/ InsertProject(r) \/ UpdateProject(r) \/ DeleteProject(r)
            \/ CacheGet(r) \/ PurgeDetail(r)
  <2>1. \/ Answer(r)
        \/ Goto(r, "memberIds") \/ Goto(r, "purgeDetail") \/ Goto(r, "read")
    BY <1>10 DEF InsertProject, UpdateProject, DeleteProject, CacheGet, PurgeDetail
  <2>2. {"memberIds", "purgeDetail", "read"} \subseteq PCs
    BY DEF PCs
  <2> QED BY <1>2, <2>1, <2>2 DEF Slot
<1> QED BY <1>4, <1>5, <1>6, <1>7, <1>8, <1>9, <1>10 DEF Step

\* What a step may do to a task v that lives after it.
TrailKept(v) == task'[v] = task[v] /\ history'[v] = history[v]
Opened(v) == \E r \in Requests : InsertTask(r) /\ req[r].task = v /\ ~KnownTask(v)
Patching(v) == \E r \in Requests : UpdateTask(r) /\ req[r].task = v
Effect(v) == task'[v].life = "live" => TrailKept(v) \/ Opened(v) \/ Patching(v)

\* Deletes take the task or leave it as it is.
LEMMA DropEffect ==
  ASSUME DbInv, NEW v \in Tasks,
         \/ \E ts \in SUBSET Tasks : DropTasks(ts)
         \/ \E ps \in SUBSET Projects : DropProjects(ps)
  PROVE  Effect(v)
<1>1. ASSUME NEW ts \in SUBSET Tasks, DropTasks(ts) PROVE Effect(v)
  <2>1. CASE v \in ts
    BY <1>1, <2>1, DropTasksEffect DEF Effect
  <2>2. CASE v \notin ts
    BY <1>1, <2>2 DEF DropTasks, Effect, TrailKept
  <2> QED BY <2>1, <2>2
<1>2. ASSUME NEW ps \in SUBSET Projects, DropProjects(ps) PROVE Effect(v)
  BY <1>1, <1>2, DropProjectsEffect
<1> QED BY <1>1, <1>2

\* A task is opened by createTask and patched by updateTask; every other
\* handler leaves it as it is, or deletes it.
LEMMA StepEffect ==
  ASSUME IInv, NEW r \in Requests, Step(r), NEW v \in Tasks PROVE Effect(v)
<1>1. DbInv
  BY DEF IInv
<1>2. task' = task /\ history' = history => Effect(v)
  BY DEF Effect, TrailKept
<1>3. CASE DeleteProject(r)
  <2>1. {req[r].project} \in SUBSET Projects
    BY <1>3, RequestFacts DEF DeleteProject, Doing, Ids, ExistingProjectOps
  <2>2. CASE DropProjects({req[r].project})
    BY <1>1, <2>1, <2>2, DropEffect
  <2> QED BY <1>2, <1>3, <2>2 DEF DeleteProject, tables
<1>4. CASE DeleteTask(r)
  <2>1. {req[r].task} \in SUBSET Tasks
    BY <1>4, RequestFacts DEF DeleteTask, Doing, Ids, ExistingTaskOps
  <2>2. CASE DropTasks({req[r].task})
    BY <1>1, <2>1, <2>2, DropEffect
  <2> QED BY <1>2, <1>4, <2>2 DEF DeleteTask
<1>5. CASE InsertTask(r)
  <2>1. ~KnownTask(req[r].task)
    BY <1>5, RequestFacts DEF InsertTask, Doing, Ids
  <2>2. CASE v = req[r].task
    BY <1>5, <2>1, <2>2 DEF Effect, Opened
  <2>3. CASE v # req[r].task
    BY <1>1, <1>5, <2>3 DEF InsertTask, DbInv, TableTypes, Effect, TrailKept
  <2> QED BY <2>2, <2>3
<1>6. CASE UpdateTask(r)
  <2>1. CASE v = req[r].task
    BY <1>6, <2>1 DEF Effect, Patching
  <2>2. CASE v # req[r].task /\ task[req[r].task].life = "live"
    <3>1. PICK s \in TaskStatuses \cup {Nil}, u \in Assigned(r, req[r].task) :
            /\ task' = Patched(req[r].task, s, u)
            /\ history' = IF s \in {Nil, req[r].old} THEN history
                          ELSE [history EXCEPT ![req[r].task] = Append(@,
                            [by |-> req[r].actor, old |-> req[r].old, new |-> s])]
      BY <1>6, <2>2 DEF UpdateTask
    <3>2. task'[v] = task[v]
      BY <1>1, <2>2, <3>1 DEF Patched, DbInv, TableTypes
    <3>3. history'[v] = history[v]
      BY <1>1, <2>2, <3>1 DEF DbInv, TableTypes
    <3> QED BY <3>2, <3>3 DEF Effect, TrailKept
  <2>3. CASE task[req[r].task].life # "live"
    BY <1>2, <1>6, <2>3 DEF UpdateTask
  <2> QED BY <2>1, <2>2, <2>3
<1>7. CASE \/ ProjectCheck(r) \/ TaskCheck(r) \/ GetTask(r) \/ CommentCheck(r)
           \/ HistoryCheck(r) \/ AssertAssignee(r) \/ Read(r)
  <2>1. task' = task /\ history' = history
    BY <1>7 DEF ProjectCheck, TaskCheck, CommentCheck, HistoryCheck, Check, GetTask,
                AssertAssignee, Read, tables
  <2> QED BY <1>2, <2>1
<1>8. CASE \/ CacheGet(r) \/ QueryProjects(r) \/ CacheSet(r)
           \/ PurgeDetail(r) \/ FindMemberIds(r) \/ PurgeLists(r)
  <2>1. task' = task /\ history' = history
    BY <1>8 DEF CacheGet, QueryProjects, CacheSet, PurgeDetail, FindMemberIds, PurgeLists,
                tables
  <2> QED BY <1>2, <2>1
<1>9. CASE \/ InsertProject(r) \/ UpdateProject(r)
           \/ InsertComment(r) \/ UpdateComment(r) \/ DeleteComment(r)
  <2>1. task' = task /\ history' = history
    BY <1>9 DEF InsertProject, UpdateProject, InsertComment, UpdateComment, DeleteComment,
                tables
  <2> QED BY <1>2, <2>1
<1> QED BY <1>3, <1>4, <1>5, <1>6, <1>7, <1>8, <1>9 DEF Step

\* What every step of the system may do to a task and to what a request holds.
LEMMA NextEffect ==
  ASSUME IInv, [Next]_vars, NEW v \in Tasks
  PROVE  Effect(v) /\ \A q \in Requests : OldKept(q)
<1>1. req \in [Requests -> RequestRecord] /\ DbInv
  BY DEF IInv
<1>2. task' = task /\ history' = history => Effect(v)
  BY DEF Effect, TrailKept
<1>3. req' = req => \A q \in Requests : OldKept(q)
  BY DEF OldKept
<1>4. ASSUME NEW r \in Requests, Send(r) PROVE Effect(v) /\ \A q \in Requests : OldKept(q)
  <2>1. task' = task /\ history' = history
    BY <1>4 DEF Send, tables
  <2>2. ASSUME NEW op, NEW a, NEW w, NEW p, NEW t, NEW c, Start(r, op, a, w, p, t, c)
        PROVE  \A q \in Requests : OldKept(q)
    BY <1>1, <2>2 DEF Start, Free, OldKept
  <2>3. \A q \in Requests : OldKept(q)
    <3>1. PICK a \in Users, wp \in Paths :
            \/ ProjectRequest(r, a, wp[1], wp[2]) \/ TaskRequest(r, a, wp[1], wp[2])
            \/ CommentRequest(r, a, wp[1], wp[2]) \/ HistoryRequest(r, a, wp[1], wp[2])
      BY <1>4 DEF Send
    <3>2. CASE ProjectRequest(r, a, wp[1], wp[2])
      BY <2>2, <3>2 DEF ProjectRequest
    <3>3. CASE TaskRequest(r, a, wp[1], wp[2])
      BY <2>2, <3>3 DEF TaskRequest
    <3>4. CASE CommentRequest(r, a, wp[1], wp[2])
      BY <2>2, <3>4 DEF CommentRequest
    <3>5. CASE HistoryRequest(r, a, wp[1], wp[2])
      BY <2>2, <3>5 DEF HistoryRequest
    <3> QED BY <3>1, <3>2, <3>3, <3>4, <3>5
  <2> QED BY <1>2, <2>1, <2>3
<1>5. ASSUME NEW r \in Requests, Step(r) PROVE Effect(v) /\ \A q \in Requests : OldKept(q)
  BY <1>5, StepEffect, StepKeepsOld
<1>6. CASE Environment
  <2>1. PICK w \in Workspaces : \/ DeleteWorkspace(w)
                                \/ \E u \in Users : Join(w, u) \/ RemoveMember(w, u)
    BY <1>6 DEF Environment
  <2>2. ASSUME DeleteWorkspace(w) PROVE Effect(v)
    <3> DEFINE ps == {p \in Projects : project[p].ws = w}
    <3>1. DropProjects(ps) /\ ps \in SUBSET Projects
      BY <2>2 DEF DeleteWorkspace
    <3> HIDE DEF ps
    <3> QED BY <1>1, <3>1, DropEffect
  <2>3. ASSUME NEW u \in Users, Join(w, u) \/ RemoveMember(w, u) PROVE Effect(v)
    <3>1. task' = task /\ history' = history
      BY <2>3 DEF Join, RemoveMember, tables
    <3> QED BY <1>2, <3>1
  <2>4. req' = req
    BY <1>6 DEF Environment
  <2> QED BY <1>3, <2>1, <2>2, <2>3, <2>4
<1>7. CASE Done \/ UNCHANGED vars
  <2>1. task' = task /\ history' = history /\ req' = req
    BY <1>7 DEF Done, vars, tables
  <2> QED BY <1>2, <1>3, <2>1
<1> QED BY <1>4, <1>5, <1>6, <1>7 DEF Next

\* Before the first request there is no trail, and nothing has been read.
LEMMA TrailInit == Init => TrailInv
<1> SUFFICES ASSUME Init, NEW t \in Tasks, task[t].life = "live"
             PROVE  /\ Chained(task[t].opened, history[t])
                    /\ task[t].status \in NamedOf(t)
                    /\ \A r \in Requests : req[r].task = t /\ req[r].old # Nil =>
                         req[r].old \in NamedOf(t)
  BY DEF TrailInv
<1>1. history[t] = <<>> /\ task[t].opened = task[t].status
  BY SeedAssumption DEF Init
<1>2. DOMAIN history[t] = {}
  BY <1>1
<1>3. \A r \in Requests : req[r].old = Nil
  BY DEF Init, Free
<1> QED BY <1>1, <1>2, <1>3 DEF Chained, NamedOf, NamedBy

\* A living task that is left alone: what requests hold of it is named.
LEMMA KeptTrail ==
  ASSUME TrailInv, NEW v \in Tasks, TrailKept(v), task'[v].life = "live",
         \A q \in Requests : OldKept(q)
  PROVE  /\ Chained(task'[v].opened, history'[v])
         /\ task'[v].status \in NamedOf(v)'
         /\ \A r \in Requests : req'[r].task = v /\ req'[r].old # Nil =>
              req'[r].old \in NamedOf(v)'
<1>1. /\ task'[v] = task[v] /\ history'[v] = history[v]
      /\ task[v].life = "live"
  BY DEF TrailKept
<1>2. NamedOf(v)' = NamedOf(v)
  BY <1>1 DEF NamedOf, NamedBy
<1> QED BY <1>1, <1>2 DEF TrailInv, OldKept

\* createTask opens an empty trail, and its id is in no other request.
LEMMA OpenedTrail ==
  ASSUME IInv, NEW v \in Tasks, Opened(v), task'[v].life = "live"
  PROVE  /\ Chained(task'[v].opened, history'[v])
         /\ task'[v].status \in NamedOf(v)'
         /\ \A r \in Requests : req'[r].task = v /\ req'[r].old # Nil =>
              req'[r].old \in NamedOf(v)'
<1>1. PICK r \in Requests : InsertTask(r) /\ req[r].task = v /\ ~KnownTask(v)
  BY DEF Opened
<1>2. /\ task \in [Tasks -> TaskRows] /\ req \in [Requests -> RequestRecord]
      /\ history[v] = <<>> /\ history' = history
  BY <1>1 DEF IInv, DbInv, TableTypes, NoOrphanItems, KnownTask, InsertTask
<1>3. task'[v].opened = task'[v].status
  <2>1. CASE project[req[r].project].life = "live"
    BY <1>1, <1>2, <2>1 DEF InsertTask
  <2>2. CASE project[req[r].project].life # "live"
    <3>1. task'[v].life # "live"
      BY <1>1, <2>2 DEF InsertTask, KnownTask
    <3> QED BY <3>1
  <2> QED BY <2>1, <2>2
<1>4. DOMAIN history'[v] = {}
  BY <1>2
<1>5. ASSUME NEW q \in Requests PROVE req'[q].old = Nil \/ req'[q].task # v
  <2>1. CASE q = r
    BY <1>1, <1>2, <2>1 DEF InsertTask, Answer, Free
  <2>2. CASE q # r
    <3>1. req'[q] = req[q] /\ req[q].task # req[r].task
      BY <1>1, <1>2, <2>2 DEF InsertTask, Answer, Doing, IInv, FreshIds
    <3> QED BY <1>1, <3>1
  <2> QED BY <2>1, <2>2
<1> QED BY <1>3, <1>4, <1>5 DEF Chained, NamedOf, NamedBy

\* updateTask appends a row from the status it had read, which is still named,
\* or no row when it writes that status again.
LEMMA PatchedTrail ==
  ASSUME IInv, TrailInv, NEW v \in Tasks, Patching(v), task'[v].life = "live",
         \A q \in Requests : OldKept(q)
  PROVE  /\ Chained(task'[v].opened, history'[v])
         /\ task'[v].status \in NamedOf(v)'
         /\ \A r \in Requests : req'[r].task = v /\ req'[r].old # Nil =>
              req'[r].old \in NamedOf(v)'
<1>1. PICK r \in Requests : UpdateTask(r) /\ req[r].task = v
  BY DEF Patching
<1>2. /\ task \in [Tasks -> TaskRows] /\ history \in [Tasks -> Seq(HistoryRows)]
      /\ req \in [Requests -> RequestRecord] /\ task[v] \in TaskRows
      /\ history[v] \in Seq(HistoryRows)
  BY DEF IInv, DbInv, TableTypes
<1>3. CASE task[v].life # "live"
  BY <1>1, <1>3 DEF UpdateTask
<1>4. CASE task[v].life = "live"
  <2>1. PICK s \in TaskStatuses \cup {Nil}, u \in Assigned(r, v) :
          /\ task' = Patched(v, s, u)
          /\ history' = IF s \in {Nil, req[r].old} THEN history
                        ELSE [history EXCEPT ![v] = Append(@,
                          [by |-> req[r].actor, old |-> req[r].old, new |-> s])]
    BY <1>1, <1>4 DEF UpdateTask
  <2> DEFINE status == IF s = Nil THEN task[v].status ELSE s
             row == [by |-> req[r].actor, old |-> req[r].old, new |-> s]
             patched == [task[v] EXCEPT !.status = status, !.assignee = u]
  <2>2. task'[v].status = status /\ task'[v].opened = task[v].opened
    <3>1. task' = [task EXCEPT ![v] = patched]
      BY <2>1 DEF Patched
    <3> HIDE DEF status
    <3>2. patched.status = status /\ patched.opened = task[v].opened
      BY <1>2 DEF TaskRows
    <3> QED BY <1>2, <3>1, <3>2
  <2>3. /\ req[r].actor \in Users /\ req[r].old \in TaskStatuses
    BY <1>1, RequestFacts DEF UpdateTask, At, Doing, Checked, Ids
  <2>4. /\ Chained(task[v].opened, history[v]) /\ task[v].status \in NamedOf(v)
        /\ req[r].old \in NamedOf(v)
        /\ \A q \in Requests : req[q].task = v /\ req[q].old # Nil =>
             req[q].old \in NamedOf(v)
    BY <1>1, <1>4, <2>3, NilAssumption DEF TrailInv
  <2>5. /\ Chained(task'[v].opened, history'[v])
        /\ NamedOf(v) \subseteq NamedOf(v)' /\ status \in NamedOf(v)'
    <3>1. CASE s \in {Nil, req[r].old}
      <4>1. history'[v] = history[v] /\ NamedOf(v)' = NamedOf(v)
        BY <2>1, <2>2, <3>1 DEF NamedOf, NamedBy
      <4> QED BY <2>2, <2>4, <3>1, <4>1
    <3>2. CASE s \notin {Nil, req[r].old}
      <4>1. row \in HistoryRows /\ row.new = s /\ row.old = req[r].old
        BY <2>1, <2>3, <3>2 DEF HistoryRows
      <4>2. history'[v] = Append(history[v], row)
        BY <1>2, <2>1, <3>2
      <4> HIDE DEF row
      <4>3. /\ Chained(task[v].opened, Append(history[v], row))
            /\ NamedOf(v) \subseteq
                 NamedBy(task[v].opened, Append(history[v], row), Len(Append(history[v], row)))
            /\ s \in NamedBy(task[v].opened, Append(history[v], row),
                             Len(Append(history[v], row)))
        BY <1>2, <2>4, <3>2, <4>1, TrailGrows DEF NamedOf
      <4>4. NamedOf(v)' = NamedBy(task[v].opened, Append(history[v], row),
                                  Len(Append(history[v], row)))
        BY <2>2, <4>2 DEF NamedOf
      <4> QED BY <2>2, <3>2, <4>2, <4>3, <4>4
    <3> QED BY <3>1, <3>2
  <2>6. ASSUME NEW q \in Requests, req'[q].task = v, req'[q].old # Nil
        PROVE  req'[q].old \in NamedOf(v)
    BY <2>4, <2>6 DEF OldKept
  <2> HIDE DEF status
  <2> QED BY <2>2, <2>5, <2>6
<1> QED BY <1>3, <1>4

\* Every step keeps the trails.
LEMMA TrailStep == IInv /\ TrailInv /\ [Next]_vars => TrailInv'
<1> SUFFICES ASSUME IInv, TrailInv, [Next]_vars, NEW v \in Tasks, task'[v].life = "live"
             PROVE  /\ Chained(task'[v].opened, history'[v])
                    /\ task'[v].status \in NamedOf(v)'
                    /\ \A r \in Requests : req'[r].task = v /\ req'[r].old # Nil =>
                         req'[r].old \in NamedOf(v)'
  BY DEF TrailInv
<1>1. TrailKept(v) \/ Opened(v) \/ Patching(v)
  BY NextEffect DEF Effect
<1>2. \A q \in Requests : OldKept(q)
  BY NextEffect
<1>3. CASE TrailKept(v)
  BY <1>2, <1>3, KeptTrail
<1>4. CASE Opened(v)
  BY <1>4, OpenedTrail
<1>5. CASE Patching(v)
  BY <1>2, <1>5, PatchedTrail
<1> QED BY <1>1, <1>3, <1>4, <1>5

\* The rows of a living task's trail link up: each starts from a status the
\* task was created with or an earlier row gave it, and its status is one of
\* them, whatever updates read the same status and overlap (TasksService.update,
\* updateWithStatusHistory).
THEOREM TrailsLinkUp == Spec => []TrailNamesEveryStatus
<1>1. TrailInv => TrailNamesEveryStatus
  BY DEF TrailInv, TrailNamesEveryStatus, Chained, NamedOf, NamedBy
<1>2. Spec => []TrailInv
  BY WorkItemsInvariance, TrailInit, TrailStep, PTL DEF Spec
<1> QED BY <1>1, <1>2, PTL
=============================================================================
