------------------------------ MODULE WorkItems ------------------------------
(***************************************************************************)
(* Projects, tasks, comments and the status history of tasks: the handlers *)
(* of ProjectsService, TasksService, CommentsService and HistoryService,   *)
(* each cut at its awaits, over the tables they share and the project      *)
(* pages in Redis.  Every handler re-checks the path it was called with    *)
(* (/workspaces/:w/projects/:p/tasks/:t/comments/:c) row by row, and       *)
(* between two of its reads any other request may write.                   *)
(*                                                                         *)
(* Members join and leave, and workspaces are deleted, in single steps:    *)
(* how that happens is the subject of Access.  The events a task handler   *)
(* emits after its statement are the subject of Board.                     *)
(***************************************************************************)
EXTENDS Naturals, Sequences

CONSTANTS
  Users, Workspaces, Projects, Tasks, Comments, TaskStatuses, Names, Nil,
  FirstRole,    \* the members at the start, as role below
  Seed,         \* rows that exist before: [project, task, comment]
  Paths,        \* pairs <<w, p>> the clients put into a URL
  Requests,     \* requests that may be in flight together
  Ops,          \* for each of them, the handlers it may call
  MaxRequests,  \* bound: how many requests are sent in all
  MaxChanges    \* bound: how often the members or workspaces change

\* An empty column is told from every value it could hold.
ASSUME NilAssumption ==
  Nil \notin Users \cup Workspaces \cup Projects \cup Tasks \cup Comments \cup TaskStatuses

ASSUME BoundAssumption == MaxRequests \in Nat /\ MaxChanges \in Nat

ASSUME PathAssumption == Paths \subseteq Workspaces \X Projects

ProjectOps == {"createProject", "listProjects", "findProject", "updateProject",
               "removeProject"}
TaskOps == {"createTask", "listTasks", "findTask", "updateTask", "removeTask"}
CommentOps == {"createComment", "listComments", "updateComment", "removeComment"}
HistoryOps == {"listHistory"}

VARIABLES
  live,         \* the workspaces that exist
  role,         \* role of a user in a workspace, "none" outside it
  left,         \* ghost: pairs <<w, u>> that were members and are not, or were not
  project, task, comment,
  history,      \* for each task, its TaskHistory rows in the order of insertion
  req,          \* what each request's handler is doing
  cache,        \* what Redis holds under each key
  sent,         \* how many requests have been sent
  changes       \* how often the members or workspaces have changed

tables == <<project, task, comment, history>>
members == <<live, role, left, changes>>
vars == <<members, tables, req, cache, sent>>

-----------------------------------------------------------------------------
(* Rows.  A deleted row keeps its columns: handlers hold on to what they   *)
(* read of it.                                                             *)

Lives == {"unused", "live", "deleted"}
ProjectRows == [life : Lives, ws : Workspaces \cup {Nil},
                by : Users \cup {Nil}, name : Names \cup {Nil}]
TaskRows == [life : Lives, project : Projects \cup {Nil},
             by : Users \cup {Nil}, status : TaskStatuses \cup {Nil},
             assignee : Users \cup {Nil},
             opened : TaskStatuses \cup {Nil}]  \* ghost: the status at its creation
CommentRows == [life : Lives, task : Tasks \cup {Nil}, by : Users \cup {Nil}]
HistoryRows == [by : Users, old : TaskStatuses, new : TaskStatuses]

\* The rows of the start are living rows in order: each has its parent, and
\* was made by, and assigned to, members of its workspace.
ASSUME SeedAssumption ==
  /\ FirstRole \in [Workspaces \X Users -> {"none", "MEMBER", "OWNER"}]
  /\ Seed.project \in [Projects -> ProjectRows]
  /\ Seed.task \in [Tasks -> TaskRows]
  /\ Seed.comment \in [Comments -> CommentRows]
  /\ \A p \in Projects : LET row == Seed.project[p] IN
       row.life # "unused" =>
         /\ row.life = "live" /\ row.ws \in Workspaces /\ row.by \in Users
         /\ FirstRole[<<row.ws, row.by>>] # "none"
  /\ \A t \in Tasks : LET row == Seed.task[t] IN
       row.life # "unused" =>
         /\ row.life = "live" /\ row.status \in TaskStatuses /\ row.by \in Users
         /\ row.opened = row.status
         /\ row.project \in Projects /\ Seed.project[row.project].life = "live"
         /\ \A u \in {row.by, row.assignee} \ {Nil} :
              FirstRole[<<Seed.project[row.project].ws, u>>] # "none"
  /\ \A c \in Comments : LET row == Seed.comment[c] IN
       row.life # "unused" =>
         /\ row.life = "live" /\ row.by \in Users
         /\ row.task \in Tasks /\ Seed.task[row.task].life = "live"
         /\ FirstRole[<<Seed.project[Seed.task[row.task].project].ws, row.by>>] # "none"

IsMember(w, u) == role[<<w, u>>] # "none"
IsOwner(w, u) == role[<<w, u>>] = "OWNER"
MembersOf(w) == {u \in Users : IsMember(w, u)}
WasMember(w, u) == IsMember(w, u) \/ <<w, u>> \in left

\* Mutant: the project is looked up by its id alone.
ProjectAnywhere(p, w) == project[p].life = "live"

\* A row is found only under the parent its URL names.
ProjectIn(p, w) == project[p].life = "live" /\ project[p].ws = w
TaskIn(t, p) == task[t].life = "live" /\ task[t].project = p
CommentIn(c, t) == comment[c].life = "live" /\ comment[c].task = t

\* Mutant: every member may manage every row.
MayManageAsMember(by, w, u) == IsMember(w, u)

\* assertCreatorOrOwner: the membership row is read now, the creator's id
\* comes from the row read before.
MayManage(by, w, u) == IsMember(w, u) /\ (by = u \/ IsOwner(w, u))

-----------------------------------------------------------------------------
(* The referential actions of the schema.                                  *)

Gone(row) == [row EXCEPT !.life = IF @ = "live" THEN "deleted" ELSE @]

\* Mutant: the comments of a task have no ON DELETE CASCADE.
DropTasksOnly(ts) ==
  /\ task' = [t \in Tasks |-> IF t \in ts THEN Gone(task[t]) ELSE task[t]]
  /\ history' = [t \in Tasks |-> IF t \in ts THEN <<>> ELSE history[t]]
  /\ UNCHANGED comment

DropTasks(ts) ==
  /\ task' = [t \in Tasks |-> IF t \in ts THEN Gone(task[t]) ELSE task[t]]
  /\ history' = [t \in Tasks |-> IF t \in ts THEN <<>> ELSE history[t]]
  /\ comment' = [c \in Comments |->
                   IF comment[c].task \in ts THEN Gone(comment[c]) ELSE comment[c]]

DropProjects(ps) ==
  /\ project' = [p \in Projects |->
                   IF p \in ps THEN Gone(project[p]) ELSE project[p]]
  /\ DropTasks({t \in Tasks : task[t].project \in ps})

-----------------------------------------------------------------------------
(* Project pages in Redis.                                                 *)

Key == ({"detail"} \X Workspaces \X Projects) \cup ({"list"} \X Workspaces \X Users)

\* What the query behind a key returns now: one project of a workspace, or
\* all of them.
Query(k) ==
  LET found == IF k[1] = "detail" THEN {k[3]} ELSE Projects IN
  {<<p, project[p].name>> : p \in {q \in found : ProjectIn(q, k[2])}}

Rows == Projects \X (Names \cup {Nil})

-----------------------------------------------------------------------------
(* Requests.                                                               *)

PCs == {"answered", "workspace", "project", "task", "comment", "member",
        "manager", "assignee", "write", "read", "cacheGet", "cacheSet",
        "purgeDetail", "memberIds", "purgeLists"}

Free == [op |-> "none", pc |-> "answered", actor |-> Nil, ws |-> Nil,
         project |-> Nil, task |-> Nil, comment |-> Nil, target |-> Nil,
         old |-> Nil, seen |-> {}, lists |-> {}]

IsFree(r) == req[r].pc = "answered"
At(r, pc) == req[r].pc = pc
Doing(r, op) == req[r].op = op
Goto(r, pc) == req' = [req EXCEPT ![r].pc = pc]

\* The response leaves, whatever its status code: the slot is free again.
Answer(r) == req' = [req EXCEPT ![r] = Free]

\* The key of the page a read of projects fills.
PageKey(r) ==
  IF Doing(r, "findProject") THEN <<"detail", req[r].ws, req[r].project>>
                             ELSE <<"list", req[r].ws, req[r].actor>>

\* Ids of rows to be inserted are UUIDs: no other request holds the same.
\* Ids of other rows reach a client only from the server.
FreshProject(p) == project[p].life = "unused" /\ \A q \in Requests : req[q].project # p
FreshTask(t) == task[t].life = "unused" /\ \A q \in Requests : req[q].task # t
FreshComment(c) == comment[c].life = "unused" /\ \A q \in Requests : req[q].comment # c
KnownProject(p) == project[p].life # "unused"
KnownTask(t) == task[t].life # "unused"
KnownComment(c) == comment[c].life # "unused"

Start(r, op, actor, w, p, t, c) ==
  /\ op \in Ops[r]
  /\ req' = [req EXCEPT ![r] =
       [Free EXCEPT !.op = op, !.pc = "workspace", !.actor = actor, !.ws = w,
                    !.project = p, !.task = t, !.comment = c]]

ProjectRequest(r, a, w, p) ==
  \/ FreshProject(p) /\ Start(r, "createProject", a, w, p, Nil, Nil)
  \/ Start(r, "listProjects", a, w, Nil, Nil, Nil)
  \/ /\ KnownProject(p)
     /\ \E op \in {"findProject", "updateProject", "removeProject"} :
          Start(r, op, a, w, p, Nil, Nil)

TaskRequest(r, a, w, p) ==
  /\ KnownProject(p)
  /\ \/ Start(r, "listTasks", a, w, p, Nil, Nil)
     \/ \E t \in Tasks :
          \/ FreshTask(t) /\ Start(r, "createTask", a, w, p, t, Nil)
          \/ /\ KnownTask(t)
             /\ \E op \in {"findTask", "updateTask", "removeTask"} :
                  Start(r, op, a, w, p, t, Nil)

CommentRequest(r, a, w, p) ==
  /\ KnownProject(p)
  /\ \E t \in Tasks :
       /\ KnownTask(t)
       /\ \/ Start(r, "listComments", a, w, p, t, Nil)
          \/ \E c \in Comments :
               \/ FreshComment(c) /\ Start(r, "createComment", a, w, p, t, c)
               \/ /\ KnownComment(c)
                  /\ \E op \in {"updateComment", "removeComment"} :
                       Start(r, op, a, w, p, t, c)

HistoryRequest(r, a, w, p) ==
  /\ KnownProject(p)
  /\ \E t \in Tasks : KnownTask(t) /\ Start(r, "listHistory", a, w, p, t, Nil)

Send(r) ==
  /\ IsFree(r) /\ sent < MaxRequests
  /\ sent' = sent + 1
  /\ \E a \in Users, wp \in Paths :
       \/ ProjectRequest(r, a, wp[1], wp[2])
       \/ TaskRequest(r, a, wp[1], wp[2])
       \/ CommentRequest(r, a, wp[1], wp[2])
       \/ HistoryRequest(r, a, wp[1], wp[2])
  /\ UNCHANGED <<members, tables, cache>>

-----------------------------------------------------------------------------
(* The order of the awaits of each service's handlers.                     *)

ProjectFlow(op, pc) ==
  CASE pc = "workspace" -> IF op \in {"updateProject", "removeProject"}
                             THEN "project" ELSE "member"
    [] pc = "member"    -> IF op = "createProject" THEN "write" ELSE "cacheGet"
    [] pc = "project"   -> "manager"
    [] pc = "manager"   -> "write"

TaskFlow(op, pc) ==
  CASE pc = "workspace" -> "project"
    [] pc = "project"   -> IF op = "removeTask" THEN "task" ELSE "member"
    [] pc = "member"    -> (CASE op = "createTask" -> "assignee"
                              [] op = "listTasks"  -> "read"
                              [] OTHER             -> "task")
    [] pc = "task"      -> (CASE op = "updateTask" -> "assignee"
                              [] op = "removeTask" -> "manager"
                              [] op = "findTask"   -> "read")
    [] pc = "manager"   -> "write"

CommentFlow(op, pc) ==
  CASE pc = "workspace" -> "project"
    [] pc = "project"   -> "task"
    [] pc = "task"      -> IF op \in {"createComment", "listComments"}
                             THEN "member" ELSE "comment"
    [] pc = "member"    -> IF op = "createComment" THEN "write" ELSE "read"
    [] pc = "comment"   -> "manager"
    [] pc = "manager"   -> "write"

HistoryFlow(op, pc) ==
  CASE pc = "workspace" -> "project"
    [] pc = "project"   -> "task"
    [] pc = "task"      -> "member"
    [] pc = "member"    -> "read"

-----------------------------------------------------------------------------
(* The checks, of which every service has its own copy: one read, and a    *)
(* 404 or 403 when it fails.                                               *)

Check(r, pc, next, passes) ==
  /\ At(r, pc)
  /\ IF passes THEN Goto(r, next) ELSE Answer(r)
  /\ UNCHANGED <<members, tables, cache, sent>>

ProjectCheck(r) ==
  LET w == req[r].ws  a == req[r].actor  p == req[r].project
      Then(pc) == ProjectFlow(req[r].op, pc) IN
  /\ req[r].op \in ProjectOps
  /\ \/ Check(r, "workspace", Then("workspace"), w \in live)
     \/ Check(r, "member", Then("member"), IsMember(w, a))
     \/ Check(r, "project", Then("project"), ProjectIn(p, w))
     \/ Check(r, "manager", Then("manager"), MayManage(project[p].by, w, a))

TaskCheck(r) ==
  LET w == req[r].ws  a == req[r].actor  p == req[r].project  t == req[r].task
      Then(pc) == TaskFlow(req[r].op, pc) IN
  /\ req[r].op \in TaskOps
  /\ \/ Check(r, "workspace", Then("workspace"), w \in live)
     \/ Check(r, "project", Then("project"), ProjectIn(p, w))
     \/ Check(r, "member", Then("member"), IsMember(w, a))
     \/ Check(r, "manager", Then("manager"), MayManage(task[t].by, w, a))

\* getTaskOrThrow in TasksService: update goes on with the row it read.
GetTask(r) ==
  /\ At(r, "task") /\ req[r].op \in TaskOps
  /\ LET t == req[r].task IN
       IF TaskIn(t, req[r].project)
         THEN req' = [req EXCEPT
                ![r].pc = TaskFlow(req[r].op, "task"),
                ![r].old = IF Doing(r, "updateTask") THEN task[t].status ELSE Nil]
         ELSE Answer(r)
  /\ UNCHANGED <<members, tables, cache, sent>>

CommentCheck(r) ==
  LET w == req[r].ws  a == req[r].actor  t == req[r].task  c == req[r].comment
      Then(pc) == CommentFlow(req[r].op, pc) IN
  /\ req[r].op \in CommentOps
  /\ \/ Check(r, "workspace", Then("workspace"), w \in live)
     \/ Check(r, "project", Then("project"), ProjectIn(req[r].project, w))
     \/ Check(r, "task", Then("task"), TaskIn(t, req[r].project))
     \/ Check(r, "comment", Then("comment"), CommentIn(c, t))
     \/ Check(r, "member", Then("member"), IsMember(w, a))
     \/ Check(r, "manager", Then("manager"), MayManage(comment[c].by, w, a))

HistoryCheck(r) ==
  LET Then(pc) == HistoryFlow(req[r].op, pc) IN
  /\ req[r].op \in HistoryOps
  /\ \/ Check(r, "workspace", Then("workspace"), req[r].ws \in live)
     \/ Check(r, "project", Then("project"), ProjectIn(req[r].project, req[r].ws))
     \/ Check(r, "task", Then("task"), TaskIn(req[r].task, req[r].project))
     \/ Check(r, "member", Then("member"), IsMember(req[r].ws, req[r].actor))

\* The assignee a create or update names, if any, must be a member now.
AssertAssignee(r) ==
  /\ At(r, "assignee")
  /\ \E u \in Users \cup {Nil} :
       IF u = Nil \/ IsMember(req[r].ws, u)
         THEN req' = [req EXCEPT ![r].pc = "write", ![r].target = u]
         ELSE Answer(r)
  /\ UNCHANGED <<members, tables, cache, sent>>

\* The query of a list, or the row just read: nothing is left but to answer.
Read(r) == At(r, "read") /\ Answer(r) /\ UNCHANGED <<members, tables, cache, sent>>

-----------------------------------------------------------------------------
(* Statements.  A parent deleted since the checks fails the foreign key (a *)
(* 500), a row deleted since them is Prisma's P2025 (a 404).               *)

InsertProject(r) ==
  /\ At(r, "write") /\ Doing(r, "createProject")
  /\ IF req[r].ws \in live
       THEN /\ \E n \in Names :
                 project' = [project EXCEPT ![req[r].project] =
                   [life |-> "live", ws |-> req[r].ws, by |-> req[r].actor, name |-> n]]
            /\ Goto(r, "memberIds")
       ELSE Answer(r) /\ UNCHANGED project
  /\ UNCHANGED <<members, task, comment, history, cache, sent>>

UpdateProject(r) ==
  /\ At(r, "write") /\ Doing(r, "updateProject")
  /\ IF project[req[r].project].life = "live"
       THEN /\ \E n \in Names : project' = [project EXCEPT ![req[r].project].name = n]
            /\ Goto(r, "purgeDetail")
       ELSE Answer(r) /\ UNCHANGED project
  /\ UNCHANGED <<members, task, comment, history, cache, sent>>

DeleteProject(r) ==
  /\ At(r, "write") /\ Doing(r, "removeProject")
  /\ IF project[req[r].project].life = "live"
       THEN DropProjects({req[r].project}) /\ Goto(r, "purgeDetail")
       ELSE Answer(r) /\ UNCHANGED tables
  /\ UNCHANGED <<members, cache, sent>>

InsertTask(r) ==
  /\ At(r, "write") /\ Doing(r, "createTask")
  /\ Answer(r)
  /\ IF project[req[r].project].life = "live"
       THEN \E s \in TaskStatuses :
              task' = [task EXCEPT ![req[r].task] =
                [life |-> "live", project |-> req[r].project, by |-> req[r].actor,
                 status |-> s, assignee |-> req[r].target, opened |-> s]]
       ELSE UNCHANGED task
  /\ UNCHANGED <<members, project, comment, history, cache, sent>>

\* Mutant: an absent status is written too.
PatchedBlindly(t, s, u) == [task EXCEPT ![t].status = s, ![t].assignee = u]

\* The column values an update writes: an absent field keeps its value, and
\* null unassigns.
Assigned(r, t) == IF req[r].target # Nil THEN {req[r].target}
                                         ELSE {task[t].assignee, Nil}
Patched(t, s, u) ==
  [task EXCEPT ![t].status = IF s = Nil THEN @ ELSE s, ![t].assignee = u]

\* Mutant: the history row is written only by an update that assigns nobody.
UpdateTaskAuditedAlone(r) ==
  /\ At(r, "write") /\ Doing(r, "updateTask")
  /\ Answer(r)
  /\ LET t == req[r].task IN
       IF task[t].life # "live" THEN UNCHANGED <<task, history>>
       ELSE \E s \in TaskStatuses \cup {Nil}, u \in Assigned(r, t) :
              /\ task' = Patched(t, s, u)
              /\ history' = IF s \in {Nil, req[r].old} \/ req[r].target # Nil
                              THEN history
                              ELSE [history EXCEPT ![t] = Append(@,
                                [by |-> req[r].actor, old |-> req[r].old, new |-> s])]
  /\ UNCHANGED <<members, project, comment, cache, sent>>

\* The status of the request is compared with the one read before; the task
\* row and the TaskHistory row are written in one transaction.
UpdateTask(r) ==
  /\ At(r, "write") /\ Doing(r, "updateTask")
  /\ Answer(r)
  /\ LET t == req[r].task IN
       IF task[t].life # "live" THEN UNCHANGED <<task, history>>
       ELSE \E s \in TaskStatuses \cup {Nil}, u \in Assigned(r, t) :
              /\ task' = Patched(t, s, u)
              /\ history' = IF s \in {Nil, req[r].old} THEN history
                            ELSE [history EXCEPT ![t] = Append(@,
                              [by |-> req[r].actor, old |-> req[r].old, new |-> s])]
  /\ UNCHANGED <<members, project, comment, cache, sent>>

\* Mutant: the delete of a task that is already gone is tried again and again.
DeleteTaskRetrying(r) ==
  /\ At(r, "write") /\ Doing(r, "removeTask")
  /\ IF task[req[r].task].life = "live"
       THEN Answer(r) /\ DropTasks({req[r].task})
       ELSE UNCHANGED <<req, task, history, comment>>
  /\ UNCHANGED <<members, project, cache, sent>>

DeleteTask(r) ==
  /\ At(r, "write") /\ Doing(r, "removeTask")
  /\ Answer(r)
  /\ IF task[req[r].task].life = "live" THEN DropTasks({req[r].task})
                                        ELSE UNCHANGED <<task, history, comment>>
  /\ UNCHANGED <<members, project, cache, sent>>

InsertComment(r) ==
  /\ At(r, "write") /\ Doing(r, "createComment")
  /\ Answer(r)
  /\ comment' = IF task[req[r].task].life = "live"
                  THEN [comment EXCEPT ![req[r].comment] =
                         [life |-> "live", task |-> req[r].task, by |-> req[r].actor]]
                  ELSE comment
  /\ UNCHANGED <<members, project, task, history, cache, sent>>

\* The content of a comment is nobody's guard: an update leaves the row as is.
UpdateComment(r) ==
  /\ At(r, "write") /\ Doing(r, "updateComment")
  /\ Answer(r)
  /\ UNCHANGED <<members, tables, cache, sent>>

DeleteComment(r) ==
  /\ At(r, "write") /\ Doing(r, "removeComment")
  /\ Answer(r)
  /\ comment' = [comment EXCEPT ![req[r].comment] = Gone(@)]
  /\ UNCHANGED <<members, project, task, history, cache, sent>>

-----------------------------------------------------------------------------
(* Project pages: read through Redis, deleted after a write.  The handler  *)
(* has committed before the first key goes.                                *)

CacheGet(r) ==
  /\ At(r, "cacheGet")
  /\ IF cache[PageKey(r)] # Nil THEN Answer(r) ELSE Goto(r, "read")
  /\ UNCHANGED <<members, tables, cache, sent>>

\* findOne answers 404 when the row is not there; a list has any length.
QueryProjects(r) ==
  /\ At(r, "read") /\ req[r].op \in {"listProjects", "findProject"}
  /\ IF Doing(r, "findProject") /\ ~ProjectIn(req[r].project, req[r].ws)
       THEN Answer(r)
       ELSE req' = [req EXCEPT ![r].pc = "cacheSet", ![r].seen = Query(PageKey(r))]
  /\ UNCHANGED <<members, tables, cache, sent>>

CacheSet(r) ==
  /\ At(r, "cacheSet")
  /\ cache' = [cache EXCEPT ![PageKey(r)] = req[r].seen]
  /\ Answer(r)
  /\ UNCHANGED <<members, tables, sent>>

PurgeDetail(r) ==
  /\ At(r, "purgeDetail")
  /\ cache' = [cache EXCEPT ![<<"detail", req[r].ws, req[r].project>>] = Nil]
  /\ Goto(r, "memberIds")
  /\ UNCHANGED <<members, tables, sent>>

\* Mutant: only the actor's own pages are deleted.
FindOwnId(r) ==
  /\ At(r, "memberIds")
  /\ req' = [req EXCEPT ![r].pc = "purgeLists", ![r].lists = {req[r].actor}]
  /\ UNCHANGED <<members, tables, cache, sent>>

\* invalidateListsForAllMembers: the members are read, then their pages go.
FindMemberIds(r) ==
  /\ At(r, "memberIds")
  /\ req' = [req EXCEPT ![r].pc = "purgeLists", ![r].lists = MembersOf(req[r].ws)]
  /\ UNCHANGED <<members, tables, cache, sent>>

PurgeLists(r) ==
  /\ At(r, "purgeLists")
  /\ cache' = [k \in Key |-> IF k[1] = "list" /\ k[2] = req[r].ws /\ k[3] \in req[r].lists
                               THEN Nil ELSE cache[k]]
  /\ Answer(r)
  /\ UNCHANGED <<members, tables, sent>>

Step(r) ==
  \/ ProjectCheck(r) \/ TaskCheck(r) \/ GetTask(r) \/ CommentCheck(r)
  \/ HistoryCheck(r) \/ AssertAssignee(r)
  \/ req[r].op \notin ProjectOps /\ Read(r)
  \/ InsertProject(r) \/ UpdateProject(r) \/ DeleteProject(r)
  \/ InsertTask(r) \/ UpdateTask(r) \/ DeleteTask(r)
  \/ InsertComment(r) \/ UpdateComment(r) \/ DeleteComment(r)
  \/ CacheGet(r) \/ QueryProjects(r) \/ CacheSet(r)
  \/ PurgeDetail(r) \/ FindMemberIds(r) \/ PurgeLists(r)

-----------------------------------------------------------------------------
(* What WorkspacesService and InvitesService do meanwhile.                 *)

Join(w, u) ==
  /\ w \in live /\ ~IsMember(w, u)
  /\ role' = [role EXCEPT ![<<w, u>>] = "MEMBER"]
  /\ UNCHANGED <<live, left, tables>>

\* Nothing of a removed member is touched: rows, assignments, project pages.
RemoveMember(w, u) ==
  /\ w \in live /\ IsMember(w, u) /\ ~IsOwner(w, u)
  /\ role' = [role EXCEPT ![<<w, u>>] = "none"]
  /\ left' = left \cup {<<w, u>>}
  /\ UNCHANGED <<live, tables>>

DeleteWorkspace(w) ==
  /\ w \in live
  /\ live' = live \ {w}
  /\ role' = [p \in Workspaces \X Users |-> IF p[1] = w THEN "none" ELSE role[p]]
  /\ left' = left \cup ({w} \X MembersOf(w))
  /\ DropProjects({p \in Projects : project[p].ws = w})

Environment ==
  /\ changes < MaxChanges /\ changes' = changes + 1
  /\ UNCHANGED <<req, cache, sent>>
  /\ \E w \in Workspaces :
       \/ DeleteWorkspace(w)
       \/ \E u \in Users : Join(w, u) \/ RemoveMember(w, u)

\* Every request has been sent and answered.
Done == /\ sent = MaxRequests /\ \A r \in Requests : IsFree(r)
        /\ UNCHANGED vars

Init ==
  /\ live = Workspaces
  /\ role = FirstRole
  /\ left = {}
  /\ project = Seed.project /\ task = Seed.task /\ comment = Seed.comment
  /\ history = [t \in Tasks |-> <<>>]
  /\ req = [r \in Requests |-> Free]
  /\ cache = [k \in Key |-> Nil]
  /\ sent = 0 /\ changes = 0

Next == \/ \E r \in Requests : Send(r) \/ Step(r)
        \/ Environment
        \/ Done

\* Every await is answered in the end.
Fairness == \A r \in Requests : WF_vars(Step(r))

Spec == Init /\ [][Next]_vars /\ Fairness
-----------------------------------------------------------------------------
(* Properties.                                                             *)

TypeOK ==
  /\ live \subseteq Workspaces
  /\ role \in [Workspaces \X Users -> {"none", "MEMBER", "OWNER"}]
  /\ left \subseteq Workspaces \X Users
  /\ project \in [Projects -> ProjectRows]
  /\ task \in [Tasks -> TaskRows]
  /\ \A t \in Tasks : task[t].life # "unused" => task[t].status # Nil
  /\ comment \in [Comments -> CommentRows]
  /\ history \in [Tasks -> Seq(HistoryRows)]
  /\ cache \in [Key -> {Nil} \cup SUBSET Rows]
  /\ sent \in 0..MaxRequests /\ changes \in 0..MaxChanges
  /\ req \in [Requests ->
       [op : {"none"} \cup ProjectOps \cup TaskOps \cup CommentOps \cup HistoryOps,
        pc : PCs, actor : Users \cup {Nil}, ws : Workspaces \cup {Nil},
        project : Projects \cup {Nil}, task : Tasks \cup {Nil},
        comment : Comments \cup {Nil}, target : Users \cup {Nil},
        old : TaskStatuses \cup {Nil}, seen : SUBSET Rows, lists : SUBSET Users]]

\* Deleting anything takes everything below it along, and nothing is ever
\* inserted below a row that is gone, however the checks of the insert and
\* the delete overlap (schema.prisma, onDelete: Cascade).
NoOrphanItems ==
  /\ \A p \in Projects : project[p].life = "live" => project[p].ws \in live
  /\ \A t \in Tasks : task[t].life = "live" => project[task[t].project].life = "live"
  /\ \A c \in Comments : comment[c].life = "live" => task[comment[c].task].life = "live"
  /\ \A t \in Tasks : history[t] # <<>> => task[t].life = "live"

\* Whoever made, was assigned or changed something in a workspace was a member
\* of that workspace at some time: a URL that names one workspace and a
\* project, task or comment of another gives no way in, and a check that was
\* overtaken by a removal lets in former members only.
OutsidersLeaveNoTrace ==
  /\ \A p \in Projects : project[p].life = "live" =>
       WasMember(project[p].ws, project[p].by)
  /\ \A t \in Tasks : task[t].life = "live" =>
       LET w == project[task[t].project].ws IN
         /\ WasMember(w, task[t].by)
         /\ task[t].assignee # Nil => WasMember(w, task[t].assignee)
         /\ \A i \in DOMAIN history[t] : WasMember(w, history[t][i].by)
  /\ \A c \in Comments : comment[c].life = "live" =>
       WasMember(project[task[comment[c].task].project].ws, comment[c].by)

\* The row that a checked update or delete is about to touch.
TargetBy(r) ==
  CASE req[r].op \in ProjectOps -> project[req[r].project].by
    [] req[r].op \in TaskOps    -> task[req[r].task].by
    [] OTHER                    -> comment[req[r].comment].by

\* "Only the creator or workspace owner can perform this action" still holds
\* when the statement runs, several awaits after the check: creators do not
\* change and an owner cannot be removed.
ManagersStayAuthorized ==
  \A r \in Requests :
    At(r, "write") /\ req[r].op \in {"updateProject", "removeProject", "removeTask",
                                    "updateComment", "removeComment"} =>
      \/ TargetBy(r) = req[r].actor
      \/ IsOwner(req[r].ws, req[r].actor)
      \/ req[r].ws \notin live

\* The trail of a living task names every status it has: each row changes a
\* status the task was created with, or that an earlier row has given it, into
\* another, and what the task shows now is one of these, however the reads and
\* transactions of updates overlap.
TrailNamesEveryStatus ==
  \A t \in Tasks : task[t].life = "live" =>
    LET trail == history[t]
        Named(n) == {task[t].opened} \cup {trail[i].new : i \in 1..n}
    IN /\ task[t].status \in Named(Len(trail))
       /\ \A n \in DOMAIN trail : /\ trail[n].old \in Named(n - 1)
                                 /\ trail[n].new # trail[n].old

\* Once the writes of projects have been followed by their purges, every
\* project page Redis holds is what the query would return (a deleted project
\* has none), for the members of living workspaces that were never removed:
\* the pages of a member removed once survive the purges made in their absence.
Purged == \A r \in Requests : req[r].pc \notin {"purgeDetail", "memberIds", "purgeLists"}
ProjectPagesCurrent ==
  Purged =>
    \A k \in Key :
      /\ cache[k] # Nil /\ k[2] \in live
      /\ k[1] = "list" => <<k[2], k[3]>> \notin left
      => cache[k] = Query(k)

\* Every request is answered, whatever the others delete under it.
EveryRequestAnswered == \A r \in Requests : ~IsFree(r) ~> IsFree(r)

-----------------------------------------------------------------------------
(* What a comment of the source says and the handlers do not do.           *)

\* tasks.repository.ts:103-105: the trail does not silently miss a change of
\* status; a living task's status moves together with a TaskHistory row that
\* ends in the new one.
StatusChangesAreAudited ==
  [][\A t \in Tasks :
       task[t].life = "live" /\ task'[t].life = "live"
         /\ task'[t].status # task[t].status =>
       /\ Len(history'[t]) = Len(history[t]) + 1
       /\ history'[t][Len(history'[t])].new = task'[t].status]_vars
=============================================================================
