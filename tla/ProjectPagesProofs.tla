-------------------------- MODULE ProjectPagesProofs --------------------------
(***************************************************************************)
(* The project pages in Redis (WorkItems): as long as one request at a     *)
(* time reads or writes projects, no page outlives what it shows.  With    *)
(* two, a read that began before a write may fill a page after the write   *)
(* has purged it; the theorem has this as its hypothesis (Alone).          *)
(*                                                                         *)
(* A page is current, or the request has still to delete it (Due), or it   *)
(* belongs to a member who was removed once.  No other page escapes        *)
(* invalidateListsForAllMembers, which asks for the members after the      *)
(* write: whoever has a page was a member when it was filled (Filled).     *)
(***************************************************************************)
EXTENDS WorkItemsProofs

\* No request but r calls the handlers of ProjectsService.
Alone(r) == \A s \in Requests \ {r} : Ops[s] \cap ProjectOps = {}
Others(r) == \A s \in Requests \ {r} : req[s].op \notin ProjectOps

\* The pages of workspace q.ws that q has still to delete.
Due(q, k) ==
  /\ k[2] = q.ws
  /\ \/ q.pc = "purgeDetail" /\ (k[1] = "list" \/ k[3] = q.project)
     \/ q.pc = "memberIds" /\ k[1] = "list"
     \/ q.pc = "purgeLists" /\ k[1] = "list" /\ k[3] \in q.lists

OfRemoved(k) == k[1] = "list" /\ <<k[2], k[3]>> \in left

Current(r) ==
  \A k \in Key : cache[k] # Nil /\ k[2] \in live =>
    OfRemoved(k) \/ Due(req[r], k) \/ cache[k] = Query(k)

\* Pages are filled for members, and for projects that were inserted.
Filled ==
  \A k \in Key : cache[k] # Nil =>
    IF k[1] = "list" THEN WasMember(k[2], k[3]) ELSE KnownProject(k[3])

\* What the request that fills or purges knows.
Reading(r) ==
  /\ req[r].op = "listProjects" /\ req[r].pc \in {"cacheGet", "read", "cacheSet"} =>
       Admitted(req[r])
  /\ req[r].pc = "cacheSet" /\ req[r].ws \in live => req[r].seen = Query(PageKey(r))
  /\ req[r].op \in {"updateProject", "removeProject"} /\ req[r].pc \in {"manager", "write"} =>
       InProject(req[r])

PagesInv(r) == Others(r) /\ Current(r) /\ Filled /\ Reading(r)

-----------------------------------------------------------------------------
(* Keys and queries.                                                       *)

\* What a key is made of.
LEMMA KeyFacts ==
  ASSUME NEW k \in Key
  PROVE  /\ k = <<k[1], k[2], k[3]>> /\ k[2] \in Workspaces
         /\ \/ k[1] = "detail" /\ k[3] \in Projects
            \/ k[1] = "list" /\ k[3] \in Users
  BY DEF Key

\* The key of a page that a request fills.
LEMMA PageKeyFacts ==
  ASSUME IInv, NEW r \in Requests, req[r].op \in {"listProjects", "findProject"}
  PROVE  /\ PageKey(r) \in Key /\ PageKey(r)[2] = req[r].ws
         /\ req[r].op = "findProject" =>
              PageKey(r)[1] = "detail" /\ PageKey(r)[3] = req[r].project
         /\ req[r].op = "listProjects" =>
              PageKey(r)[1] = "list" /\ PageKey(r)[3] = req[r].actor
  BY RequestFacts DEF Ids, ExistingProjectOps, PageKey, Doing, Key

\* A query sees the projects of its workspace, and their names.
LEMMA QueryKept ==
  ASSUME NEW k \in Key,
         \A p \in Projects : k[1] = "list" \/ k[3] = p =>
           /\ ProjectIn(p, k[2])' <=> ProjectIn(p, k[2])
           /\ ProjectIn(p, k[2]) => project'[p].name = project[p].name
  PROVE  Query(k)' = Query(k)
<1> DEFINE found == IF k[1] = "detail" THEN {k[3]} ELSE Projects
<1>1. \A p \in found : /\ ProjectIn(p, k[2])' <=> ProjectIn(p, k[2])
                       /\ ProjectIn(p, k[2]) => project'[p].name = project[p].name
  BY KeyFacts
<1>2. Query(k) = {<<p, project[p].name>> : p \in {q \in found : ProjectIn(q, k[2])}}
  BY DEF Query
<1>3. Query(k)' = {<<p, project'[p].name>> : p \in {q \in found : ProjectIn(q, k[2])'}}
  BY DEF Query
<1> HIDE DEF found
<1>4. {q \in found : ProjectIn(q, k[2])'} = {q \in found : ProjectIn(q, k[2])}
  BY <1>1
<1> QED
  BY <1>1, <1>2, <1>3, <1>4

-----------------------------------------------------------------------------
(* Steps that leave projects and pages alone.                              *)

\* The request goes on, with no page less to delete.
LEMMA PagesKept ==
  ASSUME NEW r \in Requests, PagesInv(r), UNCHANGED <<live, role, left, project, cache>>,
         Others(r)', Reading(r)',
         \A k \in Key : cache[k] # Nil /\ Due(req[r], k) => Due(req'[r], k) \/ OfRemoved(k)
  PROVE  PagesInv(r)'
<1>1. \A k \in Key : Query(k)' = Query(k)
  BY QueryKept DEF ProjectIn
<1>2. Current(r)'
  BY <1>1 DEF PagesInv, Current, OfRemoved, Due
<1>3. Filled'
  BY DEF PagesInv, Filled, WasMember, IsMember, KnownProject
<1> QED
  BY <1>2, <1>3 DEF PagesInv

\* A handler of another service touches neither.
LEMMA OtherStep ==
  ASSUME IInv, NEW s \in Requests, Step(s), req[s].op \notin ProjectOps
  PROVE  /\ UNCHANGED <<live, role, left, project, cache>>
         /\ req'[s].op \in {"none", req[s].op}
         /\ \A r \in Requests \ {s} : req'[r] = req[r]
<1>1. /\ req \in [Requests -> RequestRecord] /\ req[s] \in RequestRecord
      /\ Ids(req[s]) /\ Stages(req[s].op, req[s].pc)
  BY RequestFacts DEF IInv
<1>2. req[s].pc \notin {"cacheGet", "cacheSet", "purgeDetail", "memberIds", "purgeLists"}
  BY <1>1 DEF RequestRecord, Stages, Ids, ProjectOps, TaskOps, CommentOps, HistoryOps,
              ExistingCommentOps
<1>3. ASSUME NEW pc, Goto(s, pc)
      PROVE  req'[s].op = req[s].op /\ \A r \in Requests \ {s} : req'[r] = req[r]
  BY <1>1, <1>3 DEF Goto, RequestRecord
<1>4. ASSUME Answer(s)
      PROVE  req'[s].op = "none" /\ \A r \in Requests \ {s} : req'[r] = req[r]
  BY <1>1, <1>4 DEF Answer, Free
<1>5. CASE \/ TaskCheck(s) \/ CommentCheck(s) \/ HistoryCheck(s)
  <2>1. Answer(s) \/ \E pc : Goto(s, pc)
    BY <1>5 DEF TaskCheck, CommentCheck, HistoryCheck, Check
  <2>2. UNCHANGED <<live, role, left, project, cache>>
    BY <1>5 DEF TaskCheck, CommentCheck, HistoryCheck, Check, members, tables
  <2> QED
    BY <2>1, <2>2, <1>3, <1>4
<1>6. CASE GetTask(s)
  <2>1. UNCHANGED <<live, role, left, project, cache>>
    BY <1>6 DEF GetTask, members, tables
  <2>2. Answer(s) \/ \E pc, old : req' = [req EXCEPT ![s].pc = pc, ![s].old = old]
    BY <1>6 DEF GetTask
  <2>3. ASSUME NEW pc, NEW old, req' = [req EXCEPT ![s].pc = pc, ![s].old = old]
        PROVE  req'[s].op = req[s].op /\ \A r \in Requests \ {s} : req'[r] = req[r]
    BY <1>1, <2>3 DEF RequestRecord
  <2> QED
    BY <2>1, <2>2, <2>3, <1>4
<1>7. CASE AssertAssignee(s)
  <2>1. UNCHANGED <<live, role, left, project, cache>>
    BY <1>7 DEF AssertAssignee, members, tables
  <2>2. Answer(s) \/ \E pc, u : req' = [req EXCEPT ![s].pc = pc, ![s].target = u]
    BY <1>7 DEF AssertAssignee
  <2>3. ASSUME NEW pc, NEW u, req' = [req EXCEPT ![s].pc = pc, ![s].target = u]
        PROVE  req'[s].op = req[s].op /\ \A r \in Requests \ {s} : req'[r] = req[r]
    BY <1>1, <2>3 DEF RequestRecord
  <2> QED
    BY <2>1, <2>2, <2>3, <1>4
<1>8. CASE \/ Read(s) \/ InsertTask(s) \/ UpdateTask(s) \/ DeleteTask(s)
           \/ InsertComment(s) \/ UpdateComment(s) \/ DeleteComment(s)
  <2>1. Answer(s)
    BY <1>8 DEF Read, InsertTask, UpdateTask, DeleteTask, InsertComment, UpdateComment,
                DeleteComment
  <2>2. UNCHANGED <<live, role, left, project, cache>>
    BY <1>8 DEF Read, InsertTask, UpdateTask, DeleteTask, InsertComment, UpdateComment,
                DeleteComment, members, tables
  <2> QED
    BY <2>1, <2>2, <1>4
<1>9. CASE \/ ProjectCheck(s) \/ InsertProject(s) \/ UpdateProject(s) \/ DeleteProject(s)
           \/ CacheGet(s) \/ QueryProjects(s) \/ CacheSet(s)
           \/ PurgeDetail(s) \/ FindMemberIds(s) \/ PurgeLists(s)
  BY <1>2, <1>9 DEF ProjectCheck, InsertProject, UpdateProject, DeleteProject, CacheGet,
                    QueryProjects, CacheSet, PurgeDetail, FindMemberIds, PurgeLists,
                    Doing, At, ProjectOps
<1> QED
  BY <1>5, <1>6, <1>7, <1>8, <1>9 DEF Step

\* Another request's step is of another service.
LEMMA OthersStepInv ==
  ASSUME IInv, NEW r \in Requests, PagesInv(r), NEW s \in Requests \ {r}, Step(s)
  PROVE  PagesInv(r)'
<1>1. req[s].op \notin ProjectOps
  BY DEF PagesInv, Others
<1>2. /\ UNCHANGED <<live, role, left, project, cache>>
      /\ req'[s].op \in {"none", req[s].op}
      /\ \A x \in Requests \ {s} : req'[x] = req[x]
  BY <1>1, OtherStep
<1>3. Others(r)'
  BY <1>1, <1>2 DEF PagesInv, Others, ProjectOps
<1>4. \A k \in Key : Query(k)' = Query(k)
  BY <1>2, QueryKept DEF ProjectIn
<1>5. req'[r] = req[r]
  BY <1>2
<1>6. Reading(r)'
  <2>1. req[r].pc = "cacheSet" => PageKey(r)' = PageKey(r) /\ PageKey(r) \in Key
    <3>1. req[r].pc = "cacheSet" => req[r].op \in {"listProjects", "findProject"}
      BY RequestFacts
         DEF RequestRecord, Stages, Ids, ProjectOps, TaskOps, CommentOps, HistoryOps,
             ExistingCommentOps
    <3> QED
      BY <1>5, <3>1, PageKeyFacts DEF PageKey, Doing
  <2> QED
    BY <1>2, <1>4, <1>5, <2>1
    DEF PagesInv, Reading, Admitted, InProject, WasMember, IsMember
<1> QED
  BY <1>2, <1>3, <1>5, <1>6, PagesKept

-----------------------------------------------------------------------------
(* The steps of the request itself.                                        *)

\* Its record is the only one it changes.
LEMMA OthersLeft ==
  ASSUME IInv, NEW r \in Requests, Others(r), NEW q, req' = [req EXCEPT ![r] = q]
  PROVE  Others(r)' /\ req'[r] = q
  BY DEF IInv, Others

\* A handler that answers.
LEMMA AnswerPages ==
  ASSUME IInv, NEW r \in Requests, PagesInv(r), Answer(r),
         UNCHANGED <<live, role, left, project, cache>>,
         req[r].pc \notin {"purgeDetail", "memberIds", "purgeLists"}
  PROVE  PagesInv(r)'
<1>1. Others(r)' /\ req'[r] = Free
  BY OthersLeft DEF Answer, PagesInv
<1>2. Reading(r)'
  BY <1>1 DEF Free, Reading
<1> QED
  BY <1>1, <1>2, PagesKept DEF Due

\* What Goto leaves of the record.
LEMMA GotoKeeps ==
  ASSUME IInv, NEW r \in Requests, NEW pc, Goto(r, pc)
  PROVE  /\ req' = [req EXCEPT ![r] = [req[r] EXCEPT !.pc = pc]]
         /\ req'[r].pc = pc /\ req'[r].op = req[r].op /\ req'[r].ws = req[r].ws
         /\ req'[r].actor = req[r].actor /\ req'[r].project = req[r].project
         /\ req'[r].lists = req[r].lists /\ req'[r].seen = req[r].seen
<1>1. req \in [Requests -> RequestRecord] /\ req[r] \in RequestRecord
  BY DEF IInv
<1> QED
  BY <1>1 DEF Goto, RequestRecord

\* It is sent: nothing of it was left to do.
LEMMA SendPages ==
  ASSUME IInv, NEW r \in Requests, Alone(r), PagesInv(r), NEW s \in Requests, Send(s)
  PROVE  PagesInv(r)'
<1>1. UNCHANGED <<live, role, left, project, cache>>
  BY DEF Send, members, tables
<1>2. req[s].pc = "answered"
  BY DEF Send, IsFree
<1> DEFINE Begun == /\ req'[s].pc = "workspace" /\ req'[s].op \in Ops[s]
                    /\ \A x \in Requests \ {s} : req'[x] = req[x]
<1>3. ASSUME NEW op, NEW a, NEW w, NEW p, NEW t, NEW c, Start(s, op, a, w, p, t, c)
      PROVE  Begun
  <2> DEFINE q == [Free EXCEPT !.op = op, !.pc = "workspace", !.actor = a,
                               !.ws = w, !.project = p, !.task = t, !.comment = c]
  <2>1. q.pc = "workspace" /\ q.op = op
    BY DEF Free
  <2>2. req' = [req EXCEPT ![s] = q] /\ op \in Ops[s]
    BY <1>3 DEF Start
  <2> HIDE DEF q
  <2> QED
    BY <2>1, <2>2 DEF IInv
<1> HIDE DEF Begun
<1>4. Begun
  <2>1. PICK a \in Users, wp \in Paths :
               \/ ProjectRequest(s, a, wp[1], wp[2]) \/ TaskRequest(s, a, wp[1], wp[2])
               \/ CommentRequest(s, a, wp[1], wp[2]) \/ HistoryRequest(s, a, wp[1], wp[2])
    BY DEF Send
  <2>2. CASE ProjectRequest(s, a, wp[1], wp[2])
    BY <1>3, <2>2 DEF ProjectRequest
  <2>3. CASE TaskRequest(s, a, wp[1], wp[2])
    BY <1>3, <2>3 DEF TaskRequest
  <2>4. CASE CommentRequest(s, a, wp[1], wp[2])
    BY <1>3, <2>4 DEF CommentRequest
  <2>5. CASE HistoryRequest(s, a, wp[1], wp[2])
    BY <1>3, <2>5 DEF HistoryRequest
  <2> QED
    BY <2>1, <2>2, <2>3, <2>4, <2>5
<1> USE DEF Begun
<1>5. Others(r)'
  BY <1>4 DEF Alone, PagesInv, Others
<1>6. CASE s = r
  <2>1. Reading(r)'
    BY <1>4, <1>6 DEF Reading
  <2> QED
    BY <1>1, <1>2, <1>5, <1>6, <2>1, PagesKept DEF Due
<1>7. CASE s # r
  <2>1. req'[r] = req[r]
    BY <1>4, <1>7
  <2>2. \A k \in Key : Query(k)' = Query(k)
    BY <1>1, QueryKept DEF ProjectIn
  <2>3. req[r].pc = "cacheSet" => PageKey(r)' = PageKey(r) /\ PageKey(r) \in Key
    <3>1. req[r].pc = "cacheSet" => req[r].op \in {"listProjects", "findProject"}
      BY RequestFacts
         DEF RequestRecord, Stages, Ids, ProjectOps, TaskOps, CommentOps, HistoryOps,
             ExistingCommentOps
    <3> QED
      BY <2>1, <3>1, PageKeyFacts DEF PageKey, Doing
  <2>4. Reading(r)'
    BY <1>1, <2>1, <2>2, <2>3
    DEF PagesInv, Reading, Admitted, InProject, WasMember, IsMember
  <2> QED
    BY <1>1, <1>5, <2>1, <2>4, PagesKept
<1> QED
  BY <1>6, <1>7

\* A handler of another service that it may call too.
LEMMA OwnOtherStep ==
  ASSUME IInv, IInv', NEW r \in Requests, PagesInv(r), Step(r), req[r].op \notin ProjectOps
  PROVE  PagesInv(r)'
<1>1. /\ UNCHANGED <<live, role, left, project, cache>>
      /\ req'[r].op \in {"none", req[r].op}
      /\ \A x \in Requests \ {r} : req'[x] = req[x]
  BY OtherStep
<1>2. Others(r)'
  BY <1>1 DEF PagesInv, Others
<1>3. \A q \in RequestRecord : q.op \notin ProjectOps /\ Ids(q) /\ Stages(q.op, q.pc) =>
        q.pc \notin {"cacheGet", "cacheSet", "purgeDetail", "memberIds", "purgeLists"}
  BY DEF RequestRecord, Stages, Ids, ProjectOps, TaskOps, CommentOps, HistoryOps,
         ExistingCommentOps
<1>4. req[r].pc \notin {"purgeDetail", "memberIds", "purgeLists"}
  BY <1>3, RequestFacts
<1>5. req'[r] \in RequestRecord /\ req'[r].op \notin ProjectOps /\ Ids(req[r])'
      /\ Stages(req'[r].op, req'[r].pc)
  BY <1>1 DEF IInv, Sound, ProjectOps, Stages
<1>6. Reading(r)'
  <2>1. req'[r].pc # "cacheSet"
    BY <1>5 DEF RequestRecord, Stages, Ids, ProjectOps, TaskOps, CommentOps, HistoryOps,
                ExistingCommentOps
  <2> QED
    BY <1>5, <2>1 DEF Reading, ProjectOps
<1> QED
  BY <1>1, <1>2, <1>4, <1>6, PagesKept DEF Due

\* The checks of ProjectsService: by "cacheGet" the actor is a member, by
\* "manager" the project is of the workspace.
LEMMA ProjectCheckPages ==
  ASSUME IInv, NEW r \in Requests, PagesInv(r), ProjectCheck(r)
  PROVE  PagesInv(r)'
<1> DEFINE op == req[r].op
           next == ProjectFlow(op, req[r].pc)
<1>1. /\ req[r].pc \in {"workspace", "member", "project", "manager"} /\ op \in ProjectOps
      /\ UNCHANGED <<live, role, left, project, cache>>
      /\ Stages(op, req[r].pc)
  BY RequestFacts DEF ProjectCheck, Check, At, members, tables
<1>2. CASE Answer(r)
  BY <1>1, <1>2, AnswerPages
<1>3. CASE Goto(r, next) /\ ~Answer(r)
  <2>1. req[r].pc = "member" => IsMember(req[r].ws, req[r].actor)
    BY <1>3 DEF ProjectCheck, Check, At
  <2>2. req[r].pc = "project" => ProjectIn(req[r].project, req[r].ws)
    BY <1>3 DEF ProjectCheck, Check, At
  <2>3. next = CASE req[r].pc = "workspace" -> IF op \in {"updateProject", "removeProject"}
                                                 THEN "project" ELSE "member"
                 [] req[r].pc = "member"  -> IF op = "createProject" THEN "write"
                                                                     ELSE "cacheGet"
                 [] req[r].pc = "project" -> "manager"
                 [] req[r].pc = "manager" -> "write"
    BY <1>1 DEF ProjectFlow
  <2>4. /\ req'[r].pc = next /\ req'[r].op = op /\ req'[r].ws = req[r].ws
        /\ req'[r].actor = req[r].actor /\ req'[r].project = req[r].project
        /\ Others(r)'
    BY <1>3, GotoKeeps, OthersLeft DEF PagesInv
  <2>5. Admitted(req[r]) <=> Admitted(req[r])'
    BY <1>1, <2>4 DEF Admitted, WasMember, IsMember
  <2>6. InProject(req[r]) <=> InProject(req[r])'
    BY <1>1, <2>4 DEF InProject
  <2>7. op = "listProjects" /\ next = "cacheGet" => Admitted(req[r])
    BY <1>1, <2>1, <2>3 DEF Admitted, WasMember, Stages
  <2>8. op \in {"updateProject", "removeProject"} /\ next \in {"manager", "write"} =>
          InProject(req[r])
    BY <1>1, <2>2, <2>3 DEF PagesInv, Reading, InProject, ProjectIn, Stages
  <2>9. next \notin {"read", "cacheSet"}
    BY <1>1, <2>3
  <2>10. Reading(r)'
    BY <2>4, <2>5, <2>6, <2>7, <2>8, <2>9 DEF Reading
  <2> QED
    BY <1>1, <2>4, <2>10, PagesKept DEF Due
<1> QED
  BY <1>2, <1>3 DEF ProjectCheck, Check, At

\* A page that is there is answered, another is queried.
LEMMA CacheGetPages ==
  ASSUME IInv, NEW r \in Requests, PagesInv(r), CacheGet(r)
  PROVE  PagesInv(r)'
<1>1. req[r].pc = "cacheGet" /\ UNCHANGED <<live, role, left, project, cache>>
  BY DEF CacheGet, At, members, tables
<1>2. CASE Answer(r)
  BY <1>1, <1>2, AnswerPages
<1>3. CASE Goto(r, "read")
  <2>1. /\ req'[r].pc = "read" /\ req'[r].op = req[r].op /\ req'[r].ws = req[r].ws
        /\ req'[r].actor = req[r].actor /\ Others(r)'
    BY <1>3, GotoKeeps, OthersLeft DEF PagesInv
  <2>2. Reading(r)'
    BY <1>1, <2>1 DEF PagesInv, Reading, Admitted, WasMember, IsMember
  <2> QED
    BY <1>1, <2>1, <2>2, PagesKept DEF Due
<1> QED
  BY <1>2, <1>3 DEF CacheGet

\* The query: what it returned is what it would return.
LEMMA QueryPages ==
  ASSUME IInv, NEW r \in Requests, PagesInv(r), QueryProjects(r)
  PROVE  PagesInv(r)'
<1> DEFINE found == Query(PageKey(r))
           q == [req[r] EXCEPT !.pc = "cacheSet", !.seen = found]
<1>1. /\ req[r].pc = "read" /\ req[r].op \in {"listProjects", "findProject"}
      /\ UNCHANGED <<live, role, left, project, cache>>
  BY DEF QueryProjects, At, members, tables
<1>2. CASE Answer(r)
  BY <1>1, <1>2, AnswerPages
<1>3. CASE req' = [req EXCEPT ![r] = q]
  <2>1. req[r] \in RequestRecord
    BY DEF IInv
  <2>2. /\ q.pc = "cacheSet" /\ q.op = req[r].op /\ q.ws = req[r].ws
        /\ q.actor = req[r].actor /\ q.project = req[r].project /\ q.seen = found
    BY <2>1 DEF RequestRecord
  <2>3. Others(r)' /\ req'[r] = q
    BY <1>3, OthersLeft DEF PagesInv
  <2> HIDE DEF q
  <2>4. PageKey(r)' = PageKey(r) /\ PageKey(r) \in Key
    BY <1>1, <2>2, <2>3, PageKeyFacts DEF PageKey, Doing
  <2>5. Query(PageKey(r))' = found
    BY <1>1, <2>4, QueryKept DEF ProjectIn
  <2>6. Reading(r)'
    BY <1>1, <2>2, <2>3, <2>5 DEF PagesInv, Reading, Admitted, WasMember, IsMember
  <2> QED
    BY <1>1, <2>3, <2>6, PagesKept DEF Due
<1>4. Answer(r) \/ req' = [req EXCEPT ![r] = q]
  BY DEF QueryProjects
<1> QED
  BY <1>2, <1>3, <1>4

\* The page is filled with what the query returned.
LEMMA CacheSetPages ==
  ASSUME IInv, NEW r \in Requests, PagesInv(r), CacheSet(r)
  PROVE  PagesInv(r)'
<1> DEFINE key == PageKey(r)
<1>1. /\ req[r].pc = "cacheSet" /\ UNCHANGED <<live, role, left, project>>
      /\ cache' = [cache EXCEPT ![key] = req[r].seen] /\ Answer(r)
  BY DEF CacheSet, At, members, tables
<1>2. req[r].op \in {"listProjects", "findProject"}
  BY <1>1, RequestFacts
  DEF RequestRecord, Stages, Ids, ProjectOps, TaskOps, CommentOps, HistoryOps,
      ExistingCommentOps
<1>3. /\ key \in Key /\ key[2] = req[r].ws
      /\ req[r].op = "findProject" => key[1] = "detail" /\ key[3] = req[r].project
      /\ req[r].op = "listProjects" => key[1] = "list" /\ key[3] = req[r].actor
  BY <1>2, PageKeyFacts
<1>4. Others(r)' /\ req'[r] = Free
  BY <1>1, OthersLeft DEF Answer, PagesInv
<1>5. cache \in [Key -> {Nil} \cup SUBSET Rows]
  BY DEF IInv, OtherTypes
<1>6. \A k \in Key : Query(k)' = Query(k)
  BY <1>1, QueryKept DEF ProjectIn
<1>7. Reading(r)'
  BY <1>4 DEF Free, Reading
<1> HIDE DEF key
<1>8. Current(r)'
  <2> SUFFICES ASSUME NEW k \in Key, cache'[k] # Nil, k[2] \in live', ~OfRemoved(k)'
               PROVE  cache'[k] = Query(k)'
    BY DEF Current
  <2>1. CASE k = key
    BY <1>1, <1>3, <1>5, <1>6, <2>1 DEF PagesInv, Reading, key
  <2>2. CASE k # key
    BY <1>1, <1>5, <1>6, <2>2 DEF PagesInv, Current, OfRemoved, Due
  <2> QED
    BY <2>1, <2>2
<1>9. Filled'
  <2> SUFFICES ASSUME NEW k \in Key, cache'[k] # Nil
               PROVE  IF k[1] = "list" THEN WasMember(k[2], k[3])' ELSE KnownProject(k[3])'
    BY DEF Filled
  <2>1. CASE k = key
    <3>1. CASE req[r].op = "findProject"
      BY <1>1, <1>3, <2>1, <3>1, RequestFacts DEF Ids, ExistingProjectOps, KnownProject
    <3>2. CASE req[r].op = "listProjects"
      BY <1>1, <1>3, <2>1, <3>2
      DEF PagesInv, Reading, Admitted, WasMember, IsMember
    <3> QED
      BY <1>2, <3>1, <3>2
  <2>2. CASE k # key
    BY <1>1, <1>5, <2>2 DEF PagesInv, Filled, WasMember, IsMember, KnownProject
  <2> QED
    BY <2>1, <2>2
<1> QED
  BY <1>4, <1>7, <1>8, <1>9 DEF PagesInv

\* A write of one project of the request's workspace: the pages it makes
\* stale are those that are due now.
LEMMA WritePages ==
  ASSUME IInv, NEW r \in Requests, PagesInv(r), NEW p0 \in Projects, p0 = req[r].project,
         UNCHANGED <<live, role, left, cache>>,
         \A p \in Projects : KnownProject(p) => KnownProject(p)',
         \A p \in Projects : p # p0 => project'[p] = project[p],
         \A k \in Key : cache[k] # Nil => k[1] = "list" \/ Due(req'[r], k)
                                                      \/ k[3] # p0
                                                      \/ k[2] # req[r].ws,
         \A w \in Workspaces \ {req[r].ws} : ~ProjectIn(p0, w) /\ ~ProjectIn(p0, w)',
         Others(r)', Reading(r)', req[r].pc = "write",
         \A k \in Key : k[1] = "list" /\ k[2] = req[r].ws => Due(req'[r], k)
  PROVE  PagesInv(r)'
<1>1. ASSUME NEW k \in Key, cache[k] # Nil, ~Due(req'[r], k) PROVE Query(k)' = Query(k)
  <2>1. \A p \in Projects \ {p0} :
          /\ ProjectIn(p, k[2])' <=> ProjectIn(p, k[2])
          /\ project'[p].name = project[p].name
    BY DEF ProjectIn
  <2>2. CASE k[2] # req[r].ws
    <3>1. k[2] \in Workspaces \ {req[r].ws}
      BY <2>2, KeyFacts
    <3> QED
      BY <2>1, <3>1, QueryKept
  <2>3. CASE k[2] = req[r].ws
    <3>1. k[1] # "list" /\ k[3] # p0
      BY <1>1, <2>3
    <3> QED
      BY <2>1, <3>1, QueryKept
  <2> QED
    BY <2>2, <2>3
<1>2. Current(r)'
  <2>1. \A k \in Key : ~Due(req[r], k)
    BY DEF Due
  <2> QED
    BY <1>1, <2>1 DEF PagesInv, Current, OfRemoved, Due
<1>3. Filled'
  <2> SUFFICES ASSUME NEW k \in Key, cache'[k] # Nil
               PROVE  IF k[1] = "list" THEN WasMember(k[2], k[3])' ELSE KnownProject(k[3])'
    BY DEF Filled
  <2>1. IF k[1] = "list" THEN WasMember(k[2], k[3]) ELSE KnownProject(k[3])
    BY DEF PagesInv, Filled
  <2>2. WasMember(k[2], k[3])' <=> WasMember(k[2], k[3])
    BY DEF WasMember, IsMember
  <2> QED
    BY <2>1, <2>2, KeyFacts
<1> QED
  BY <1>2, <1>3 DEF PagesInv

\* A new project is on no page yet, but missing on the lists.
LEMMA InsertProjectPages ==
  ASSUME IInv, NEW r \in Requests, PagesInv(r), InsertProject(r)
  PROVE  PagesInv(r)'
<1>1. /\ req[r].pc = "write" /\ req[r].op = "createProject"
      /\ UNCHANGED <<live, role, left, cache>>
  BY DEF InsertProject, At, Doing, members
<1>2. CASE Answer(r) /\ UNCHANGED project
  BY <1>1, <1>2, AnswerPages
<1>3. CASE /\ Goto(r, "memberIds")
           /\ \E n \in Names : project' = [project EXCEPT ![req[r].project] =
                [life |-> "live", ws |-> req[r].ws, by |-> req[r].actor, name |-> n]]
  <2>0. PICK p0 \in Projects : p0 = req[r].project
    BY <1>1, RequestFacts DEF Ids, Early
  <2>1. ~KnownProject(p0) /\ project \in [Projects -> ProjectRows]
    BY <1>1, <2>0, RequestFacts DEF Ids, Early, IInv, DbInv, TableTypes
  <2>2. PICK n \in Names : project' = [project EXCEPT ![p0] =
          [life |-> "live", ws |-> req[r].ws, by |-> req[r].actor, name |-> n]]
    BY <1>3, <2>0
  <2>3. /\ project'[p0].life = "live" /\ project'[p0].ws = req[r].ws
        /\ \A p \in Projects : p # p0 => project'[p] = project[p]
    BY <2>1, <2>2
  <2>4. /\ req'[r].pc = "memberIds" /\ req'[r].op = req[r].op /\ req'[r].ws = req[r].ws
        /\ Others(r)'
    BY <1>3, GotoKeeps, OthersLeft DEF PagesInv
  <2>5. Reading(r)'
    BY <1>1, <2>4 DEF Reading
  <2>6. \A k \in Key : cache[k] # Nil => k[1] = "list" \/ k[3] # p0
    BY <2>1 DEF PagesInv, Filled
  <2>7. \A p \in Projects : KnownProject(p) => KnownProject(p)'
    BY <2>1, <2>3 DEF KnownProject
  <2>8. \A w \in Workspaces \ {req[r].ws} : ~ProjectIn(p0, w) /\ ~ProjectIn(p0, w)'
    BY <2>1, <2>3 DEF ProjectIn, KnownProject
  <2>9. \A k \in Key : k[1] = "list" /\ k[2] = req[r].ws => Due(req'[r], k)
    BY <2>4 DEF Due
  <2> QED
    BY <1>1, <2>0, <2>3, <2>4, <2>5, <2>6, <2>7, <2>8, <2>9, WritePages
<1> QED
  BY <1>2, <1>3 DEF InsertProject

\* An update or a removal shows on the page of the project and on the lists.
LEMMA UpdateProjectPages ==
  ASSUME IInv, NEW r \in Requests, PagesInv(r), UpdateProject(r) \/ DeleteProject(r)
  PROVE  PagesInv(r)'
<1>1. /\ req[r].pc = "write" /\ req[r].op \in {"updateProject", "removeProject"}
      /\ UNCHANGED <<live, role, left, cache>>
  BY DEF UpdateProject, DeleteProject, At, Doing, members
<1>2. CASE Answer(r) /\ UNCHANGED project
  BY <1>1, <1>2, AnswerPages
<1>3. CASE Goto(r, "purgeDetail") /\ project[req[r].project].life = "live"
  <2>0. PICK p0 \in Projects : p0 = req[r].project
    BY <1>1, RequestFacts DEF Ids, ExistingProjectOps
  <2>1. project \in [Projects -> ProjectRows] /\ DbInv
    BY DEF IInv, DbInv, TableTypes
  <2>2. /\ \A p \in Projects : p # p0 => project'[p] = project[p]
        /\ \A p \in Projects : /\ project'[p].ws = project[p].ws
                               /\ project'[p].life = "unused" <=> project[p].life = "unused"
    <3>1. CASE UpdateProject(r)
      <4>1. PICK n \in Names : project' = [project EXCEPT ![p0].name = n]
        BY <1>3, <2>0, <3>1 DEF UpdateProject
      <4> QED
        BY <2>1, <4>1 DEF ProjectRows
    <3>2. CASE DeleteProject(r)
      <4>1. DropProjects({p0})
        BY <1>3, <2>0, <3>2 DEF DeleteProject
      <4>2. \A p \in Projects : p # p0 => project'[p] = project[p]
        BY <4>1 DEF DropProjects
      <4> QED
        BY <2>1, <4>1, <4>2, DropProjectsEffect
    <3> QED
      BY <3>1, <3>2
  <2>3. /\ req'[r].pc = "purgeDetail" /\ req'[r].op = req[r].op /\ req'[r].ws = req[r].ws
        /\ req'[r].project = p0 /\ Others(r)'
    BY <1>3, <2>0, GotoKeeps, OthersLeft DEF PagesInv
  <2>4. Reading(r)'
    BY <1>1, <2>3 DEF Reading
  <2>5. project[p0].ws = req[r].ws
    BY <1>1, <2>0 DEF PagesInv, Reading, InProject
  <2>6. \A w \in Workspaces \ {req[r].ws} : ~ProjectIn(p0, w) /\ ~ProjectIn(p0, w)'
    BY <2>1, <2>2, <2>5 DEF ProjectIn
  <2>7. \A p \in Projects : KnownProject(p) => KnownProject(p)'
    BY <2>2 DEF KnownProject
  <2>8. \A k \in Key : k[2] = req[r].ws /\ (k[1] = "list" \/ k[3] = p0) => Due(req'[r], k)
    BY <2>3 DEF Due
  <2> QED
    BY <1>1, <2>0, <2>2, <2>3, <2>4, <2>6, <2>7, <2>8, WritePages
<1> QED
  BY <1>2, <1>3 DEF UpdateProject, DeleteProject, tables

-----------------------------------------------------------------------------
(* The purges.                                                             *)

\* The page of the project goes, the lists are still due.
LEMMA PurgeDetailPages ==
  ASSUME IInv, NEW r \in Requests, PagesInv(r), PurgeDetail(r)
  PROVE  PagesInv(r)'
<1> DEFINE key == <<"detail", req[r].ws, req[r].project>>
<1>1. /\ req[r].pc = "purgeDetail" /\ UNCHANGED <<live, role, left, project>>
      /\ cache' = [cache EXCEPT ![key] = Nil] /\ Goto(r, "memberIds")
  BY DEF PurgeDetail, At, members, tables
<1>2. cache \in [Key -> {Nil} \cup SUBSET Rows]
  BY DEF IInv, OtherTypes
<1>3. /\ req'[r].pc = "memberIds" /\ req'[r].op = req[r].op /\ req'[r].ws = req[r].ws
      /\ Others(r)'
  BY <1>1, GotoKeeps, OthersLeft DEF PagesInv
<1>4. Reading(r)'
  BY <1>3 DEF Reading
<1>5. \A k \in Key : cache'[k] # Nil => k # key /\ cache'[k] = cache[k]
  BY <1>1, <1>2
<1>6. \A k \in Key : k # key /\ Due(req[r], k) => Due(req'[r], k)
  <2> SUFFICES ASSUME NEW k \in Key, k # key, Due(req[r], k) PROVE k[1] = "list"
    BY <1>1, <1>3 DEF Due
  <2>1. k = <<k[1], k[2], k[3]>> /\ k[1] \in {"detail", "list"}
    BY KeyFacts
  <2> QED
    BY <1>1, <2>1 DEF Due
<1>7. \A k \in Key : Query(k)' = Query(k)
  BY <1>1, QueryKept DEF ProjectIn
<1> HIDE DEF key
<1>8. Current(r)'
  BY <1>1, <1>5, <1>6, <1>7 DEF PagesInv, Current, OfRemoved
<1>9. Filled'
  BY <1>1, <1>5 DEF PagesInv, Filled, WasMember, IsMember, KnownProject
<1> QED
  BY <1>3, <1>4, <1>8, <1>9 DEF PagesInv

\* Whoever has a page and is not among the members now has been removed.
LEMMA FindMemberIdsPages ==
  ASSUME IInv, NEW r \in Requests, PagesInv(r), FindMemberIds(r)
  PROVE  PagesInv(r)'
<1> DEFINE q == [req[r] EXCEPT !.pc = "purgeLists", !.lists = MembersOf(req[r].ws)]
<1>1. /\ req[r].pc = "memberIds" /\ UNCHANGED <<live, role, left, project, cache>>
      /\ req' = [req EXCEPT ![r] = q]
  BY DEF FindMemberIds, At, members, tables
<1>2. req[r] \in RequestRecord
  BY DEF IInv
<1>3. /\ q.pc = "purgeLists" /\ q.ws = req[r].ws /\ q.op = req[r].op
      /\ q.lists = MembersOf(req[r].ws)
  BY <1>2 DEF RequestRecord
<1> HIDE DEF q
<1>4. Others(r)' /\ req'[r] = q
  BY <1>1, OthersLeft DEF PagesInv
<1>5. Reading(r)'
  BY <1>3, <1>4 DEF Reading
<1>6. ASSUME NEW k \in Key, cache[k] # Nil, Due(req[r], k)
      PROVE  Due(req'[r], k) \/ OfRemoved(k)
  <2>1. k[1] = "list" /\ k[2] = req[r].ws /\ k[3] \in Users
    BY <1>1, <1>6, KeyFacts DEF Due
  <2>2. IsMember(k[2], k[3]) \/ <<k[2], k[3]>> \in left
    BY <1>6, <2>1 DEF PagesInv, Filled, WasMember
  <2> QED
    BY <1>3, <1>4, <2>1, <2>2 DEF Due, OfRemoved, MembersOf
<1> QED
  BY <1>1, <1>4, <1>5, <1>6, PagesKept

\* The lists go.
LEMMA PurgeListsPages ==
  ASSUME IInv, NEW r \in Requests, PagesInv(r), PurgeLists(r)
  PROVE  PagesInv(r)'
<1>1. /\ req[r].pc = "purgeLists" /\ UNCHANGED <<live, role, left, project>> /\ Answer(r)
      /\ cache' = [k \in Key |-> IF k[1] = "list" /\ k[2] = req[r].ws /\ k[3] \in req[r].lists
                                   THEN Nil ELSE cache[k]]
  BY DEF PurgeLists, At, members, tables
<1>2. Others(r)' /\ req'[r] = Free
  BY <1>1, OthersLeft DEF Answer, PagesInv
<1>3. Reading(r)'
  BY <1>2 DEF Free, Reading
<1>4. \A k \in Key : cache'[k] # Nil => cache'[k] = cache[k] /\ ~Due(req[r], k)
  BY <1>1 DEF Due
<1>5. \A k \in Key : Query(k)' = Query(k)
  BY <1>1, QueryKept DEF ProjectIn
<1>6. Current(r)'
  BY <1>1, <1>4, <1>5 DEF PagesInv, Current, OfRemoved
<1>7. Filled'
  BY <1>1, <1>4 DEF PagesInv, Filled, WasMember, IsMember, KnownProject
<1> QED
  BY <1>2, <1>3, <1>6, <1>7 DEF PagesInv

-----------------------------------------------------------------------------
(* Members and workspaces.                                                 *)

\* A change of the members that forgets nobody, and of the projects of
\* workspaces that are gone.
LEMMA MembersPages ==
  ASSUME IInv, NEW r \in Requests, PagesInv(r), UNCHANGED <<req, cache>>,
         live' \subseteq live, left \subseteq left',
         \A w \in Workspaces, u \in Users : WasMember(w, u) => WasMember(w, u)',
         \A p \in Projects : project'[p].ws = project[p].ws,
         \A p \in Projects : KnownProject(p) => KnownProject(p)',
         \A k \in Key : k[2] \in live' => Query(k)' = Query(k)
  PROVE  PagesInv(r)'
<1>1. Others(r)'
  BY DEF PagesInv, Others
<1>2. Current(r)'
  BY DEF PagesInv, Current, OfRemoved
<1>3. Filled'
  <2> SUFFICES ASSUME NEW k \in Key, cache[k] # Nil
               PROVE  IF k[1] = "list" THEN WasMember(k[2], k[3])' ELSE KnownProject(k[3])'
    BY DEF Filled
  <2>1. IF k[1] = "list" THEN WasMember(k[2], k[3]) ELSE KnownProject(k[3])
    BY DEF PagesInv, Filled
  <2> QED
    BY <2>1, KeyFacts
<1>4. Reading(r)'
  <2>1. req[r].op \in {"listProjects", "updateProject", "removeProject"} =>
          /\ req[r].ws \in Workspaces /\ req[r].actor \in Users
          /\ req[r].op # "listProjects" => req[r].project \in Projects
    BY RequestFacts DEF Ids, ExistingProjectOps
  <2>2. req[r].pc = "cacheSet" =>
          PageKey(r)' = PageKey(r) /\ PageKey(r) \in Key /\ PageKey(r)[2] = req[r].ws
    <3>1. req[r].pc = "cacheSet" => req[r].op \in {"listProjects", "findProject"}
      BY RequestFacts
         DEF RequestRecord, Stages, Ids, ProjectOps, TaskOps, CommentOps, HistoryOps,
             ExistingCommentOps
    <3> QED
      BY <3>1, PageKeyFacts DEF PageKey, Doing
  <2>3. req[r].pc = "cacheSet" /\ req[r].ws \in live' => Query(PageKey(r))' = Query(PageKey(r))
    BY <2>2
  <2> QED
    BY <2>1, <2>3 DEF PagesInv, Reading, Admitted, InProject
<1> QED
  BY <1>1, <1>2, <1>3, <1>4 DEF PagesInv

\* Members come and go, and workspaces go.
LEMMA EnvironmentPages ==
  ASSUME IInv, NEW r \in Requests, PagesInv(r), Environment
  PROVE  PagesInv(r)'
<1>1. UNCHANGED <<req, cache>> /\ role \in [Workspaces \X Users -> {"none", "MEMBER", "OWNER"}]
  BY DEF Environment, IInv, DbInv, TableTypes
<1>2. PICK w \in Workspaces : \/ DeleteWorkspace(w)
                              \/ \E u \in Users : Join(w, u) \/ RemoveMember(w, u)
  BY DEF Environment
<1>3. CASE \E u \in Users : Join(w, u) \/ RemoveMember(w, u)
  <2>1. PICK u \in Users : Join(w, u) \/ RemoveMember(w, u)
    BY <1>3
  <2>2. UNCHANGED <<live, project>> /\ left \subseteq left'
    BY <2>1 DEF Join, RemoveMember, tables
  <2>3. \A v \in Workspaces, x \in Users : WasMember(v, x) => WasMember(v, x)'
    BY <1>1, <2>1 DEF Join, RemoveMember, WasMember, IsMember
  <2>4. \A k \in Key : Query(k)' = Query(k)
    BY <2>2, QueryKept DEF ProjectIn
  <2> QED
    BY <1>1, <2>2, <2>3, <2>4, MembersPages DEF KnownProject
<1>4. CASE DeleteWorkspace(w)
  <2> DEFINE ps == {p \in Projects : project[p].ws = w}
  <2>1. /\ live' = live \ {w} /\ DropProjects(ps) /\ ps \in SUBSET Projects
        /\ left' = left \cup ({w} \X MembersOf(w))
        /\ role' = [p \in Workspaces \X Users |-> IF p[1] = w THEN "none" ELSE role[p]]
    BY <1>4 DEF DeleteWorkspace
  <2>2. \A v \in Workspaces, x \in Users : WasMember(v, x) => WasMember(v, x)'
    <3> SUFFICES ASSUME NEW v \in Workspaces, NEW x \in Users, WasMember(v, x)
                 PROVE  WasMember(v, x)'
      OBVIOUS
    <3>1. CASE v = w
      BY <2>1, <3>1 DEF WasMember, MembersOf
    <3>2. CASE v # w
      BY <2>1, <3>2 DEF WasMember, IsMember
    <3> QED
      BY <3>1, <3>2
  <2>3. \A p \in Projects : /\ project'[p].ws = project[p].ws
                            /\ KnownProject(p) => KnownProject(p)'
                            /\ p \notin ps => project'[p] = project[p]
    <3>1. \A p \in Projects : p \notin ps => project'[p] = project[p]
      BY <2>1 DEF DropProjects
    <3> HIDE DEF ps
    <3> QED
      BY <2>1, <3>1, DropProjectsEffect DEF IInv, KnownProject
  <2>4. ASSUME NEW k \in Key, k[2] \in live' PROVE Query(k)' = Query(k)
    <3>1. k[2] # w
      BY <2>1, <2>4
    <3>2. \A p \in Projects : /\ ProjectIn(p, k[2])' <=> ProjectIn(p, k[2])
                              /\ ProjectIn(p, k[2]) => project'[p].name = project[p].name
      BY <2>3, <3>1 DEF ProjectIn
    <3> QED
      BY <3>2, QueryKept
  <2> HIDE DEF ps
  <2> QED
    BY <1>1, <2>1, <2>2, <2>3, <2>4, MembersPages
<1> QED
  BY <1>2, <1>3, <1>4

-----------------------------------------------------------------------------
\* Every await of the request keeps its pages in order,
LEMMA StepPages ==
  ASSUME IInv, IInv', NEW r \in Requests, PagesInv(r), Step(r)
  PROVE  PagesInv(r)'
<1>1. CASE req[r].op \notin ProjectOps
  BY <1>1, OwnOtherStep
<1>2. CASE req[r].op \in ProjectOps
  <2>1. \/ ProjectCheck(r) \/ InsertProject(r) \/ UpdateProject(r) \/ DeleteProject(r)
        \/ CacheGet(r) \/ QueryProjects(r) \/ CacheSet(r)
        \/ PurgeDetail(r) \/ FindMemberIds(r) \/ PurgeLists(r)
    <3>1. Stages(req[r].op, req[r].pc)
      BY RequestFacts
    <3>2. req[r].pc # "assignee"
      BY <1>2, <3>1 DEF Stages, ProjectOps
    <3> QED
      BY <1>2, <3>2
      DEF Step, TaskCheck, GetTask, CommentCheck, HistoryCheck, AssertAssignee, InsertTask,
          UpdateTask, DeleteTask, InsertComment, UpdateComment, DeleteComment,
          At, Doing, ProjectOps, TaskOps, CommentOps, HistoryOps
  <2> QED
    BY <2>1, ProjectCheckPages, InsertProjectPages, UpdateProjectPages, CacheGetPages,
       QueryPages, CacheSetPages, PurgeDetailPages, FindMemberIdsPages, PurgeListsPages
<1> QED
  BY <1>1, <1>2

\* and so does every other step.
LEMMA NextPages ==
  ASSUME IInv, IInv', NEW r \in Requests, Alone(r), PagesInv(r), [Next]_vars
  PROVE  PagesInv(r)'
<1>1. ASSUME NEW s \in Requests, Send(s) \/ Step(s) PROVE PagesInv(r)'
  BY <1>1, SendPages, StepPages, OthersStepInv
<1>2. CASE Environment
  BY <1>2, EnvironmentPages
<1>3. CASE Done \/ UNCHANGED vars
  <2>1. UNCHANGED <<live, role, left, project, cache, req>>
    BY <1>3 DEF Done, vars, members, tables
  <2>2. \A k \in Key : Query(k)' = Query(k)
    BY <2>1, QueryKept DEF ProjectIn
  <2> QED
    BY <2>1, <2>2, MembersPages DEF KnownProject, WasMember, IsMember
<1> QED
  BY <1>1, <1>2, <1>3 DEF Next

\* With one request at a time on projects, the invariant of their pages holds.
THEOREM PagesInvariance ==
  ASSUME NEW r \in Requests, Alone(r)
  PROVE  Spec => []PagesInv(r)
<1>1. Init => PagesInv(r)
  BY DEF Init, Free, PagesInv, Others, Current, Filled, Reading, ProjectOps
<1>2. IInv /\ IInv' /\ PagesInv(r) /\ [Next]_vars => PagesInv(r)'
  BY NextPages
<1> QED
  BY WorkItemsInvariance, <1>1, <1>2, PTL DEF Spec

\* ProjectsService: after the purges of a create, update or remove, what Redis
\* holds is what the database says, however members and workspaces change and
\* tasks, comments and their readers run between the awaits.
THEOREM ProjectPagesAreCurrent ==
  ASSUME NEW r \in Requests, Alone(r)
  PROVE  Spec => []ProjectPagesCurrent
<1>1. PagesInv(r) => ProjectPagesCurrent
  BY DEF PagesInv, Current, Due, OfRemoved, Purged, ProjectPagesCurrent
<1> QED
  BY PagesInvariance, <1>1, PTL
=============================================================================
