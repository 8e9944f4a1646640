------------------------------- MODULE Access -------------------------------
(***************************************************************************)
(* The requests that decide who may enter a workspace: InvitesService and  *)
(* WorkspacesService, each handler cut at its awaits.  A request runs one  *)
(* handler; between two of its steps any other request may take steps, as  *)
(* on the event loop of one server or on several servers.  The tables are  *)
(* those of AccessDb; the variable cache is Redis.                         *)
(*                                                                         *)
(* A cache key stands for every page cached under its prefix (cache-keys): *)
(*   detail(w)  workspaceDetail      members(w)  workspaceMembersPrefix    *)
(*   list(u)    workspaceListPrefix  invites(u)  invitesMe                 *)
(***************************************************************************)
EXTENDS AccessDb, Sequences, Naturals

CONSTANTS
  Requests,     \* requests that may be in flight together
  Ops,          \* the handlers the clients call
  Faults        \* whether an await may throw and a Redis call may fail

AllOps == {"createWorkspace", "renameWorkspace", "removeWorkspace",
           "removeMember", "createInvite", "accept", "decline",
           "findOne", "listMembers", "listWorkspaces", "listInvites"}

ASSUME OpsAssumption == Ops \subseteq AllOps
ASSUME FaultsAssumption == Faults \in BOOLEAN

VARIABLES
  req,          \* what each request's handler is doing
  cache         \* what Redis holds under each key

vars == <<ws, role, invite, req, cache>>

-----------------------------------------------------------------------------
Key == ({"detail", "members"} \X Workspaces) \cup ({"list", "invites"} \X Users)

\* What the query behind a key returns now.
Query(k) ==
  CASE k[1] = "detail"  -> {<<k[2], ws[k[2]].name>>}
    [] k[1] = "members" -> {<<u, role[<<k[2], u>>]>> : u \in MembersOf(k[2])}
    [] k[1] = "list"    -> {<<w, ws[w].name>> : w \in
                              {x \in Workspaces : IsMember(x, k[2])}}
    [] k[1] = "invites" -> {<<i, invite[i].status, ws[invite[i].ws].name>> : i \in
                              {j \in Invites : InviteExists(j) /\ invite[j].user = k[2]}}

\* The rows a cached response may hold.
Rows == (Workspaces \X (Names \cup {Nil})) \cup (Users \X Roles)
          \cup (Invites \X Statuses \X (Names \cup {Nil}))

Replies == {"none", "Ok", "BadRequest", "NotAMember", "OwnerOnly", "NotFound",
            "NotYours", "AlreadyMember", "AlreadyInvited", "AlreadyActioned",
            "JoinedMeanwhile", "Error"}

PCs == {"replied", "getWorkspace", "assertOwner", "assertMember",
        "assertMemberOfCached", "findTarget", "deleteMembership",
        "findMemberIds", "delete", "update", "purgeDetail", "insertWorkspace",
        "findInvitee", "findPending", "insertInvite", "findInvite",
        "acceptTx", "declineUpdate", "reloadInvite", "purge", "cacheGet",
        "query", "cacheSet"}

\* No handler runs on the slot; reply is the answer to its last request.
Free(answer) ==
  [op |-> "none", pc |-> "replied", actor |-> Nil, ws |-> Nil, user |-> Nil,
   inv |-> Nil, purge |-> <<>>, seen |-> {}, reply |-> answer]

IsFree(r) == req[r].pc = "replied"

Goto(r, pc) == req' = [req EXCEPT ![r].pc = pc]
Answer(r, answer) == req' = [req EXCEPT ![r] = Free(answer)]

\* The write is committed: delete these sets of keys, one set after the other,
\* then answer.
PurgeThenOk(r, keySets) ==
  req' = [req EXCEPT ![r].pc = "purge", ![r].purge = keySets]

\* Guards shared by the steps: request r's handler stands before this await.
At(r, pc) == req[r].pc = pc
Doing(r, op) == req[r].op = op

-----------------------------------------------------------------------------
(* A client sends a request: the slot takes its parameters and stands      *)
(* before the handler's first await.                                       *)

Started(op, pc, actor, w, u, i) ==
  [op |-> op, pc |-> pc, actor |-> actor, ws |-> w, user |-> u, inv |-> i,
   purge |-> <<>>, seen |-> {}, reply |-> "none"]

Start(r, op, pc, actor, w, u, i) ==
  /\ op \in Ops
  /\ IsFree(r)
  /\ req' = [req EXCEPT ![r] = Started(op, pc, actor, w, u, i)]
  /\ UNCHANGED <<ws, role, invite, cache>>

\* The ids of rows to be inserted are UUIDs: no other request holds the same.
FreshWorkspace(w) ==
  /\ ws[w].life = "unused"
  /\ \A q \in Requests : req[q].ws # w \/ req[q].op # "createWorkspace"
FreshInvite(i) ==
  /\ invite[i].status = "unused"
  /\ \A q \in Requests : req[q].inv # i

StartCreateWorkspace(r, actor, w) ==
  FreshWorkspace(w) /\ Start(r, "createWorkspace", "insertWorkspace", actor, w, Nil, Nil)

\* Ids of workspaces and invites reach a client only from the server, so a
\* request names a row that exists or existed.
KnownWorkspace(w) == ws[w].life # "unused"
KnownInvite(i) == invite[i].status # "unused"

StartRenameWorkspace(r, actor, w) ==
  KnownWorkspace(w) /\ Start(r, "renameWorkspace", "getWorkspace", actor, w, Nil, Nil)
StartRemoveWorkspace(r, actor, w) ==
  KnownWorkspace(w) /\ Start(r, "removeWorkspace", "getWorkspace", actor, w, Nil, Nil)
StartRemoveMember(r, actor, w, u) ==
  KnownWorkspace(w) /\ Start(r, "removeMember", "getWorkspace", actor, w, u, Nil)
StartCreateInvite(r, actor, w, u, i) ==
  /\ KnownWorkspace(w) /\ FreshInvite(i)
  /\ Start(r, "createInvite", "getWorkspace", actor, w, u, i)
StartAccept(r, actor, i) ==
  KnownInvite(i) /\ Start(r, "accept", "findInvite", actor, invite[i].ws, actor, i)
StartDecline(r, actor, i) ==
  KnownInvite(i) /\ Start(r, "decline", "findInvite", actor, invite[i].ws, actor, i)
StartFindOne(r, actor, w) ==
  KnownWorkspace(w) /\ Start(r, "findOne", "cacheGet", actor, w, Nil, Nil)
StartListMembers(r, actor, w) ==
  KnownWorkspace(w) /\ Start(r, "listMembers", "getWorkspace", actor, w, Nil, Nil)
StartListWorkspaces(r, actor) ==
  Start(r, "listWorkspaces", "cacheGet", actor, Nil, Nil, Nil)
StartListInvites(r, actor) ==
  Start(r, "listInvites", "cacheGet", actor, Nil, Nil, Nil)

-----------------------------------------------------------------------------
(* Checks that several handlers share.                                     *)

\* Where a handler goes once its workspace is known to exist, and once its
\* actor is known to own it.
AfterGetWorkspace(op) ==
  IF op \in {"findOne", "listMembers"} THEN "assertMember" ELSE "assertOwner"
AfterAssertOwner(op) ==
  CASE op = "createInvite"    -> "findInvitee"
    [] op = "removeMember"    -> "findTarget"
    [] op = "removeWorkspace" -> "findMemberIds"
    [] OTHER                  -> "update"

\* getWorkspaceOrThrow.  findOne keeps the row it read: it is what it will
\* cache after the membership check.
GetWorkspace(r) ==
  /\ At(r, "getWorkspace")
  /\ LET w == req[r].ws IN
       IF ~WorkspaceExists(w)
         THEN Answer(r, "NotFound")
         ELSE req' = [req EXCEPT
                ![r].pc = AfterGetWorkspace(req[r].op),
                ![r].seen = IF Doing(r, "findOne")
                              THEN Query(<<"detail", w>>) ELSE {}]
  /\ UNCHANGED <<ws, role, invite, cache>>

\* Mutant: any member passes for the owner.
AssertOwnerByMembership(r) ==
  /\ At(r, "assertOwner")
  /\ IF IsMember(req[r].ws, req[r].actor)
       THEN Goto(r, AfterAssertOwner(req[r].op))
       ELSE Answer(r, "NotAMember")
  /\ UNCHANGED <<ws, role, invite, cache>>

\* assertOwner: the actor's membership row, read now.
AssertOwner(r) ==
  /\ At(r, "assertOwner")
  /\ LET w == req[r].ws  a == req[r].actor IN
       \/ ~IsMember(w, a) /\ Answer(r, "NotAMember")
       \/ IsMember(w, a) /\ ~IsOwner(w, a) /\ Answer(r, "OwnerOnly")
       \/ IsOwner(w, a) /\ Goto(r, AfterAssertOwner(req[r].op))
  /\ UNCHANGED <<ws, role, invite, cache>>

\* assertMember, before findOne caches the row it read and before
\* listMembers looks at the cache.
AssertMember(r) ==
  /\ At(r, "assertMember")
  /\ IF IsMember(req[r].ws, req[r].actor)
       THEN Goto(r, IF Doing(r, "findOne") THEN "cacheSet" ELSE "cacheGet")
       ELSE Answer(r, "NotAMember")
  /\ UNCHANGED <<ws, role, invite, cache>>

\* assertMember on findOne's cached branch: nothing is left but to answer.
AssertMemberOfCached(r) ==
  /\ At(r, "assertMemberOfCached")
  /\ Answer(r, IF IsMember(req[r].ws, req[r].actor) THEN "Ok" ELSE "NotAMember")
  /\ UNCHANGED <<ws, role, invite, cache>>

-----------------------------------------------------------------------------
(* WorkspacesService: create, update, remove, removeMember.                *)

InsertWorkspace(r) ==
  /\ At(r, "insertWorkspace")
  /\ \E name \in Names : CreateWithOwner(req[r].ws, req[r].actor, name)
  /\ PurgeThenOk(r, <<{<<"list", req[r].actor>>}>>)
  /\ UNCHANGED cache

\* The row may be gone since getWorkspaceOrThrow: Prisma's P2025, a 404.
Update(r) ==
  /\ At(r, "update")
  /\ LET w == req[r].ws IN
       \/ /\ WorkspaceExists(w)
          /\ \E name \in Names : Rename(w, name)
          /\ Goto(r, "purgeDetail")
       \/ /\ ~WorkspaceExists(w)
          /\ Answer(r, "NotFound")
          /\ UNCHANGED <<ws, role, invite>>
  /\ UNCHANGED cache

\* The ids whose list pages will be deleted: read before the row goes in
\* remove, after the row and its detail page changed in update.
FindMemberIds(r) ==
  /\ At(r, "findMemberIds")
  /\ LET w == req[r].ws
         lists == {"list"} \X MembersOf(w) IN
       IF Doing(r, "removeWorkspace")
         THEN req' = [req EXCEPT ![r].pc = "delete",
                ![r].purge = <<{<<"detail", w>>}, {<<"members", w>>}, lists>>]
         ELSE PurgeThenOk(r, <<lists>>)
  /\ UNCHANGED <<ws, role, invite, cache>>

\* Mutant: a row that is already gone is waited for instead of answered.
DeleteNoAnswer(r) ==
  /\ At(r, "delete") /\ WorkspaceExists(req[r].ws)
  /\ DeleteCascade(req[r].ws) /\ Goto(r, "purge")
  /\ UNCHANGED cache

\* Request a's accept holds its invite row and wants the workspace row (foreign
\* key of the membership), request d's delete holds the workspace row and wants
\* the invite row (cascade): PostgreSQL aborts either of the two.
Deadlocked(a, d) ==
  /\ At(a, "acceptTx") /\ At(d, "delete") /\ req[a].ws = req[d].ws
  /\ invite[req[a].inv].status = "PENDING"
  /\ ~IsMember(req[a].ws, req[a].actor)

\* Two owners' requests may both get here: the loser's delete is a P2025.
Delete(r) ==
  /\ At(r, "delete")
  /\ \/ /\ WorkspaceExists(req[r].ws)
        /\ DeleteCascade(req[r].ws)
        /\ Goto(r, "purge")
     \/ /\ ~WorkspaceExists(req[r].ws)
        /\ Answer(r, "NotFound")
        /\ UNCHANGED <<ws, role, invite>>
     \/ /\ \E a \in Requests : Deadlocked(a, r)
        /\ Answer(r, "Error")
        /\ UNCHANGED <<ws, role, invite>>
  /\ UNCHANGED cache

\* Mutant: the target is not compared with ownerId.
FindAnyTarget(r) ==
  /\ At(r, "findTarget")
  /\ IF IsMember(req[r].ws, req[r].user)
       THEN Goto(r, "deleteMembership")
       ELSE Answer(r, "NotFound")
  /\ UNCHANGED <<ws, role, invite, cache>>

\* The owner stays; anyone else must be a member now.
FindTarget(r) ==
  /\ At(r, "findTarget")
  /\ LET w == req[r].ws  u == req[r].user IN
       \/ u = ws[w].owner /\ Answer(r, "BadRequest")
       \/ u # ws[w].owner /\ ~IsMember(w, u) /\ Answer(r, "NotFound")
       \/ u # ws[w].owner /\ IsMember(w, u) /\ Goto(r, "deleteMembership")
  /\ UNCHANGED <<ws, role, invite, cache>>

\* Mutant: the removed member's list pages are forgotten.
RemoveMembershipKeepingList(r) ==
  /\ At(r, "deleteMembership")
  /\ LET w == req[r].ws  u == req[r].user IN
       IF IsMember(w, u)
         THEN /\ DeleteMembership(w, u)
              /\ PurgeThenOk(r, <<{<<"members", w>>}>>)
         ELSE Answer(r, "NotFound") /\ UNCHANGED <<ws, role, invite>>
  /\ UNCHANGED cache

\* deleteMembership; a row already gone is a P2025, a 404.
RemoveMembership(r) ==
  /\ At(r, "deleteMembership")
  /\ LET w == req[r].ws  u == req[r].user IN
       IF IsMember(w, u)
         THEN /\ DeleteMembership(w, u)
              /\ PurgeThenOk(r, <<{<<"members", w>>}, {<<"list", u>>}>>)
         ELSE Answer(r, "NotFound") /\ UNCHANGED <<ws, role, invite>>
  /\ UNCHANGED cache

-----------------------------------------------------------------------------
(* InvitesService: create, accept, decline.                                *)

\* findUserByEmail (the table of users does not change), then the invitee's
\* membership.  An unknown email is the invitee Nil.
FindInvitee(r) ==
  /\ At(r, "findInvitee")
  /\ LET w == req[r].ws  u == req[r].user IN
       \/ u = Nil /\ Answer(r, "NotFound")
       \/ u = req[r].actor /\ Answer(r, "BadRequest")
       \/ /\ u \in Users \ {req[r].actor}
          /\ IF IsMember(w, u) THEN Answer(r, "AlreadyMember")
                               ELSE Goto(r, "findPending")
  /\ UNCHANGED <<ws, role, invite, cache>>

FindPending(r) ==
  /\ At(r, "findPending")
  /\ IF PendingInvites(req[r].ws, req[r].user) # {}
       THEN Answer(r, "AlreadyInvited")
       ELSE Goto(r, "insertInvite")
  /\ UNCHANGED <<ws, role, invite, cache>>

\* A workspace deleted since the checks fails the foreign key, which nothing
\* translates: a 500.  The mail is best effort and leaves no state.
CreateInvite(r) ==
  /\ At(r, "insertInvite")
  /\ LET w == req[r].ws  u == req[r].user IN
       \/ /\ WorkspaceExists(w) /\ PendingIndexAllows(w, u)
          /\ InsertInvite(req[r].inv, w, u)
          /\ PurgeThenOk(r, <<{<<"invites", u>>}>>)
       \/ /\ WorkspaceExists(w) /\ ~PendingIndexAllows(w, u)
          /\ Answer(r, "AlreadyInvited")
          /\ UNCHANGED <<ws, role, invite>>
       \/ /\ ~WorkspaceExists(w)
          /\ Answer(r, "Error")
          /\ UNCHANGED <<ws, role, invite>>
  /\ UNCHANGED cache

\* Mutant: assertRecipient is missing.
FindAnyonesInvite(r) ==
  /\ At(r, "findInvite")
  /\ IF invite[req[r].inv].status = "PENDING"
       THEN Goto(r, IF Doing(r, "accept") THEN "acceptTx" ELSE "declineUpdate")
       ELSE Answer(r, "AlreadyActioned")
  /\ UNCHANGED <<ws, role, invite, cache>>

\* getInviteOrThrow, assertRecipient and assertPending on one read.
FindInvite(r) ==
  /\ At(r, "findInvite")
  /\ LET i == req[r].inv IN
       \/ ~InviteExists(i) /\ Answer(r, "NotFound")
       \/ /\ InviteExists(i) /\ invite[i].user # req[r].actor
          /\ Answer(r, "NotYours")
       \/ /\ InviteExists(i) /\ invite[i].user = req[r].actor
          /\ invite[i].status # "PENDING"
          /\ Answer(r, "AlreadyActioned")
       \/ /\ invite[i].status = "PENDING" /\ invite[i].user = req[r].actor
          /\ Goto(r, IF Doing(r, "accept") THEN "acceptTx" ELSE "declineUpdate")
  /\ UNCHANGED <<ws, role, invite, cache>>

\* Mutants: the list pages of the wrong id; the status update commits although
\* the membership exists; the update does not ask for status PENDING.
AcceptPurgingWrongList(r) ==
  /\ At(r, "acceptTx") /\ invite[req[r].inv].status = "PENDING"
  /\ AcceptAndJoin(req[r].inv, req[r].ws, req[r].actor)
  /\ PurgeThenOk(r, <<{<<"list", req[r].ws>>}>>)
  /\ UNCHANGED cache
AcceptWithoutRollback(r) ==
  /\ At(r, "acceptTx") /\ invite[req[r].inv].status = "PENDING"
  /\ invite' = [invite EXCEPT ![req[r].inv].status = "ACCEPTED"]
  /\ IF IsMember(req[r].ws, req[r].actor)
       THEN Answer(r, "JoinedMeanwhile") /\ UNCHANGED role
       ELSE /\ role' = [role EXCEPT ![<<req[r].ws, req[r].actor>>] = "MEMBER"]
            /\ PurgeThenOk(r, <<{<<"invites", req[r].actor>>}>>)
  /\ UNCHANGED <<ws, cache>>
AcceptUnconditionally(r) ==
  /\ At(r, "acceptTx")
  /\ IF IsMember(req[r].ws, req[r].actor) \/ ~WorkspaceExists(req[r].ws)
       THEN Answer(r, "AlreadyActioned") /\ UNCHANGED <<ws, role, invite>>
       ELSE /\ AcceptAndJoin(req[r].inv, req[r].ws, req[r].actor)
            /\ PurgeThenOk(r, <<{<<"invites", req[r].actor>>}>>)
  /\ UNCHANGED cache

\* InvitesRepository.accept.  A second membership fails @@unique and rolls the
\* status back with it: the same 409 as AlreadyMember, told apart here.
AcceptTx(r) ==
  /\ At(r, "acceptTx")
  /\ LET i == req[r].inv  w == req[r].ws  u == req[r].actor IN
       \/ /\ invite[i].status # "PENDING"
          /\ Answer(r, "AlreadyActioned")
          /\ UNCHANGED <<ws, role, invite>>
       \/ /\ invite[i].status = "PENDING" /\ IsMember(w, u)
          /\ Answer(r, "JoinedMeanwhile")
          /\ UNCHANGED <<ws, role, invite>>
       \/ /\ \E d \in Requests : Deadlocked(r, d)
          /\ Answer(r, "Error")
          /\ UNCHANGED <<ws, role, invite>>
       \/ /\ invite[i].status = "PENDING" /\ ~IsMember(w, u)
          /\ AcceptAndJoin(i, w, u)
          /\ PurgeThenOk(r, <<{<<"invites", u>>, <<"list", u>>, <<"members", w>>}>>)
  /\ UNCHANGED cache

\* Mutant: the update does not ask for status PENDING.
DeclineUnconditionally(r) ==
  /\ At(r, "declineUpdate")
  /\ MarkDeclined(req[r].inv) /\ Goto(r, "reloadInvite")
  /\ UNCHANGED cache

\* InvitesRepository.decline: the row is updated only while it is PENDING.
DeclineUpdate(r) ==
  /\ At(r, "declineUpdate")
  /\ IF invite[req[r].inv].status = "PENDING"
       THEN MarkDeclined(req[r].inv) /\ Goto(r, "reloadInvite")
       ELSE Answer(r, "AlreadyActioned") /\ UNCHANGED <<ws, role, invite>>
  /\ UNCHANGED cache

\* Mutant: invitesMe is not deleted.
ReloadInviteAndAnswer(r) ==
  /\ At(r, "reloadInvite")
  /\ Answer(r, IF InviteExists(req[r].inv) THEN "Ok" ELSE "NotFound")
  /\ UNCHANGED <<ws, role, invite, cache>>

\* decline reads the row back outside any transaction: a cascade may have
\* deleted it (P2025, a 404).
ReloadInvite(r) ==
  /\ At(r, "reloadInvite")
  /\ IF InviteExists(req[r].inv)
       THEN PurgeThenOk(r, <<{<<"invites", req[r].actor>>}>>)
       ELSE Answer(r, "NotFound")
  /\ UNCHANGED <<ws, role, invite, cache>>

-----------------------------------------------------------------------------
(* RedisService: a call that fails is logged and swallowed.                *)

\* One DEL; the keys of one Promise.all go in any order.
Drop(k) == \/ cache' = [cache EXCEPT ![k] = Nil]
           \/ Faults /\ UNCHANGED cache

DelKey(r) ==
  /\ At(r, "purge") /\ req[r].purge # <<>>
  /\ \E k \in Head(req[r].purge) :
       /\ Drop(k)
       /\ req' = [req EXCEPT ![r].purge = <<Head(@) \ {k}>> \o Tail(@)]
  /\ UNCHANGED <<ws, role, invite>>

\* Mutant: the answer does not wait for the later groups.
PurgeFirstOnly(r) ==
  /\ At(r, "purge") /\ req[r].purge # <<>> /\ Head(req[r].purge) = {}
  /\ Answer(r, "Ok")
  /\ UNCHANGED <<ws, role, invite, cache>>

\* The group of deletions is awaited: on to the next group, or answer.
PurgeAwaited(r) ==
  /\ At(r, "purge") /\ req[r].purge # <<>> /\ Head(req[r].purge) = {}
  /\ IF Len(req[r].purge) = 1
       THEN Answer(r, "Ok")
       ELSE req' = [req EXCEPT ![r].purge = Tail(@)]
  /\ UNCHANGED <<ws, role, invite, cache>>

\* update deletes the detail page before it reads the member ids.
PurgeDetail(r) ==
  /\ At(r, "purgeDetail")
  /\ Drop(<<"detail", req[r].ws>>)
  /\ Goto(r, "findMemberIds")
  /\ UNCHANGED <<ws, role, invite>>

KeyOf(r) ==
  CASE Doing(r, "findOne")        -> <<"detail", req[r].ws>>
    [] Doing(r, "listMembers")    -> <<"members", req[r].ws>>
    [] Doing(r, "listWorkspaces") -> <<"list", req[r].actor>>
    [] OTHER                      -> <<"invites", req[r].actor>>

\* A hit answers, after the live membership check in findOne; a miss - or a
\* Redis error, which reads as one - goes to the database.
CacheGet(r) ==
  /\ At(r, "cacheGet")
  /\ \/ /\ cache[KeyOf(r)] # Nil
        /\ IF Doing(r, "findOne") THEN Goto(r, "assertMemberOfCached")
                                   ELSE Answer(r, "Ok")
     \/ /\ cache[KeyOf(r)] = Nil \/ Faults
        /\ Goto(r, IF Doing(r, "findOne") THEN "getWorkspace" ELSE "query")
  /\ UNCHANGED <<ws, role, invite, cache>>

RunQuery(r) ==
  /\ At(r, "query")
  /\ req' = [req EXCEPT ![r].pc = "cacheSet", ![r].seen = Query(KeyOf(r))]
  /\ UNCHANGED <<ws, role, invite, cache>>

\* SET with a TTL.
CacheSet(r) ==
  /\ At(r, "cacheSet")
  /\ \/ cache' = [cache EXCEPT ![KeyOf(r)] = req[r].seen]
     \/ Faults /\ UNCHANGED cache
  /\ Answer(r, "Ok")
  /\ UNCHANGED <<ws, role, invite>>

\* The TTL of an entry runs out.
Expire(k) ==
  /\ cache[k] # Nil
  /\ cache' = [cache EXCEPT ![k] = Nil]
  /\ UNCHANGED <<ws, role, invite, req>>

\* An awaited statement throws (the exceptions filter answers 500), or the
\* server dies under the request: what was committed stays, the rest is not run.
Fail(r) ==
  /\ Faults /\ ~IsFree(r)
  /\ Answer(r, "Error")
  /\ UNCHANGED <<ws, role, invite, cache>>

-----------------------------------------------------------------------------
Init ==
  /\ DbInit
  /\ req = [r \in Requests |-> Free("none")]
  /\ cache = [k \in Key |-> Nil]

Send(r) ==
  \E actor \in Users :
    \/ StartListWorkspaces(r, actor)
    \/ StartListInvites(r, actor)
    \/ \E w \in Workspaces :
         \/ StartCreateWorkspace(r, actor, w)
         \/ StartRenameWorkspace(r, actor, w)
         \/ StartRemoveWorkspace(r, actor, w)
         \/ StartFindOne(r, actor, w)
         \/ StartListMembers(r, actor, w)
         \/ \E u \in Users : StartRemoveMember(r, actor, w, u)
         \/ \E u \in Users \cup {Nil}, i \in Invites :
              StartCreateInvite(r, actor, w, u, i)
    \/ \E i \in Invites : StartAccept(r, actor, i) \/ StartDecline(r, actor, i)

\* One step of the handler that serves r.
Handle(r) ==
  \/ GetWorkspace(r) \/ AssertOwner(r)
  \/ AssertMember(r) \/ AssertMemberOfCached(r)
  \/ InsertWorkspace(r) \/ Update(r) \/ FindMemberIds(r) \/ Delete(r)
  \/ FindTarget(r) \/ RemoveMembership(r)
  \/ FindInvitee(r) \/ FindPending(r) \/ CreateInvite(r)
  \/ FindInvite(r) \/ AcceptTx(r) \/ DeclineUpdate(r) \/ ReloadInvite(r)
  \/ DelKey(r) \/ PurgeAwaited(r) \/ PurgeDetail(r)
  \/ CacheGet(r) \/ RunQuery(r) \/ CacheSet(r)

Next ==
  \/ \E r \in Requests : Send(r) \/ Handle(r) \/ Fail(r)
  \/ \E k \in Key : Expire(k)

\* The event loop resumes a handler whose await is answered.  Nobody owes the
\* server a request or a failure.
Spec ==
  /\ Init /\ [][Next]_vars
  /\ \A r \in Requests : WF_vars(Handle(r))

-----------------------------------------------------------------------------
(* Types.                                                                  *)

RequestRecord ==
  [op    : AllOps \cup {"none"},
   pc    : PCs,
   actor : Users \cup {Nil},
   ws    : Workspaces \cup {Nil},
   user  : Users \cup {Nil},
   inv   : Invites \cup {Nil},
   purge : Seq(SUBSET Key),
   seen  : SUBSET Rows,
   reply : Replies]

(* Every variable has its type: the rows of the three tables, the request  *)
(* slots with the keys they still have to delete, the cached responses.    *)
TypeOK ==
  /\ DbTypeOK
  /\ req \in [Requests -> RequestRecord]
  /\ cache \in [Key -> (SUBSET Rows) \cup {Nil}]

-----------------------------------------------------------------------------
(* Safety of the tables.                                                   *)

(* However create() calls overlap, a user has at most one invite of a      *)
(* workspace to answer (the migration's partial unique index).             *)
OnePendingInvite ==
  \A i, j \in Invites :
    /\ invite[i].status = "PENDING" /\ invite[j].status = "PENDING"
    /\ invite[i].ws = invite[j].ws /\ invite[i].user = invite[j].user
    => i = j

(* A live workspace has exactly one OWNER, the user of ownerId: no         *)
(* interleaving of accept, removeMember and create takes that membership   *)
(* away or turns it into another role.                                     *)
OneOwner ==
  \A w \in Workspaces, u \in Users :
    role[<<w, u>>] = "OWNER" <=> WorkspaceExists(w) /\ u = ws[w].owner

(* No row outlives its workspace: an invite or a membership written by a   *)
(* request that checked the workspace before it was deleted is refused.    *)
NoOrphans ==
  /\ \A i \in Invites : InviteExists(i) => WorkspaceExists(invite[i].ws)
  /\ \A w \in Workspaces, u \in Users : IsMember(w, u) => WorkspaceExists(w)

(* Whoever is in a workspace as a MEMBER was invited to it and accepted.   *)
MembersWereInvited ==
  \A w \in Workspaces, u \in Users :
    role[<<w, u>>] = "MEMBER" =>
      \E i \in Invites : invite[i] = [ws |-> w, user |-> u, status |-> "ACCEPTED"]

(* The checks at the start of a handler still hold when it writes: between *)
(* assertOwner and the write other requests ran, but as long as the        *)
(* workspace exists the actor owns it, and the member about to go is not   *)
(* its owner.                                                              *)
OwnerWrites == {"update", "purgeDetail", "findMemberIds", "delete", "findTarget",
                "deleteMembership", "findInvitee", "findPending", "insertInvite"}
OwnerChecked(q) ==
  /\ q.pc \in OwnerWrites /\ WorkspaceExists(q.ws) => IsOwner(q.ws, q.actor)
  /\ q.pc = "deleteMembership" => q.user # ws[q.ws].owner
WritesStayAuthorized == \A r \in Requests : OwnerChecked(req[r])

(* What the above rest on: the parameters a handler carries, by the await  *)
(* it stands before.  Rows keep their workspaceId and invitedUserId, a     *)
(* workspace its ownerId, so what was read of them stays true.             *)
ListOps == {"listWorkspaces", "listInvites"}
BeforeInsert == {"getWorkspace", "assertOwner", "findInvitee", "findPending",
                 "insertInvite"}
Inserting(q) == q.op = "createInvite" /\ q.pc \in BeforeInsert
HandlerOK(q) ==
  /\ q.pc # "replied" => q.actor \in Users /\ q.op \in AllOps
  /\ q.op \in ListOps => q.pc \in {"cacheGet", "query", "cacheSet"}
  /\ q.pc # "replied" /\ q.op \notin ListOps => q.ws \in Workspaces
  /\ q.pc # "replied" /\ q.op \notin ListOps \cup {"createWorkspace"}
       => KnownWorkspace(q.ws)
  /\ q.op = "createWorkspace" => q.pc \in {"insertWorkspace", "purge"}
  /\ q.pc = "insertWorkspace" => q.op = "createWorkspace" /\ ws[q.ws].life = "unused"
  /\ q.op = "removeMember" => q.user \in Users
  /\ q.pc \in {"findTarget", "deleteMembership"} => q.op = "removeMember"
  /\ q.pc \in {"findInvitee", "findPending", "insertInvite"} => q.op = "createInvite"
  /\ q.pc \in {"findPending", "insertInvite"} => q.user \in Users \ {q.actor}
  /\ Inserting(q) => q.inv \in Invites /\ invite[q.inv].status = "unused"
  /\ q.op \in {"accept", "decline"} =>
       q.inv \in Invites /\ KnownInvite(q.inv) /\ q.ws = invite[q.inv].ws
  /\ q.pc \in {"findInvite", "acceptTx", "declineUpdate", "reloadInvite"}
       => q.op \in {"accept", "decline"}
  /\ q.pc = "acceptTx" => invite[q.inv].user = q.actor

\* A new row has an id of its own, and a row keeps what it refers to.
FreshIds ==
  \A r, q \in Requests : r # q =>
    /\ At(r, "insertWorkspace") /\ At(q, "insertWorkspace") => req[r].ws # req[q].ws
    /\ Inserting(req[r]) /\ Inserting(req[q]) => req[r].inv # req[q].inv
RowsOK ==
  /\ \A w \in Workspaces : WorkspaceExists(w) => ws[w].owner \in Users
  /\ \A i \in Invites : KnownInvite(i) =>
       /\ invite[i].ws \in Workspaces /\ KnownWorkspace(invite[i].ws)
       /\ invite[i].user \in Users
  /\ \A i \in Invites : ~KnownInvite(i) => invite[i].ws = Nil

IInv ==
  /\ TypeOK /\ OnePendingInvite /\ OneOwner /\ NoOrphans
  /\ MembersWereInvited /\ WritesStayAuthorized
  /\ \A r \in Requests : HandlerOK(req[r])
  /\ FreshIds /\ RowsOK

\* Invite i is accepted in this step.
AcceptedNow(i) == invite[i].status = "PENDING" /\ invite'[i].status = "ACCEPTED"

\* An invite becomes ACCEPTED in the step that lets its invitee in, and nobody
\* who was outside becomes a MEMBER in any other way.
EntryByAccepting ==
  /\ \A i \in Invites : AcceptedNow(i) =>
       /\ role[<<invite[i].ws, invite[i].user>>] = "none"
       /\ role'[<<invite[i].ws, invite[i].user>>] = "MEMBER"
  /\ \A w \in Workspaces, u \in Users :
       role[<<w, u>>] # "MEMBER" /\ role'[<<w, u>>] = "MEMBER" =>
         \E i \in Invites :
           AcceptedNow(i) /\ invite[i].ws = w /\ invite[i].user = u

(* The status of an invite and the membership change together or not at    *)
(* all, however accepts, declines and removals overlap.                    *)
AcceptIsEntry == [][EntryByAccepting]_vars

\* An answered invite stays as it is; only the cascade removes it.
AnswersKept ==
  \A i \in Invites : invite[i].status \in {"ACCEPTED", "DECLINED"} =>
    invite'[i] \in {invite[i], [invite[i] EXCEPT !.status = "deleted"]}

(* An answer is final: no later accept, decline or retry overwrites it     *)
(* (the conditional updateMany of accept and decline).                     *)
AnswerIsFinal == [][AnswersKept]_vars

\* What Membership sees of the tables.
Life == [w \in Workspaces |-> ws[w].life]
Offers == {<<invite[i].ws, invite[i].user>> : i \in
             {j \in Invites : invite[j].status = "PENDING"}}

(* The handlers implement the promise of Membership.                       *)
Promise == INSTANCE Membership WITH life <- Life, offers <- Offers
ImplementsMembership == Promise!Spec

(* Every request is answered, whatever the others did to its rows.         *)
EveryRequestAnswered == \A r \in Requests : ~IsFree(r) ~> IsFree(r)

-----------------------------------------------------------------------------
(* Redis against the tables.                                               *)

Quiet == \A r \in Requests : IsFree(r)
Fresh(k) ==
  /\ cache[k] = Query(k)
  /\ k[1] \in {"detail", "members"} => WorkspaceExists(k[2])
Stale(k) == cache[k] # Nil /\ ~Fresh(k)

(* Requests that run one after the other never leave an outdated page of   *)
(* workspaces or members behind: each write deletes every key it touches,  *)
(* also those cached by other handlers for other users.                    *)
PagesCurrent == Quiet => \A k \in Key : k[1] # "invites" => ~Stale(k)

(* The invites pages miss two writes (remove and update of a workspace     *)
(* leave them alone), but an invite that still exists is on its invitee's  *)
(* page with the status it has.                                            *)
InvitePagesCurrent ==
  Quiet => \A u \in Users :
    LET k == <<"invites", u>>
        shown == {<<row[1], row[2]>> : row \in cache[k]}
        true == {<<row[1], row[2]>> : row \in Query(k)}
    IN  cache[k] # Nil => /\ true \subseteq shown
                          /\ \A s \in shown \ true : ~InviteExists(s[1])

\* A page that is not right any more; an invites page misses two writes, so
\* all that counts is that it has every invite that exists, with its status.
Outdated(k) ==
  IF k[1] = "invites"
    THEN cache[k] # Nil /\ \E row \in Query(k) : \A shown \in cache[k] :
           <<shown[1], shown[2]>> # <<row[1], row[2]>>
    ELSE Stale(k)

\* The pages request r has outdated and will delete if nothing goes wrong: an
\* update goes for the lists of those who are members by then.
Owes(r) ==
  LET lists == {"list"} \X MembersOf(req[r].ws) IN
  CASE At(r, "purge") -> UNION {req[r].purge[i] : i \in DOMAIN req[r].purge}
    [] At(r, "purgeDetail") -> {<<"detail", req[r].ws>>} \cup lists
    [] At(r, "findMemberIds") /\ Doing(r, "renameWorkspace") -> lists
    [] At(r, "reloadInvite") -> {<<"invites", req[r].actor>>}
    [] OTHER -> {}
Forgotten(k) == Outdated(k) /\ \A r \in Requests : k \notin Owes(r)

\* The pages a step of request r may leave outdated for good: those it owes
\* when it fails or its server dies; the one whose DEL is lost; the one it
\* stores from a read that a write has overtaken; and, when a workspace goes,
\* the lists of those who joined after remove() had read the member ids.
LeftBy(r) ==
  IF req'[r] = Free("Error") THEN Owes(r)
  ELSE CASE At(r, "purge") -> Head(req[r].purge)
         [] At(r, "purgeDetail") -> {<<"detail", req[r].ws>>}
         [] At(r, "cacheSet") -> {KeyOf(r)}
         [] At(r, "delete") -> {"list"} \X MembersOf(req[r].ws)
         [] OTHER -> {}

(* However requests overlap, throw and lose calls to Redis, an outdated    *)
(* page is one that a request under way is about to delete, or was left by *)
(* a step that had such a reason: nothing else goes wrong with a page.     *)
OutdatedForAReason ==
  [][\A k \in Key : ~Forgotten(k) /\ Forgotten(k)' =>
       \E r \in Requests : req'[r] # req[r] /\ k \in LeftBy(r)]_vars

-----------------------------------------------------------------------------
(* What comments of the source say and the handlers do not do.             *)

(* invites.service.ts:163-166: accept() finds a membership in its way only *)
(* if two PENDING invites existed, which OnePendingInvite excludes.        *)
AcceptNeverMeetsMember ==
  \A r \in Requests : req[r].reply # "JoinedMeanwhile"

(* all-exceptions.filter.ts:13-19: a race that slips through a check never *)
(* becomes a bare 500.                                                     *)
NoRaceIsA500 == \A r \in Requests : req[r].reply # "Error"

(* workspaces.service.ts:199-200: the removed member's own workspace list  *)
(* must stop showing the workspace.                                        *)
ListsShowOwnWorkspaces ==
  Quiet => \A u \in Users : cache[<<"list", u>>] # Nil =>
    \A row \in cache[<<"list", u>>] : IsMember(row[1], u)

=============================================================================
