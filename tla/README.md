# A verification project for the task tracker

TLA+ models of the tracker in `src/` (a NestJS server on PostgreSQL and Redis,
a React client), TLC runs that check them on small instances, and TLAPS proofs
that hold for every instance. Paths below are relative to `src/`.

Contents: 1 the system · 2 what is modelled · 3 the runs · 4 findings ·
5 the proofs · 6 what is not modelled · 7 plan.

## 1. The system

Users register, found workspaces and invite other users into them. A workspace
holds projects, a project tasks, a task comments and a history of its status
changes. Clients call REST handlers and listen on a websocket for the task
events of the project they have open. The server is stateless between requests:
all it keeps is PostgreSQL (through Prisma repositories), cached responses in
Redis, and the rooms of the connected sockets. Each handler is an `async`
function: between two of its awaits any other request may run, on the same
server or on another.

| Component | State | Operations | Talks to | Hard behaviour | Correct when |
|---|---|---|---|---|---|
| Access tables (`backend/prisma/schema.prisma`) | Workspace, WorkspaceMember, WorkspaceInvite rows | one statement or transaction each | – | unique and partial unique index, foreign keys, cascades | one owner per live workspace, one pending invite per user, no orphans |
| Workspaces (`modules/workspaces`) | none of its own | create, findAllForUser, findOne, update, remove, listMembers, removeMember | tables, Redis | check and write are awaits apart; invalidation for all members | only the owner writes; pages follow the tables |
| Invites (`modules/invites`) | none of its own | create, findAllForUser, accept, decline | tables, Redis, mail | duplicate creates; accept against decline; accept against delete | entry only by accepting; an answer is final |
| Redis cache (`redis/`) | responses by key, with a TTL | get, set, del, delByPrefix | every service | refill against invalidation; failed or skipped DEL | outdated pages are deleted, or end with their TTL |
| Exceptions filter (`common/filters`) | – | maps an error to a status | every handler | races that surface as database errors | a race is never a bare 500 |
| Auth (`modules/auth`) | refresh tokens, cached user | register, login, refresh, logout, verifyAccessToken | tables, Redis | two refreshes of one token; logout against refresh | a used or revoked token opens nothing |
| Projects (`modules/projects`) | project rows, cached pages | create, list, findOne, update, remove | tables, Redis | as Workspaces, key per member | as Workspaces |
| Tasks, Comments, History | task, comment, history rows | create, list, findOne, update, remove | tables, realtime | history written from a stale read; assignee check against removal; keyset pages | history chains; pages neither skip nor repeat |
| Realtime (`modules/realtime`) | rooms, `client.data` | handshake, join, leave, emit | auth, tables | join against leave, against the handshake, against removal | events reach the members who joined |
| API client (`frontend/src/shared/api/axios`) | tokens in local storage, `refreshPromise` | request, refresh, logout | auth | single flight, several tabs, logout in flight | a session ends only when it is over, and then it ends |
| Board cache (`shared/api/services/useTasks.ts`) | query cache | optimistic move, rollback, refetch, events | tasks, realtime | overlapping mutations and refetches | the board ends as the server has it |
| Realtime hook (`useProjectRealtime.ts`) | attempt id, timeout, error | join, retry, reconnect, leave | realtime | late acknowledgement, reconnect | the shown state is that of the last attempt |

`PROJECT.json` lists every component, also those without logic of their own,
and under "hazards" what is hard to test, each at its line.

## 2. What is modelled

Six parts of the system, each in a module of its own, with its properties and
the mutants of its definitions (operators marked `Mutant:` next to the one they
stand in for; `PROJECT.json` pairs them).

| Module | Models |
|---|---|
| `AccessDb` | the three tables; one operator per repository statement or transaction |
| `Access` | the handlers, one action per await, and Redis; the properties |
| `Membership` | the contract: what the endpoints promise about membership, without requests, caches or invite rows |
| `WorkItems` | the handlers of Projects, Tasks, Comments and History over their tables and the project pages in Redis |
| `Sessions` | refresh tokens on the server; interceptors, `useAuth` and `useLogin` in every tab of a browser |
| `Realtime` | the gateway, one socket, and `useProjectRealtime` |
| `Board` | the cached task lists of one board between its own changes, those of peers, and the server |
| `Paging` | the three infinite lists and the two pagers, with the queries behind them |
| `MCAccess`, `MCWorkItems`, `MCSessions`, `MCRealtime`, `MCBoard`, `MCPaging` | constants for TLC |
| `AccessProofs`, `MembershipProofs`, `WorkItemsProofs`, `ProjectPagesProofs`, `SessionsProofs`, `RealtimeProofs`, `BoardProofs`, `PagingProofs` | inductive invariants and theorems |

`Access` EXTENDS `AccessDb` and instantiates `Membership` as the specification
it implements. The other modules meet at their edges: `WorkItems` takes from
`Access` that members join, leave and workspaces go in single steps (which is
what its tables show of them); `Sessions` is the server and its clients in one;
`Realtime` says when a tab is in its room, `Board` what a tab in or out of the
room shows; `Paging` has the rows behind a page boundary, which `Board` has not.

### Workspaces and invites (`Access`)

**Tables.** `ws[w]` is a Workspace row with the part of its life it is in,
`role[<<w, u>>]` a WorkspaceMember row ("none": no row), `invite[i]` a
WorkspaceInvite row. Row ids are UUIDs, so a deleted row keeps its id, and a
client only knows ids of rows that exist or existed. Constraints and cascades
are part of the statement they belong to: `PendingIndexAllows` is the partial
unique index, `DeleteCascade` deletes members and invites.

**Requests.** A member of `Requests` is a slot for one request in flight.
`Send` puts a request with its parameters into a free slot (the `Start...`
actions, one per controller method). `req[r].pc` is the await the handler
stands before, and each action of `Handle` runs the handler from there to its
next await: `GetWorkspace`, `AssertOwner`, `FindPending`, `CreateInvite`,
`AcceptTx`, ... `req[r].purge` holds the sets of keys still to be deleted; the
members of a `Promise.all` are one set and go in any order. `reply` is the
status of the answer. Checks that read the same row and have no await between
them are one action (`FindInvite`).

**Cache.** `cache[k]` is the response Redis holds under a key, or `Nil`. A key
stands for all pages under its prefix, and a cached response is the set of rows
it lists: paging and sorting are data. `CacheGet`, `RunQuery` and `CacheSet`
are three actions, so a write and its deletions fit between them. `delByPrefix`
is one step: a page filled during the scan is one filled after it. `Expire` is
the TTL.

**Failures.** With `Faults`, `Fail` ends a handler at any await (a statement
throws and the filter answers 500, or the process dies: what was committed
stays, the rest is not run), and each Redis call may be lost, which the code
swallows. `Deadlocked` is the one failure that needs no fault: the transaction
of `accept` and the cascade of a workspace delete lock the same two rows in
opposite orders, and PostgreSQL aborts either.

**Abstracted.** Names other than a workspace's, descriptions, timestamps,
validation of DTOs, authentication of the caller (the actor is given), the
mail. The accept that loses to an existing membership answers
"JoinedMeanwhile" so that it can be told from create's "AlreadyMember"; both
are a 409.

### Projects, tasks, comments, history (`WorkItems`)

A request walks from await to await. The services check the same things in
different orders, so the order is data (`ProjectFlow`, `TaskFlow`,
`CommentFlow`, `HistoryFlow`) and a check is one step that reads one row and
goes on or answers. `old` is the status `update` read of its task before the
transaction, `target` the assignee that passed `assertAssignee`. The writes
(`InsertTask`, `UpdateTask`, `DeleteProject`, ...) have the cascades of the
schema in them; an insert whose parent row is gone answers an error. Paths name
a project of their own workspace or of another one: rows are found only under
the parent of the URL. Reads of projects go through Redis; a write of a project
deletes the detail page, reads the member ids, and deletes their list pages.
A page of a workspace that is gone shows nothing, as its projects went with it.
`left` is a ghost: who was a member once; so is a task's `opened`, the status it
was created with, where its trail begins. A refill of a member's own page may
still be on its way when the member is removed, so `ProjectPagesCurrent` leaves
the pages of former members out.

### Sessions (`Sessions`)

A number is a pair of tokens issued together. An access token may have expired
whenever it reaches the server; refresh tokens do not expire. `store` is
`localStorage`, which all tabs share; a tab has its `auth.me` query (`me`), its
calls, `refreshPromise` (`promise`), and the mutations of `useLogin` and the
logout. A refresh is a flight: the row is found, then rotated by a statement
that does not look at it again, then answered. Every call that awaits the
promise goes on in the step that settles it, as in one turn of the event loop.
Connections break at any point, statements and calls fail, a tab is reloaded and
keeps only what is stored. What the server has received it finishes, whether or
not somebody waits: a logout whose tab was reloaded or lost its connection is
`adrift` and may still revoke its token (`LateLogout`), as a flight nobody awaits
may still rotate. Ghosts: `spentBy`, who spent a token first, and `lost`, the
tokens spent by a request, refresh or logout, whose answer no tab hears.

### Realtime (`Realtime`)

One socket, and one board at a time. `up` is the order Socket.IO keeps,
`joins` the `handleJoin` calls between their awaits (authPromise, workspace,
project, membership), which later messages overtake; `leave` acts at once. A
board is a path, a workspace and a project, and its project may belong to another
workspace than the one the path names. `held` is the token the handshake
captured; the server verifies it later, and hangs up over a bad one and over a
good one whose user it cannot read (`AuthenticateFails`: `verifyAccessToken`
takes any failure for a bad token). `attempt`, `timer` and `error` are the hook's.
A drop loses both directions and the rooms; the client reconnects by itself
unless a side hung up. Tokens expire, members come and go, projects and
workspaces are deleted.

### Board (`Board`)

`at`/`ver` are the server's tasks; a column's list is a set of cards with the
version they show. TanStack Query is modelled by what the code relies on: an
invalidation restarts a list that has data and lets a first load run on, cancel
drops a running fetch, `setQueryData` overwrites. An own update cancels, takes
a snapshot, patches; on success it writes the detail and invalidates, on error
it restores the snapshot. `Update` is one step up to the patch: nothing awaits a
server between `cancelQueries` and the snapshot, the cancels settle within the
turn of the event loop the click began. A peer's change is committed, then broadcast in any
order and heard or missed. With `Filtered`, the edit form's hook (which has no
filters in its key) does not patch the board. Ghosts: `gap` and `behind`, the
lists and details that missed a change for one of the reasons listed under
"Properties".

### Lists (`Paging`)

A walk is an infinite query: pages by cursor `(createdAt, id)`, one row more
than the page read to know whether there is a next, a refetch that reads as
many pages as are loaded one after another. A pager is `skip`/`take` with a
count, a debounced search, `keepPreviousData` and `lastKnownTotalPages`. While a
page has no answer the screen gets the previous one (`Return`): what was handed
out already (`bridge`), or else what the last query that had an answer
(`lastKey`) holds by now, a refetch in the background included. `kind`
chooses which list the tab shows. Ghosts: `steady`, the rows that were there
all the time since the first page was read; `missing`, rows lost for a reason
on record; `chosen`, the searches and pages the user chose together.

## 3. The runs

Deadlock is checked everywhere: a slot can always send or go on, and where the
bound ends the actors the module says so with a step of its own (`Done`,
`Rest`) that demands that nothing is under way.

| Run | Instance | Shows |
|---|---|---|
| `access_races` | 2 users, 1 workspace, 2 invites, 2 requests, the six writing handlers, no faults; ~150,000 states | the tables' invariants, `AcceptIsEntry`, `AnswerIsFinal`, `ImplementsMembership`, `EveryRequestAnswered` under every interleaving of two writers |
| `access_pages` | 3 users, 1 workspace, 2 invites, 2 names, 1 request, all eleven handlers; ~950,000 states up to symmetry | `PagesCurrent`, `InvitePagesCurrent`: sequences of calls leave no outdated page. `MembersWereInvited`: a third user, neither owner nor invitee, does not get in with somebody else's invite |
| `access_faults` | 2 users, 1 workspace, 1 invite, 2 names, 2 requests, eight handlers, with faults; ~1,070,000 states up to symmetry | `OutdatedForAReason`: a page outdated for good was left so by a crash, a lost DEL, an overtaken read or an overtaken list of members, and by nothing else |
| `access_accept_member`, `access_bare_500`, `access_stale_list` | as `access_races`, the last with `listWorkspaces` | findings 1 to 3 below (expected violations) |
| `work_items` | 2 users, 2 workspaces, 3 projects, 2 tasks, 2 comments, 3 statuses, 2 requests in flight, 1 change of membership or workspace; ~147,000 states | no orphan, no trace of an outsider, no write without its right, trails that name every status, project pages current, every request answered |
| `work_items_audit` | as `work_items` | finding 4 (expected violation) |
| `sessions` | 2 tabs, 3 calls (two of one tab), 4 events; ~163,000 states | one refresh at a time per tab; the stored token works; who is signed out, and why; every call settles |
| `realtime` | 2 workspaces with a project each, 3 paths of which one mixes them, 4 events; ~224,000 states | silence means that the board is in its room; only members hear; the server hangs up only over a handshake; a board joins or says that it could not |
| `board` | 2 tasks (one to be created), 2 columns, 2 own updates, 3 events; ~1,600,000 states | when all is answered, board and details are what the server holds; every column loads |
| `paging` | 6 rows in 3 instants, pages of 2, up to 3 pages, 5 events; ~890,000 states | pages that neither skip nor repeat a row; own rows reachable; no request nobody chose; no pager lost to an error |

### Bounds

**Access.** The handlers touch one workspace each and no constraint spans two,
so one workspace shows every conflict; the proofs cover the others. Two users
are an owner and an invitee; two invites of one pair are what the partial
index, the re-invitation after an answer and `access_accept_member` need; two
requests are what a race needs. In `access_pages` a third user is neither owner
nor invitee, and one slot means one request after the other: with two, a read
beside a write leaves pages outdated (the third finding). Writers alone leave
none behind however they overlap, which section 5 proves. `access_faults` fills
the lists of workspaces and of invites, which several handlers have to delete;
`removeMember` and the pages of one workspace are left to `access_pages`. Runs
with symmetry check no liveness. Ids of rows are finite, so a run explores one
life of the workspace; requests are unbounded, slots are reused.

**Others.** `MaxEvents`, `MaxRequests` and `MaxChanges` bound what users and
the network do; what the program does in answer is not bounded. `work_items`
starts with a project, a task and a comment in place, so that two requests and
a removal meet at every depth of a path; of the two only the first may be on
projects, as two refills of one page are the third finding again. Two
workspaces are what a path that mixes them needs. Its theorems hold for any number
of requests. In `sessions` a second tab is what spends a token under the
first, and two calls of one tab what `refreshPromise` is for; four events let a
tab refresh, lose an answer, sign out and in again. In `realtime` four events
are: mount, leave, mount again, and the drop, removal or failure between them;
the third path is what the check of the project's workspace is for.
In `board` three events make two overlapping moves and a failure, or a move and
a peer's; the second task is created, so that ids appear. With five events
there is one more way for a detail to be wrong: opened from a phantom card, one
that a rollback left on the board with a version the server never gave it
(`behind` has it since). The proofs cover every bound. In `paging` six rows
in three instants put equal `createdAt` on a page boundary with rows before and
after it; five events load three pages while two rows come or go.

### Properties

- `OnePendingInvite`, `OneOwner`, `NoOrphans`, `MembersWereInvited`: the tables
  after any interleaving.
- `WritesStayAuthorized`: what `assertOwner` and the target check read still
  holds at every later await, the write included, while the workspace exists.
  It holds because the owner can neither be removed nor replaced: a handler
  that changed `ownerId` would break it.
- `AcceptIsEntry`, `AnswerIsFinal`: what one step may do. An invite becomes
  ACCEPTED in the step that inserts the membership, and nothing overwrites an
  answer.
- `ImplementsMembership`: seen through `Life` and `Offers` (the pairs with a
  PENDING invite), the handlers only make the moves of `Membership`.
- `PagesCurrent`: with nothing in flight, no page of workspaces or members is
  outdated. `InvitePagesCurrent` is weaker, as the code is: `update` and
  `remove` of a workspace delete no invites page, so a page may show an old
  workspace name or an invite whose workspace is gone, but the invites that
  exist are on it with their status.
- `OutdatedForAReason`: with faults and overlapping reads pages do go wrong, and
  last until their TTL. The property says which steps may do that (`LeftBy`): a
  failed request leaves the pages it still owed, a lost DEL its page, a refill the
  page of a read that a write has overtaken, and the delete of a workspace the lists
  of those who joined after `remove` had read the member ids. A page that goes
  wrong at any other step is a violation, whatever else is under way.
- `EveryRequestAnswered`: liveness.
- `NoOrphanItems`, `OutsidersLeaveNoTrace`, `ManagersStayAuthorized`: checks
  that are awaits apart from the write, against cascades, removals and mixed
  paths. Former members are let in, as `removeMember` leaves rows and
  assignments alone and a removal may overtake a check.
- `TrailNamesEveryStatus`: however the reads and transactions of updates overlap,
  what a task shows is a status its trail names, each row starts from a status
  named before it, and none changes a status into itself. That every change has a
  row of its own, as the source says, is `StatusChangesAreAudited`, and is false
  (finding 4): two updates may even leave the task at a status that is not the
  last row's.
- `ProjectPagesCurrent`: all but the pages of a user who was removed once,
  which survive the purges made in their absence (`Purged`).
- `PromiseIsShared`, `StoredTokenIsAlive`, `KickedOutByOthers`,
  `SignedOutForAReason`, `CallsSettle`: the exception of the second is
  a token whose answer no tab heard, of a refresh or of a logout that went on
  after its tab was gone (`lost`). The third is about the calls of one tab: that
  two tabs spend each other's token, after a reload too, is what the code allows.
- `ConfirmedMeansInRoom`, `OutsidersHearNothing`, `VerifiedStayConnected`,
  `JoinedOrTold`: of the board that is mounted and on line. Membership is checked
  at the join, so a room may hold who was a member once; that the room of a board
  left long ago is empty is not claimed. `VerifiedStayConnected` names the
  handshakes that end a connection: a token missing or expired, or a user that
  could not be read.
- `BoardShowsServer`, with the reasons in `gap`: a broadcast missed, a fetch or
  an answer lost, a rollback over lists that changed since its snapshot, a first
  load overtaken by the change. `DetailShowsServer`, with those in `behind`: an
  older version written after the newest arrived, a broadcast missed, an answer
  lost, a detail opened from a card whose move then failed. `ColumnsLoad`: each
  column loads or is one whose fetch failed or was rolled back.
- `WalkIsExact`, `PostedIsReachable` (with `missing`: a request failed, a first
  load was overtaken, Load more took a refetch's place): the row is shown, or
  after the last row shown and behind Load more. `FilterResetsPage`;
  `PagerSurvivesErrors` (exception: an answer that counts one page, of the page on
  the screen or of the last one that had any).

The ghosts record the losses this code allows at the step that causes them and
forget them when the list is read again, so that everything else, and every
loss of another origin, is a violation.

### Fairness

- `Access`: weak fairness of `Handle(r)` per request: the event loop resumes
  a handler when its await is answered, and every await is answered, by the
  database or by an error (Redis calls have timeouts and
  `maxRetriesPerRequest`). None on `Send` (nobody owes the server a request), on
  `Fail`, or on `Expire`.
- `WorkItems`: weak fairness of `Step(r)`, for the same reason.
- `Sessions`: of the steps of a call and its flight and of a tab's mutations:
  requests are answered or fail and promises settle. None of clicks, reloads or
  lost connections.
- `Realtime`: of the wire, the handshake, each handler and the armed timeout.
  None of the user, the network or the token.
- `Board`: of reading and delivering each list and answering each update. None
  of broadcasts: `ColumnsLoad` does not depend on them. `Paging` states none.

Every property of a passing run has a mutant (`PROJECT.json`): a bug like those
the code guards against (no partial index, a missing check, a forgotten key, an
unconditional update, an attempt not told from the next), with which TLC finds
the property violated.

## 4. Findings

1. **`access_accept_member`.** `invites.service.ts:163-165` says a P2002 in
   accept "can only mean the membership already exists — two separate pending
   invites for the same person, both accepted at once", and the repository
   (97-98) that this is "only possible before the partial unique index existed,
   or from data older than it". The trace: create() for a user with a pending
   invite passes its membership check, but has not reached its pending check; that
   invite is accepted; create() then finds no PENDING row and inserts. A member
   holds a PENDING invite, and accepting it meets the membership. The answer is
   the right 409 and nothing is corrupted, but the invite stays PENDING: it can
   only be declined. `Membership` allows such an offer for this reason.
2. **`access_bare_500`.** `all-exceptions.filter.ts:18-19` says the table of
   Prisma codes "guarantees a race that slips through never leaks a raw Prisma
   error or a bare 500". It maps P2002 and P2025. A createInvite whose workspace
   is deleted after its checks is a P2003, and the deadlock of section 2 a
   P2034: both are a 500.
3. **`access_stale_list`.** `workspaces.service.ts:199-200` says the removed
   member's list "must stop showing this workspace". A findAllForUser that
   queried before the deletion and stores after it restores the page until its
   TTL. The detail page is gated by a live membership check, so the workspace's
   content stays closed.
4. **`work_items_audit`.** `tasks.repository.ts:103-105` puts the row of the
   history into the transaction of the update because a trail that "silently
   misses a status change is worse than no trail", and `schema.prisma:202-203`
   says a row is written whenever the status changes. Whether it changes is
   decided against the status `update` read before the transaction
   (`tasks.service.ts:138`). The trace: two updates read TODO; one moves the task
   away, with its row; the other asks for TODO, finds no change, and writes TODO
   back without one. The trail then ends in a status the task no longer has.

Beyond these, the models meet the following at states their properties exempt;
each is a sentence in the source that the code does not quite keep:

- `interceptors.ts:83-87` says that a refresh that fails without a 401 leaves
  the session to be retried. If the rotation committed and its answer was lost,
  the token is spent, and the retry is the 401 that signs the tab out (`lost`).
- `interceptors.ts:9-13` keeps the logout call out of the refresh flow, as that
  "could even resurrect a session the caller is trying to kill". A refresh of
  another call that is in flight does: it stores its tokens after `clearTokens`.
  The session is back, and its token works (`StoredTokenIsAlive`).
- `TaskBoard.tsx:44-48` says of the opened card that "it can't hold a stale
  snapshot across a drag-and-drop move". Opened while its move is unsaved, the
  detail is seeded with the moved card, and the rollback restores the lists only (`behind`).
- `useProjectRealtime.ts:55` says off line that it is "waiting to reconnect". After the
  server hung up (an expired token at the handshake) the socket does not
  reconnect, and nothing listens to `disconnect`. A database failure during a
  handshake with a good token ends the same way (`auth.service.ts:129-140`).
- `WorkspacePage.tsx:49-53` keeps the pager over failed answers, so that nobody
  is trapped on a page without a way back. An answer that
  counts one page, when the last row of page 2 was removed, takes it away while
  the user stays on page 2. So does page 1 refetched in the background, when it now
  counts one page, page 2 fails, and the user retries: page 1 is what is handed out
  meanwhile (both are exceptions of `PagerSurvivesErrors`).

## 5. The proofs

Every invariant that a passing run checks is the statement of a theorem here,
and so is every action property but `OutdatedForAReason`. No fairness is used, and every assumption on a
constant is the model's own, evaluated in its runs. The cache theorems have
hypotheses besides, given with them.

### `AccessProofs`, `MembershipProofs`

Proved for any sets `Users`, `Workspaces`, `Invites`, `Names`, `Requests` and
`Ops` and either value of `Faults`. The assumptions: `NilAssumption` (null is
not an id), `OpsAssumption`, `FaultsAssumption`.

**The invariant.** None of the properties is inductive alone: that an accept
puts the right user in rests on what the handler checked some awaits ago. `IInv`
adds to them
- `HandlerOK`: what a handler's parameters are worth at each await. At
  "acceptTx" the invite's user is the actor; at "insertInvite" the invitee is a
  user other than the actor and the invite id is unused;
- `FreshIds`: two inserts in flight have different ids, so neither takes the
  other's unused row away;
- `RowsOK`: rows refer to rows that exist or existed.

`OwnerChecked` (in `WritesStayAuthorized`) is itself needed for `OneOwner`: the
target of `deleteMembership` is not the owner.

`AccessProofs` shows `Init => IInv` and that every action preserves it. Most
actions only move one request along (lemmas on `Goto`, `Answer`,
`PurgeThenOk`), or change one table, and the invariant's part about the other
requests survives because rows keep their `workspaceId`, `invitedUserId` and
`ownerId` and no unused row is touched but the request's own. The safety
theorems (`TypeCorrect`, `PendingInviteIsUnique`, `OwnerIsUnique`,
`NothingOutlivesItsWorkspace`, `EntryByInvitation`, `ChecksHoldAtTheWrite`)
follow from `Invariance`.

**The refinement.** `MembershipProofs` first shows that every step either
leaves the tables alone or is one of the repository statements with the guard
its handler gives it; each of these is then one move of `Membership`
(`HandlersImplementMembership`) and satisfies `EntryByAccepting` and
`AnswersKept` (`EntryIsByAccepting`, `AnswersAreFinal`). A `Rename` stutters; a
`MarkDeclined` is a `TurnDown`; two PENDING invites of one pair would make it
leave the offer standing, which is where `OnePendingInvite` is needed.

**The pages.** `PagesCurrent` and `InvitePagesCurrent` are proved for `~Faults`
and `[]ReadsAlone`: Redis is up, and while a request reads, all requests under
way read; writers overlap freely. The single slot of `access_pages` is one
instance. Neither hypothesis can go. `access_stale_list` shows a read that
refills a page after the write beside it has deleted it, and a DEL that is lost
leaves its page for a TTL (`access_faults`). `PagesInv` says of each page that
it is right (`Right`), or that some request has still to delete it (`Held`: a
request has its key in `purge`, or its handler has deletions to come, `Due`).
`Knows` says what that needs of each handler: a refill carries what a query
returns now; an answer to an invite purges the page of its invitee; `remove` has
collected the pages of the workspace and the lists of its members (`Collected`).
That last part is where writers meet: who joins or leaves after the ids were
read has a list page that is there no more or that the other request deletes
(`Going`), and no read fills it again before the row is gone. For an invites
page `Right` is `AllShown` (each invite that exists is there, with its status)
and `ShownRight` (what else is there is gone), both but for invites declined and
not read back yet (`Reloading`): a workspace deleted between the two takes the
invite with it, and `decline` then deletes no page at all. `update` and `remove`
of a workspace, which delete no invites page, keep both.

### `WorkItemsProofs`

For any sets and bounds, any paths, and any seed of sound rows. Assumptions:
`NilAssumption`, `BoundAssumption`, `PathAssumption`, `SeedAssumption`.

`NoOrphanItems` and `OutsidersLeaveNoTrace` speak of live rows; a handler holds
on to ids of rows that may go. `IInv` therefore says of every row ever inserted
that its parents were inserted before it and its people were members of its
workspace once (`Rooted`): columns of deleted rows stay, and `WasMember` never
ends. Of a request it says (`Sound`) which ids it has, which awaits its handler
passes, and what each check it has passed is still worth: the row is below its
parent, dead or alive; the actor and the assignee were members; at the write of
a manager, the creator or the owner. `FreshIds` keeps two inserts from one row.
`Keeps` is what every step of anyone leaves alone (parents, creators, former
members, owners of living workspaces); a lemma carries `Sound` of the other
requests over every such step, so each action is proved for its own request and
its own tables only.

`TrailNamesEveryStatus` (theorem `TrailsLinkUp`) needs `TrailInv`: while a task
lives, the `old` of every request about it is a status its trail names. `update`
reads `old` from the task, whose status is one of them, and the trail of a living
task only grows, so `old` is still named when its row is appended, however stale
it is by then. The id of a `createTask` is in no other request (`FreshIds`), so
the trail it starts is read by nobody before.

### `ProjectPagesProofs`

`ProjectPagesCurrent` for any sets and any requests, of which one (`r`) at a
time is on projects: `Alone(r)` says that the `Ops` of the others are those of
tasks, comments and history, which overlap it freely, as do joins, removals and
the deletion of workspaces. Two requests on projects are the third finding
again, as a read may fill a page after a write purged it
(`projects.service.ts:98`). A page is current, or `r` has still to delete it,
or its user was removed once (`Current`). That no other page escapes
`invalidateListsForAllMembers`, which asks for the members *after* the write, is
`Filled`: who has a page was a member when it was filled, and is one now or was
removed. `Reading` carries what the check of membership and the query saw to
the refill.

### `SessionsProofs`

For any tabs, calls and number of events. Assumptions: `BoundAssumption`,
`NilAssumption`, `SpenderAssumption`, `TabAssumption`.

- `Shared`: a call waits for the flight its tab's `refreshPromise` names; a
  flight somebody listens to is that of its tab's promise. They come and go
  together, which gives `OneRefreshPerTab`.
- `AnswersUntouched`: a token on its way back to a tab is live, unspent, stored
  nowhere, and in no other answer; so storing it cannot store a bad one.
- `SpentIsHeard`: if a tab spent the stored token, one of its flights is about
  to replace it; and no flight of that tab still goes to the server with it.
  The second half is `NoTabEndsItsOwnSession`.
- `StoreIsGood`: the stored token is in `lost`, or live, or about to be replaced,
  or a sign-out is about to remove it. When all is quiet only the first two are
  left (`StoredTokensWork`). A logout that is `adrift` revokes its token whenever it
  likes, and puts it in `lost` in that step.

`AllIssued` (no unused number in anybody's hands) makes a new token different
from all of them. `SessionsEndForAReason` goes through the actions: only two of
them remove what is stored, and one denies `auth.me`.

### `RealtimeProofs`

For any workspaces, projects and paths, whether or not a path mixes workspaces,
and any number of events. Assumptions: `NilAssumption`, `IdAssumption`,
`WorkspaceAssumption`, `PathAssumption`, `BoundAssumption`.

That a silent board is in its room rests on the order of messages. `SentLast`:
a join on the wire is that of an older attempt, or of the current one, and then
it is the last message. `ReceivedLast`: when the server works on the current
one, nothing is behind it, so no `leave` can undo it. `AckedInRoom`: its
positive ack means that the board is in the room. `TimerIsCurrent`: the armed
timeout is the current attempt's. `Confirmed` is the property with "and nothing
is on its way" added, which makes it inductive. `JoinsVerified` (past its first
await a join has a verified user, and past the project's row its workspace is the
project's own) gives `RoomsAreForMembers`: without the comparison of the two a
member of one workspace would join a project of another. `VerifiedAreKept` goes
through the actions: two of them hang up, both while the handshake is pending. `TypeOK` bounds
the attempts: each costs an event of the user or of the network, but for that of
the first connection (`Counted`).

### `BoardProofs`

For any tasks, columns, slots of own updates and number of events. Assumptions:
`BoardAssumption`, `NilAssumption`.

`BoardShowsServer` speaks of a board with nothing on its way; `ListsInv` says
who will correct a list until then. Either something is under way that will have
all lists fetched again or put on record (`Unsettled`: a broadcast, an answer, a
rollback that is not clean), or each list not on record is being fetched, was
read and is right, or is idle and right (`ListInv`). A drag alone in flight is
the exception: the lists show what is not saved, and what must be right is the
snapshot it will restore (`Clean`, `Right`).

`DetailsInv` says of an open detail that it is the server's task, or an update of that task
is under way, or it has the newest version number and shows a move that is
(`Moving`). Versions carry the argument: a broadcast or an answer with the
newest version has the newest status (`NewsInv`, `AnswerInv`), and a task was
written at most once per event less the updates that wait (`VersionsInv`, which
is also what keeps versions in their type). The first attempt at this proof
found the phantom card of "Bounds", which three events are too few for.

### `PagingProofs`

For any number of rows, any instants, page sizes and numbers of events.
Assumptions: `PagingAssumption`, `NilAssumption`.

First the order: `(createdAt, id)` is strict and total whatever the
instants (`OrdIsTotal`), so a set of rows has a first and a last, and `take` of
them is a beginning of it. A page then has no row before its cursor, none of the
rest before its last row, and its next cursor is that row (`AnswerIsNext`). Pages
`Chain` if each begins after the cursor of the one before; a row is `Covers`ed by
them if it is in one or lies beyond the last. `WalkInv` states both: of what the screen
shows for the rows of `steady`, of what a refetch has collected for the rows
that were there when it began (`LoadInv`), and of the page on its way (`MoreInv`).
`PostInv` says of the user's own row which refetch will bring it; a row no refetch
will bring is shown or lies beyond the last page, which gives
`PostedRowsAreFound`. For a pager, `PagerInv` says that the count on the screen is
that of the bridged answer as long as there is one (`KnownInv`, kept by `Return` in
`ReturnInv`), and that all that was asked was chosen (`ChosenInv`).

### Model-checked only

Liveness is out of the prover's reach: `EveryRequestAnswered` (twice),
`CallsSettle`, `JoinedOrTold`, `ColumnsLoad`. `OutdatedForAReason` is checked only:
the theorems about pages speak of `~Faults`. The four findings are
counterexamples, so there is nothing to prove.

## 6. What is not modelled

- Mail, health, configuration, logging, throttling, Swagger, the Prisma
  connection, the layout and the forms of the client: I/O, wiring and layout.
- Auth: passwords, `register` (it issues tokens as `login` does), expiry of
  refresh tokens (days; it is one more refused refresh), and the `authUser` key
  in Redis with the user cached under it.
- Redis: a `delByPrefix` that fails half-way (it leaves what a failed one
  leaves, on some pages); the TTL and failures of project pages, which are those
  of `Access`; the detail pages of projects whose workspace is gone, which
  nothing deletes and nobody can read past the check of the workspace.
- Tasks: title, description, priority and due date; a comment's text. No guard
  reads them.
- Board: a second tab of the same user, whose events the client ignores as its
  own; the detail's own query (`useTask`), `staleTime`, assignee and priority
  of a card, retries of a fetch one by one.
- Lists: the rows and the count of a numbered page are of one instant (the code
  runs two queries side by side); rows that are equal in the order of a pager,
  whose place PostgreSQL chooses; the pager of members; a switch of workspace
  without a remount (`WorkspacePage.tsx:59-69`); editing a comment in place; the
  page of invites, which is a request and an invalidation.
- Tests: read as a reference of what is intended.

## 7. Plan

All that was planned first is there: the handlers, sessions with the client's
interceptor, realtime, the board's cache, paged lists, and a theorem for each
invariant. Next, in this order:

1. `Realtime` composed with `Board`: `inRoom` as the hook sees it, and whether a
   re-join should refetch the lists (today it does not).
2. The cached user of `JwtStrategy` and `auth.service.ts` under the failures of
   Redis, in `Sessions`.
