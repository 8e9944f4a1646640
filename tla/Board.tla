------------------------------- MODULE Board --------------------------------
(***************************************************************************)
(* The cached task lists of one open board (useTasks) between the server's *)
(* tasks, the changes the tab makes itself (a drag is shown before it is   *)
(* saved and rolled back if it fails) and those of its peers, which it     *)
(* hears of through the project's room (useProjectRealtime).  The tab      *)
(* skips the broadcasts of its own user and relies on its answers instead. *)
(*                                                                         *)
(* TanStack Query is modelled by the rules the code relies on:             *)
(*   invalidate   restarts a list that has data, lets a first load run on, *)
(*                and fetches a list that is idle;                         *)
(*   cancel       drops a running fetch, whose list stays what it was;     *)
(*   setQueryData overwrites.                                              *)
(***************************************************************************)
EXTENDS Naturals, FiniteSets

CONSTANTS
  Tasks,         \* tasks that may come to exist
  NumSlots,      \* updates the tab can have in flight
  NumStatuses,   \* statuses are 1..NumStatuses, in the order of taskStatusValues
  Seed,          \* the status each task has when the board is mounted
  Loaded,        \* the columns whose first load came before everything else
  Filtered,      \* the board's filters are set; the edit form's hook has none
  Nil,
  MaxEvents      \* bound: what the users and the network do in all

Statuses == 1..NumStatuses
Slots == 1..NumSlots
Fresh == 0
Gone == NumStatuses + 1

ASSUME BoardAssumption ==
  /\ NumStatuses \in Nat \ {0} /\ NumSlots \in Nat \ {0} /\ MaxEvents \in Nat
  /\ Nil \notin Tasks
  /\ Seed \in [Tasks -> 0..NumStatuses]
  /\ Loaded \subseteq Statuses
  /\ Filtered \in BOOLEAN

\* Nil stands for undefined and null: it is no list and no detail.
ASSUME NilAssumption ==
  /\ \A rows \in SUBSET [task : Tasks, s : Statuses, v : 0..MaxEvents] : rows # Nil
  /\ Nil \notin [s : Statuses, v : 0..MaxEvents]

VARIABLES
  at,        \* server: the status of a task, or Fresh, or Gone
  ver,       \* server: how often the task was written
  col,       \* the cached list of a status: Nil before its first load
  fetch,     \* the request for it: idle, asked, read (its rows are on the way)
  detail,    \* the cached detail of a task, or Nil
  mut,       \* the tab's own updates
  inRoom,    \* the tab is in the project's room
  news,      \* changes of peers that were committed and not broadcast yet
  gap,       \* ghost: lists that missed a change for a reason on record below
  behind,    \* ghost: tasks whose detail did
  events     \* how much of the bound is used up

server == <<at, ver>>
ghosts == <<gap, behind>>
vars == <<server, col, fetch, detail, mut, inRoom, news, ghosts, events>>

Versions == 0..MaxEvents
Card == [task : Tasks, s : Statuses, v : Versions]
Exists(t) == at[t] \in Statuses
Cards(s) == {[task |-> t, s |-> s, v |-> ver[t]] : t \in {u \in Tasks : at[u] = s}}

Idle == [pc |-> "idle", rows |-> {}]
Asked == [pc |-> "asked", rows |-> {}]
NoMut == [pc |-> "free", kind |-> "none", task |-> Nil, to |-> 1, v |-> 0,
          prev |-> [s \in Statuses |-> Nil], alone |-> FALSE]

Event == events < MaxEvents /\ events' = events + 1

-----------------------------------------------------------------------------
(* The query cache.                                                        *)

\* Mutant: only lists that have data are refetched.
RefetchLoaded ==
  [s \in Statuses |-> IF col[s] = Nil THEN fetch[s] ELSE Asked]

\* invalidateQueries(tasks.lists).
Refetch ==
  [s \in Statuses |-> IF col[s] = Nil /\ fetch[s].pc # "idle" THEN fetch[s] ELSE Asked]

\* A first load that runs on although its rows are already on the way.
Overtaken == {s \in Statuses : col[s] = Nil /\ fetch[s].pc = "read"}

Invalidate == fetch' = Refetch /\ gap' = gap \cup Overtaken

\* No update in flight may count on the lists being what it left.
Disturb(m) == [m EXCEPT !.alone = FALSE]

\* The newest version of t has yet to reach the detail, as news or as an answer.
Underway(t) == \/ \E n \in news : n.task = t /\ n.v = ver[t]
               \/ \E m \in Slots : /\ mut[m].pc = "done" /\ mut[m].kind # "create"
                                    /\ mut[m].task = t /\ mut[m].v = ver[t]

\* An own update that has not been answered shows t in s.
Moving(t, s) == \E m \in Slots : /\ mut[m].pc \in {"asked", "failed"}
                                 /\ mut[m].task = t /\ mut[m].to = s

\* setQueryData of a detail.  If it writes an old version after the newest one
\* arrived, or what a rollback left of a move, nothing will put that right.
WriteDetail(t, s, v) ==
  /\ detail' = [detail EXCEPT ![t] = [s |-> s, v |-> v]]
  /\ behind' = IF v = ver[t] /\ (s = at[t] \/ Moving(t, s)) THEN behind \ {t}
               ELSE IF Underway(t) THEN behind ELSE behind \cup {t}

\* removeQueries of a detail.
RemoveDetail(t) == detail' = [detail EXCEPT ![t] = Nil] /\ UNCHANGED behind

\* The list endpoint answers with the rows of the moment.
Read(s) ==
  /\ fetch[s].pc = "asked"
  /\ fetch' = [fetch EXCEPT ![s] = [pc |-> "read", rows |-> Cards(s)]]
  /\ UNCHANGED <<server, col, detail, mut, inRoom, news, ghosts, events>>

\* useTasksByStatus shows the answer.
Deliver(s) ==
  /\ fetch[s].pc = "read"
  /\ col' = [col EXCEPT ![s] = fetch[s].rows]
  /\ fetch' = [fetch EXCEPT ![s] = Idle]
  /\ mut' = [m \in Slots |-> Disturb(mut[m])]
  /\ gap' = IF fetch[s].rows = Cards(s) THEN gap \ {s} ELSE gap
  /\ UNCHANGED <<server, detail, inRoom, news, behind, events>>

\* Both tries of a fetch fail (retry: 1): the list keeps what it had.
FetchFails(s) ==
  /\ Event /\ fetch[s].pc # "idle"
  /\ fetch' = [fetch EXCEPT ![s] = Idle]
  /\ gap' = gap \cup {s}
  /\ UNCHANGED <<server, col, detail, mut, inRoom, news, behind>>

\* The Retry of a column that failed to load.
RetryColumn(s) ==
  /\ Event /\ fetch[s].pc = "idle" /\ col[s] = Nil /\ s \in gap
  /\ fetch' = [fetch EXCEPT ![s] = Asked]
  /\ UNCHANGED <<server, col, detail, mut, inRoom, news, ghosts>>

-----------------------------------------------------------------------------
(* The user of the tab.                                                    *)

Shown == UNION {col[s] : s \in {r \in Statuses : col[r] # Nil}}

\* handleOpenTask: the card at hand seeds the detail.
OpenTask(c) ==
  /\ Event
  /\ WriteDetail(c.task, c.s, c.v)
  /\ UNCHANGED <<server, col, fetch, mut, inRoom, news, gap>>

\* Mutant: the moved card keeps its old status.
MovedAsIs(t, to) ==
  [s \in Statuses |->
     IF col[s] = Nil THEN Nil
     ELSE {c \in col[s] : c.task # t} \cup
          (IF s = to THEN {c \in Shown : c.task = t} ELSE {})]

\* The lists with the card of t moved to the top of its new column.
Moved(t, to) ==
  LET mine == {c \in Shown : c.task = t}
      moved == {[c EXCEPT !.s = to] :
                  c \in {d \in mine : \A e \in mine : d.s >= e.s}}
  IN [s \in Statuses |->
        IF col[s] = Nil THEN Nil
        ELSE {c \in col[s] : c.task # t} \cup (IF s = to THEN moved ELSE {})]

Busy == \E m \in Slots : mut[m].pc # "free"

\* The updates in flight fill the slots in order.
Free(m) == mut[m].pc = "free" /\ \A n \in 1..(m - 1) : mut[n].pc # "free"

Start(m, kind, t, to) ==
  [NoMut EXCEPT !.pc = "asked", !.kind = kind, !.task = t, !.to = to, !.prev = col,
                !.alone = ~Busy /\ \A s \in Statuses : fetch[s].pc = "idle"]

\* useUpdateTask.onMutate: cancel, take a snapshot, patch.  The await of the
\* cancels is over within the click's own task: a cancelled fetch is rejected
\* at once, and no answer, event or other click comes before its microtasks.
\* The key of a form without filters matches every list for the cancel and no
\* filtered one for the patch.
Update(m, kind, t, to) ==
  /\ Event /\ Free(m)
  /\ mut' = [n \in Slots |-> IF n = m THEN Start(m, kind, t, to) ELSE Disturb(mut[n])]
  /\ fetch' = [s \in Statuses |-> Idle]
  /\ col' = IF kind = "edit" /\ Filtered THEN col ELSE Moved(t, to)
  /\ UNCHANGED <<server, detail, inRoom, news, ghosts>>

\* handleDragEnd.
Drag(m) ==
  \E c \in Shown : \E to \in Statuses \ {c.s} : Update(m, "drag", c.task, to)

\* EditTaskForm sends every field.  It may have been open for long: its task
\* need not be there any more.
SubmitForm(m) ==
  \E t \in {u \in Tasks : at[u] # Fresh} : \E to \in Statuses : Update(m, "edit", t, to)

\* useDeleteTask and useCreateTask: nothing is shown before the answer.
Request(m, kind, t, to) ==
  /\ Event /\ Free(m)
  /\ mut' = [mut EXCEPT ![m] = Start(m, kind, t, to)]
  /\ UNCHANGED <<server, col, fetch, detail, inRoom, news, ghosts>>

Remove(m) == \E c \in Shown : Request(m, "delete", c.task, c.s)
Create(m) == \E to \in Statuses : Request(m, "create", Nil, to)

-----------------------------------------------------------------------------
(* The server.                                                             *)

\* A row as one of create, update and remove leaves it.
Write(t, s) == at' = [at EXCEPT ![t] = s] /\ ver' = [ver EXCEPT ![t] = @ + 1]

Target(m) == IF mut[m].kind = "create" THEN {t \in Tasks : at[t] = Fresh}
                                       ELSE {t \in {mut[m].task} : Exists(t)}

\* The request of an own update commits.  Its broadcast is skipped here.
Commit(m) ==
  /\ mut[m].pc = "asked"
  /\ \E t \in Target(m) :
       /\ Write(t, IF mut[m].kind = "delete" THEN Gone ELSE mut[m].to)
       /\ mut' = [mut EXCEPT ![m].pc = "done", ![m].task = t, ![m].v = ver[t] + 1]
  /\ UNCHANGED <<col, fetch, detail, inRoom, news, ghosts, events>>

\* It is refused: the task is gone, or something else is wrong with it.
Refuse(m) ==
  /\ mut[m].pc = "asked"
  /\ \/ Target(m) = {} /\ UNCHANGED events
     \/ Event
  /\ mut' = [mut EXCEPT ![m].pc = "failed"]
  /\ UNCHANGED <<server, col, fetch, detail, inRoom, news, ghosts>>

\* It commits and the answer is lost.
LoseAnswer(m) ==
  /\ Event /\ mut[m].pc = "done"
  /\ mut' = [mut EXCEPT ![m].pc = "failed", ![m].alone = FALSE]
  /\ gap' = Statuses /\ behind' = behind \cup {mut[m].task}
  /\ UNCHANGED <<server, col, fetch, detail, inRoom, news>>

\* A peer creates, moves, edits or deletes a task.
PeerWrites(t) ==
  /\ Event
  /\ \/ \E s \in Statuses : (at[t] = Fresh \/ Exists(t)) /\ Write(t, s)
     \/ Exists(t) /\ Write(t, Gone)
  /\ news' = news \cup {[task |-> t, s |-> at'[t], v |-> ver'[t]]}
  /\ UNCHANGED <<col, fetch, detail, mut, inRoom, ghosts>>

-----------------------------------------------------------------------------
(* The answers of the tab's own updates.                                   *)

Done(m) == mut' = [mut EXCEPT ![m] = NoMut]

\* Mutant: the answer of a move counts as its result everywhere.
SettledAsShown(m) ==
  /\ mut[m].pc = "done" /\ Done(m)
  /\ CASE mut[m].kind = "create" -> UNCHANGED <<detail, behind>>
       [] mut[m].kind = "delete" -> RemoveDetail(mut[m].task)
       [] OTHER -> WriteDetail(mut[m].task, mut[m].to, mut[m].v)
  /\ IF mut[m].kind = "drag" THEN UNCHANGED <<fetch, gap>> ELSE Invalidate
  /\ UNCHANGED <<server, col, inRoom, news, events>>

\* onSuccess: the detail from the answer, the lists from the server.
Settled(m) ==
  /\ mut[m].pc = "done" /\ Done(m)
  /\ CASE mut[m].kind = "create" -> UNCHANGED <<detail, behind>>
       [] mut[m].kind = "delete" -> RemoveDetail(mut[m].task)
       [] OTHER -> WriteDetail(mut[m].task, mut[m].to, mut[m].v)
  /\ Invalidate
  /\ UNCHANGED <<server, col, inRoom, news, events>>

Optimistic(m) == \/ mut[m].kind = "drag"
                 \/ mut[m].kind = "edit" /\ ~Filtered

\* onError: the lists that had data at onMutate get their snapshot back.  It
\* is right only if nothing has touched them since, and a detail that was
\* opened from the moved card keeps what was not saved.
RolledBack(m) ==
  /\ mut[m].pc = "failed"
  /\ IF Optimistic(m)
       THEN /\ col' = [s \in Statuses |->
                         IF mut[m].prev[s] = Nil THEN col[s] ELSE mut[m].prev[s]]
            /\ mut' = [n \in Slots |-> IF n = m THEN NoMut ELSE Disturb(mut[n])]
       ELSE Done(m) /\ UNCHANGED col
  /\ gap' = IF mut[m].alone \/ mut[m].kind \in {"create", "delete"}
              THEN gap ELSE Statuses
  /\ behind' = behind \cup {t \in {mut[m].task} \ {Nil} :
                              detail[t] # Nil /\ detail[t].s = mut[m].to}
  /\ UNCHANGED <<server, fetch, detail, inRoom, news, events>>

-----------------------------------------------------------------------------
(* The room.                                                               *)

Join ==
  /\ ~inRoom /\ inRoom' = TRUE
  /\ UNCHANGED <<server, col, fetch, detail, mut, news, ghosts, events>>

Drop ==
  /\ Event /\ inRoom /\ inRoom' = FALSE
  /\ UNCHANGED <<server, col, fetch, detail, mut, news, ghosts>>

\* Mutant: an event refreshes the lists only.
HearForLists(n) ==
  /\ inRoom /\ n \in news
  /\ news' = news \ {n}
  /\ Invalidate
  /\ UNCHANGED <<server, col, detail, mut, inRoom, behind, events>>

\* upsert and remove of useProjectRealtime: events of a peer, in any order.
Hear(n) ==
  /\ inRoom /\ n \in news
  /\ news' = news \ {n}
  /\ Invalidate
  /\ IF n.s = Gone THEN RemoveDetail(n.task) ELSE WriteDetail(n.task, n.s, n.v)
  /\ UNCHANGED <<server, col, mut, inRoom, events>>

\* A broadcast while the tab is not in the room.  Nothing is fetched for it.
Miss(n) ==
  /\ ~inRoom /\ n \in news
  /\ news' = news \ {n}
  /\ gap' = Statuses /\ behind' = behind \cup {n.task}
  /\ UNCHANGED <<server, col, fetch, detail, mut, inRoom, events>>

-----------------------------------------------------------------------------
\* The board was mounted a moment ago: it is not in its room yet.
Init ==
  /\ at = Seed
  /\ ver = [t \in Tasks |-> 0]
  /\ col = [s \in Statuses |-> IF s \in Loaded THEN Cards(s) ELSE Nil]
  /\ fetch = [s \in Statuses |-> IF s \in Loaded THEN Idle ELSE Asked]
  /\ detail = [t \in Tasks |-> Nil]
  /\ mut = [m \in Slots |-> NoMut]
  /\ inRoom = FALSE /\ news = {}
  /\ gap = {} /\ behind = {}
  /\ events = 0

Quiet == /\ \A s \in Statuses : fetch[s].pc = "idle"
         /\ ~Busy /\ news = {}

\* The tab is left alone.
Rest == Quiet /\ inRoom /\ UNCHANGED vars

Fetching == \E s \in Statuses : Read(s) \/ Deliver(s)
Answer(m) == Commit(m) \/ Refuse(m) \/ Settled(m) \/ RolledBack(m)
Using == \/ \E c \in Shown : OpenTask(c)
         \/ \E m \in Slots : Drag(m) \/ SubmitForm(m) \/ Remove(m) \/ Create(m)
Failing == \/ \E s \in Statuses : FetchFails(s) \/ RetryColumn(s)
           \/ \E m \in Slots : LoseAnswer(m)
           \/ Drop

Next == \/ Fetching \/ Using \/ Failing
        \/ \E m \in Slots : Answer(m)
        \/ \E t \in Tasks : PeerWrites(t)
        \/ \E n \in news : Hear(n) \/ Miss(n)
        \/ Join \/ Rest

\* The server answers and the answers arrive.
Fairness == /\ \A s \in Statuses : WF_vars(Read(s)) /\ WF_vars(Deliver(s))
            /\ \A m \in Slots : WF_vars(Answer(m))

Spec == Init /\ [][Next]_vars /\ Fairness

-----------------------------------------------------------------------------
(* Properties.                                                             *)

TypeOK ==
  /\ \A t \in Tasks : at[t] \in Fresh..Gone /\ ver[t] \in Versions
  /\ \A s \in Statuses : /\ col[s] = Nil \/ \A c \in col[s] : c \in Card /\ c.s = s
                         /\ fetch[s].pc \in {"idle", "asked", "read"}
                         /\ \A c \in fetch[s].rows : c \in Card /\ c.s = s
  /\ \A t \in Tasks : detail[t] = Nil \/ detail[t] \in [s : Statuses, v : Versions]
  /\ \A m \in Slots :
       /\ mut[m].pc \in {"free", "asked", "done", "failed"}
       /\ mut[m].task \in Tasks \cup {Nil} /\ mut[m].to \in Statuses
       /\ mut[m].alone \in BOOLEAN
       /\ mut[m].pc \in {"asked", "done"} => mut[m].kind # "none"
  /\ inRoom \in BOOLEAN
  /\ \A n \in news : n.task \in Tasks /\ n.v \in Versions
  /\ gap \subseteq Statuses /\ behind \subseteq Tasks
  /\ events \in 0..MaxEvents

\* Once nothing is under way every column shows what the server holds: no
\* order of drags, rollbacks, answers, broadcasts and refetches leaves a
\* phantom card, except for the reasons the ghost `gap` puts on record (a
\* broadcast missed, a fetch or answer lost, a rollback over newer lists, a
\* first load overtaken).
BoardShowsServer ==
  Quiet => \A s \in Statuses \ gap : col[s] = Cards(s)

\* The same of the details: the open task shows the version the server holds
\* unless an older one arrived after it, a change was missed, or it was opened
\* from the card of a move that came to nothing (`behind`).
DetailShowsServer ==
  Quiet => \A t \in Tasks \ behind :
             detail[t] # Nil => detail[t] = [s |-> at[t], v |-> ver[t]]

\* A column does not stay empty-looking: it gets its first rows, or it is one
\* whose load failed or was cancelled by an update that failed.
ColumnsLoad ==
  []<>(\A s \in Statuses : col[s] # Nil \/ s \in gap)
=============================================================================
