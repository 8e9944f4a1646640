------------------------------- MODULE Paging -------------------------------
(***************************************************************************)
(* Lists longer than a page, read while rows are created and deleted.      *)
(*                                                                         *)
(* A walk is an infinite query: a task column, the comments or the history *)
(* of a task.  Its pages hang together by cursors (createdAt, id), and a   *)
(* refetch reads as many pages as are loaded, one after another.           *)
(*                                                                         *)
(* A pager is a numbered page of projects (WorkspacePage) or workspaces    *)
(* (DashboardPage): an offset, a page count and a debounced search.        *)
(*                                                                         *)
(* One tab shows one of them; which one is chosen at the start.            *)
(***************************************************************************)
EXTENDS Naturals, Sequences, FiniteSets, SequencesExt

CONSTANTS
  NumRows,     \* rows are 1..NumRows, numbered in the order of their ids
  Stamp,       \* the createdAt of each row; rows may share one
  Seed,        \* the rows there are at the start
  Matches,     \* the rows that a search finds
  Limit,       \* the page size
  MaxPage,     \* bound: the pages of a pager
  Nil,
  MaxEvents    \* bound: what the users and the network do in all

Rows == 1..NumRows

ASSUME PagingAssumption ==
  /\ NumRows \in Nat /\ Limit \in Nat \ {0} /\ MaxPage \in Nat \ {0}
  /\ MaxEvents \in Nat
  /\ Stamp \in [Rows -> Nat] /\ Seed \subseteq Rows /\ Matches \subseteq Rows
  /\ Nil \notin Rows

\* A cursor: the place of a row in the order of a list.
Stamps == [at : Nat, id : Rows]

\* Nil stands for null: it is no cursor, no page and no answer.
ASSUME NilAssumption ==
  /\ Nil \notin Stamps
  /\ Nil \notin [items : SUBSET Rows, next : Stamps \cup {Nil}]
  /\ Nil \notin [items : SUBSET Rows, pages : Nat]
  /\ Nil \notin {"all", "some"} \X (1..MaxPage)

VARIABLES
  kind,      \* what the tab shows: tasks, comments, history, or pager
  there,     \* server: the rows
  used,      \* server: the rows there ever were
  data,      \* a walk: its loaded pages
  fetch,     \* a walk: its request
  more,      \* a walk: the last Load more failed
  error,     \* a walk: the last request failed
  post,      \* the row the user adds to a walk, or removes from a pager
  page, typed, filter,  \* a pager: its page, its search as typed and as applied
  known,     \* a pager: lastKnownTotalPages, 0 for null
  cache,     \* a pager: the answers by search and page
  asked,     \* a pager: its requests, likewise
  failed,    \* a pager: the searches and pages whose request failed
  stale,     \* a pager: those to be asked for again
  bridge,    \* a pager: the answer handed out in place of one on its way
  lastKey,   \* a pager: the search and page on the screen that last had an answer
  steady,    \* ghost: rows that were there all the time since page one was read
  missing,   \* ghost: rows a walk lost for a reason on record below
  chosen,    \* ghost: the searches and pages the user has chosen
  events     \* how much of the bound is used up

walk == <<data, fetch, more, error, steady, missing>>
pager == <<page, typed, filter, known, cache, asked, failed, stale, bridge, lastKey, chosen>>
vars == <<kind, there, used, post, walk, pager, events>>

Event == events < MaxEvents /\ events' = events + 1

-----------------------------------------------------------------------------
(* The rows.                                                               *)

\* The key order (createdAt, id).
Later(r, q) == \/ Stamp[r] > Stamp[q]
               \/ Stamp[r] = Stamp[q] /\ r > q

\* r comes before q in the list: comments are read oldest first.
Precedes(r, q) == IF kind = "comments" THEN Later(q, r) ELSE Later(r, q)

First(rows, n) == {r \in rows : Cardinality({q \in rows : Precedes(q, r)}) < n}
LastOf(rows) == CHOOSE r \in rows : \A q \in rows \ {r} : Precedes(q, r)

\* A cursor is the key of the last row of a page; the row may be gone by now.
CursorOf(r) == [at |-> Stamp[r], id |-> r]

\* Mutant: the cursor does not tell rows of the same instant apart.
BeforeStamp(c, r) == c = Nil \/ Stamp[r] < c.at

BeforeCursor(c, r) == \/ c = Nil
                      \/ Stamp[r] < c.at
                      \/ Stamp[r] = c.at /\ r < c.id

AfterCursor(c, r) == \/ c = Nil
                     \/ Stamp[r] > c.at
                     \/ Stamp[r] = c.at /\ r > c.id

FindTasks(c, take) == First({r \in there : BeforeCursor(c, r)}, take)
FindHistory(c, take) == First({r \in there : BeforeCursor(c, r)}, take)
FindComments(c, take) == First({r \in there : AfterCursor(c, r)}, take)

\* One row more than the page was read: it says whether there is a next page.
PageOf(rows) ==
  LET rest == Cardinality(rows) > Limit
      items == IF rest THEN First(rows, Limit) ELSE rows
  IN [items |-> items, next |-> IF rest THEN CursorOf(LastOf(items)) ELSE Nil]

ListTasks(c) == PageOf(FindTasks(c, Limit + 1))
ListHistory(c) == PageOf(FindHistory(c, Limit + 1))
ListComments(c) == PageOf(FindComments(c, Limit + 1))

Answer(c) == CASE kind = "tasks" -> ListTasks(c)
               [] kind = "history" -> ListHistory(c)
               [] kind = "comments" -> ListComments(c)

-----------------------------------------------------------------------------
(* A walk: useTasksByStatus, useTaskHistory, useComments.                  *)

\* A request that collects `want` pages, or one more than are loaded.
NoFetch == [op |-> "none", want |-> 0, got |-> <<>>, read |-> Nil, base |-> {}]
Load(n) == [NoFetch EXCEPT !.op = "pages", !.want = n]
More == [NoFetch EXCEPT !.op = "more", !.want = 1]

Shown == UNION {data[i].items : i \in DOMAIN data}
HasNext == data # <<>> /\ Last(data).next # Nil
FetchingMore == fetch.op = "more"

\* The cursor of the next page of the request.
Param == IF fetch.got # <<>> THEN Last(fetch.got).next
         ELSE IF FetchingMore THEN Last(data).next ELSE Nil

ReadPage ==
  /\ fetch.op # "none" /\ fetch.read = Nil
  /\ fetch' = [fetch EXCEPT !.read = Answer(Param),
                            !.base = IF @ = {} /\ ~FetchingMore THEN there ELSE @]
  /\ UNCHANGED <<kind, there, used, data, more, error, post, steady, missing, pager, events>>

\* A page arrives.  The pages of a refetch are shown together, at the end.
PageArrives ==
  /\ fetch.op # "none" /\ fetch.read # Nil
  /\ LET got == Append(fetch.got, fetch.read)
         complete == Len(got) = fetch.want \/ fetch.read.next = Nil
     IN IF complete
          THEN /\ data' = IF FetchingMore THEN data \o got ELSE got
               /\ steady' = IF FetchingMore THEN steady ELSE fetch.base \cap there
               /\ fetch' = NoFetch /\ more' = FALSE /\ error' = FALSE
          ELSE /\ fetch' = [fetch EXCEPT !.got = got, !.read = Nil]
               /\ UNCHANGED <<data, steady, more, error>>
  /\ UNCHANGED <<kind, there, used, post, missing, pager, events>>

\* Rows that only a refetch would bring.
BehindShown == {r \in there \ Shown : data # <<>> /\ Shown # {} /\ Precedes(r, LastOf(Shown))}

RequestFails ==
  /\ Event /\ fetch.op # "none"
  /\ fetch' = NoFetch /\ error' = TRUE /\ more' = FetchingMore
  /\ missing' = missing \cup (there \ Shown)
  /\ UNCHANGED <<kind, there, used, data, post, steady, pager>>

\* What the list shows: nothing else is drawn for these three.
WalkScreen == CASE data = <<>> /\ fetch.op # "none" -> "skeleton"
                [] error /\ Shown = {} -> "error"
                [] OTHER -> IF Shown = {} THEN "empty" ELSE "rows"

\* The sentinel of a task column comes into view: it does not ask what is
\* being fetched.
ColumnLoadsMore == kind = "tasks" /\ Shown # {} /\ (HasNext \/ more)

\* The Load more, or Retry, of the comments and of the history.
CommentsLoadMore == kind = "comments" /\ ~FetchingMore /\ (HasNext \/ more)
HistoryLoadMore == kind = "history" /\ ~FetchingMore /\ (HasNext \/ more)

CanLoadMore == ColumnLoadsMore \/ CommentsLoadMore \/ HistoryLoadMore

\* fetchNextPage takes the place of whatever is being fetched.
LoadMore ==
  /\ Event /\ HasNext
  /\ CanLoadMore
  /\ fetch' = More
  /\ missing' = IF fetch.op = "pages" THEN missing \cup BehindShown ELSE missing
  /\ UNCHANGED <<kind, there, used, data, more, error, post, steady, pager>>

\* Retry of a list that did not load.
Reload ==
  /\ Event /\ WalkScreen = "error"
  /\ fetch' = Load(1) /\ error' = FALSE
  /\ UNCHANGED <<kind, there, used, data, more, post, steady, missing, pager>>

\* The user adds a row: a comment, a task, a change of status.  It may be
\* stamped before rows that were committed earlier.
Post ==
  /\ Event /\ kind # "pager" /\ post.pc = "idle"
  /\ \E r \in Rows \ used : used' = used \cup {r} /\ post' = [pc |-> "sent", row |-> r]
  /\ UNCHANGED <<kind, there, data, fetch, more, error, steady, missing, pager>>

PostCommits ==
  /\ kind # "pager" /\ post.pc = "sent"
  /\ there' = there \cup {post.row}
  /\ post' = [post EXCEPT !.pc = "saved"]
  /\ UNCHANGED <<kind, used, data, fetch, more, error, steady, missing, pager, events>>

\* Mutant: the answer does not refresh the list.
AnsweredQuietly ==
  /\ kind # "pager" /\ post.pc = "saved"
  /\ post' = [post EXCEPT !.pc = "done"]
  /\ UNCHANGED <<kind, there, used, data, fetch, more, error, steady, missing, pager, events>>

\* onSuccess: invalidate.  A first load runs on, even if its page was read.
PostAnswered ==
  /\ kind # "pager" /\ post.pc = "saved"
  /\ post' = [post EXCEPT !.pc = "done"]
  /\ IF data = <<>> /\ fetch.op # "none"
       THEN /\ missing' = IF fetch.read # Nil THEN missing \cup {post.row} ELSE missing
            /\ UNCHANGED <<fetch, more, error>>
       ELSE /\ fetch' = Load(IF data = <<>> THEN 1 ELSE Len(data))
            /\ more' = FALSE /\ error' = (error /\ data # <<>>)
            /\ UNCHANGED missing
  /\ UNCHANGED <<kind, there, used, data, steady, pager, events>>

-----------------------------------------------------------------------------
(* A pager: useProjectsPage, useWorkspacesPage.                            *)

Filters == {"all", "some"}
Keys == Filters \X (1..MaxPage)
Key == <<filter, page>>

\* A request on its way; no answer looks like it.
Sent == [items |-> Rows, pages |-> 0]

Found(f) == IF f = "all" THEN there ELSE there \cap Matches

\* Mutant: no rows, no pages.
TotalPagesBare(total) == (total + Limit - 1) \div Limit

TotalPages(total) == IF total = 0 THEN 1 ELSE (total + Limit - 1) \div Limit

\* skip and take, and the count: two queries side by side, here of one instant.
OffsetPage(k) ==
  LET found == Found(k[1]) IN
  [items |-> First(found, k[2] * Limit) \ First(found, (k[2] - 1) * Limit),
   pages |-> TotalPages(Cardinality(found))]

\* Mutant: the pager lives off the answer alone.
KnownFrom(answer) == IF answer = Nil THEN 0 ELSE answer.pages

\* lastKnownTotalPages outlives an answer that failed.
Known(answer) == IF answer = Nil THEN known ELSE answer.pages

\* What useQuery returns for key k: its answer, nothing once it has failed, and
\* until then (keepPreviousData) what was handed out before or else what the
\* last query with an answer holds by now.
Return(k, c, f) ==
  LET waiting == c[k] = Nil /\ k \notin f
      previous == IF bridge # Nil \/ lastKey = Nil THEN bridge ELSE c[lastKey]
  IN /\ bridge' = IF waiting THEN previous ELSE Nil
     /\ lastKey' = IF c[k] = Nil THEN lastKey ELSE k
     /\ known' = Known(IF waiting THEN previous ELSE c[k])

\* Rendering key k: a request for it unless a fresh answer is cached, and the
\* state kept across renders.  An answer may have aged (staleTime).
Render(k, c, st, a) == \E aged \in BOOLEAN :
  LET ask == a[k] = Nil /\ (c[k] = Nil \/ k \in st \/ aged)
      f == IF ask THEN failed \ {k} ELSE failed
  IN /\ cache' = c /\ stale' = st /\ failed' = f
     /\ asked' = IF ask THEN [a EXCEPT ![k] = Sent] ELSE a
     /\ Return(k, c, f)

PagerScreen == CASE asked[Key] # Nil -> "skeleton"
                 [] asked[Key] = Nil /\ Key \in failed -> "error"
                 [] OTHER -> IF cache[Key].items = {} THEN "empty" ELSE "rows"

Goto(p) ==
  /\ page' = p /\ chosen' = chosen \cup {<<filter, p>>}
  /\ Render(<<filter, p>>, cache, stale, asked)
  /\ UNCHANGED <<kind, there, used, post, walk, typed, filter>>

PagerShown == known > 1

Previous == Event /\ kind = "pager" /\ PagerShown /\ page > 1 /\ Goto(page - 1)
NextPage == Event /\ kind = "pager" /\ PagerShown /\ page < known /\ page < MaxPage
            /\ Goto(page + 1)

Type(f) ==
  /\ Event /\ kind = "pager" /\ typed # f
  /\ typed' = f
  /\ UNCHANGED <<kind, there, used, post, walk, page, filter, known, cache, asked, failed, stale,
                 bridge, lastKey, chosen>>

\* Mutant: the page is left alone.
DebouncedInPlace ==
  /\ kind = "pager" /\ typed # filter
  /\ filter' = typed
  /\ Render(<<typed, page>>, cache, stale, asked)
  /\ UNCHANGED <<kind, there, used, post, walk, page, chosen, typed, events>>

\* The debounced search changes: the page is reset in the same render, so no
\* request carries the old page.
Debounced ==
  /\ kind = "pager" /\ typed # filter
  /\ filter' = typed /\ page' = 1 /\ chosen' = chosen \cup {<<typed, 1>>}
  /\ Render(<<typed, 1>>, cache, stale, asked)
  /\ UNCHANGED <<kind, there, used, post, walk, typed, events>>

ReadList(k) ==
  /\ asked[k] = Sent
  /\ asked' = [asked EXCEPT ![k] = OffsetPage(k)]
  /\ UNCHANGED <<kind, there, used, post, walk, page, typed, filter, known, cache, failed, stale,
                 bridge, lastKey, chosen, events>>

ListArrives(k) ==
  /\ asked[k] \notin {Nil, Sent}
  /\ LET c == [cache EXCEPT ![k] = asked[k]]
         f == failed \ {k}
     IN cache' = c /\ failed' = f /\ Return(Key, c, f)
  /\ asked' = [asked EXCEPT ![k] = Nil] /\ stale' = stale \ {k}
  /\ UNCHANGED <<kind, there, used, post, walk, page, typed, filter, chosen, events>>

ListFails(k) ==
  /\ Event /\ asked[k] # Nil
  /\ asked' = [asked EXCEPT ![k] = Nil] /\ failed' = failed \cup {k}
  /\ Return(Key, cache, failed \cup {k})
  /\ UNCHANGED <<kind, there, used, post, walk, page, typed, filter, cache, stale, chosen>>

\* Retry of the page that failed.
RetryList ==
  /\ Event /\ kind = "pager" /\ PagerScreen = "error"
  /\ Render(Key, cache, stale \cup {Key}, asked)
  /\ UNCHANGED <<kind, there, used, post, walk, page, typed, filter, chosen>>

\* A row of the page is removed.
RemoveRow(r) ==
  /\ Event /\ kind = "pager" /\ PagerScreen = "rows" /\ post.pc = "idle"
  /\ r \in cache[Key].items
  /\ post' = [pc |-> "sent", row |-> r]
  /\ UNCHANGED <<kind, there, used, walk, pager>>

\* Without a row there is a 404, and the page stays as it is.
RemoveCommits ==
  /\ kind = "pager" /\ post.pc = "sent"
  /\ there' = there \ {post.row}
  /\ post' = IF post.row \in there THEN [post EXCEPT !.pc = "saved"]
                                   ELSE [pc |-> "idle", row |-> Nil]
  /\ UNCHANGED <<kind, used, walk, pager, events>>

\* onSuccess: every list is stale, and the one on the screen is asked for
\* again; its first load runs on.
RemoveAnswered ==
  /\ kind = "pager" /\ post.pc = "saved"
  /\ post' = [pc |-> "idle", row |-> Nil]
  /\ Render(Key, cache, {k \in Keys : cache[k] # Nil},
            IF cache[Key] = Nil THEN asked ELSE [asked EXCEPT ![Key] = Nil])
  /\ UNCHANGED <<kind, there, used, walk, page, typed, filter, chosen, events>>

-----------------------------------------------------------------------------
(* Everyone else.                                                          *)

PeerCreates(r) ==
  /\ Event /\ r \notin used
  /\ there' = there \cup {r} /\ used' = used \cup {r}
  /\ UNCHANGED <<kind, post, walk, pager>>

PeerDeletes(r) ==
  /\ Event /\ r \in there
  /\ there' = there \ {r}
  /\ steady' = steady \ {r}
  /\ UNCHANGED <<kind, used, data, fetch, more, error, post, missing, pager>>

Init ==
  /\ kind \in {"tasks", "comments", "history", "pager"}
  /\ there = Seed /\ used = Seed
  /\ data = <<>> /\ more = FALSE /\ error = FALSE
  /\ fetch = IF kind = "pager" THEN NoFetch ELSE Load(1)
  /\ post = [pc |-> "idle", row |-> Nil]
  /\ page = 1 /\ typed = "all" /\ filter = "all" /\ known = 0
  /\ cache = [k \in Keys |-> Nil]
  /\ asked = [k \in Keys |-> IF kind = "pager" /\ k = <<"all", 1>> THEN Sent ELSE Nil]
  /\ failed = {} /\ stale = {} /\ bridge = Nil /\ lastKey = Nil
  /\ steady = {} /\ missing = {} /\ chosen = {<<"all", 1>>}
  /\ events = 0

\* Nothing is under way.
Quiet == /\ fetch.op = "none" /\ post.pc \notin {"sent", "saved"}
         /\ \A k \in Keys : asked[k] = Nil
         /\ typed = filter

Rest == Quiet /\ UNCHANGED vars

Next == \/ ReadPage \/ PageArrives \/ RequestFails \/ LoadMore \/ Reload
        \/ Post \/ PostCommits \/ PostAnswered
        \/ Previous \/ NextPage \/ Debounced \/ RetryList
        \/ \E f \in Filters : Type(f)
        \/ \E k \in Keys : ReadList(k) \/ ListArrives(k) \/ ListFails(k)
        \/ RemoveCommits \/ RemoveAnswered
        \/ \E r \in Rows : RemoveRow(r) \/ PeerCreates(r) \/ PeerDeletes(r)
        \/ Rest

Spec == Init /\ [][Next]_vars

-----------------------------------------------------------------------------
(* Properties.                                                             *)

Cursors == {CursorOf(r) : r \in Rows} \cup {Nil}
IsPage(p) == p.items \subseteq Rows /\ p.next \in Cursors
IsAnswer(a) == a = Nil \/ (a.items \subseteq Rows /\ a.pages \in Nat \ {0})

TypeOK ==
  /\ kind \in {"tasks", "comments", "history", "pager"}
  /\ there \subseteq used /\ used \subseteq Rows
  /\ \A i \in DOMAIN data : IsPage(data[i])
  /\ fetch.op \in {"none", "pages", "more"} /\ fetch.want \in Nat
  /\ \A i \in DOMAIN fetch.got : IsPage(fetch.got[i])
  /\ fetch.read = Nil \/ IsPage(fetch.read)
  /\ more \in BOOLEAN /\ error \in BOOLEAN
  /\ post.pc \in {"idle", "sent", "saved", "done"} /\ post.row \in Rows \cup {Nil}
  /\ page \in 1..MaxPage /\ typed \in Filters /\ filter \in Filters /\ known \in Nat
  /\ \A k \in Keys : IsAnswer(cache[k])
  /\ failed \subseteq Keys /\ stale \subseteq Keys
  /\ IsAnswer(bridge) /\ lastKey \in Keys \cup {Nil}
  /\ steady \subseteq there /\ events \in 0..MaxEvents

\* The pages of a walk fit together: none shows a row of another, and no row
\* that was there all along is skipped between the first and the last shown.
\* Rows of one instant, rows deleted under a cursor and refetches of several
\* pages are what could break it.
WalkIsExact ==
  /\ \A i, j \in DOMAIN data : i < j =>
       \A r \in data[i].items, q \in data[j].items : Precedes(r, q)
  /\ data # <<>> => \A r \in steady :
       r \in Shown \/ (HasNext /\ Precedes(LastOf(Shown), r))

\* What the user added is among the rows shown, or comes after the last of them
\* and behind Load more, once everything has settled, unless a request failed, a
\* first load was overtaken, or Load more took the place of the refetch
\* (`missing`).
PostedIsReachable ==
  Quiet /\ post.pc = "done" /\ post.row \in there \ missing =>
    \/ WalkScreen = "rows" /\ post.row \in Shown
    \/ HasNext /\ CanLoadMore /\ Precedes(LastOf(Shown), post.row)

\* Nothing is asked of the server, nor kept, for a search and a page that the
\* user did not choose together: while the search is debounced and the page
\* reset, no request goes out for the new search at the old page.
FilterResetsPage ==
  \A k \in Keys : asked[k] # Nil \/ cache[k] # Nil => k \in chosen

\* An error does not take the pager away, in this order or any: it goes only when
\* an answer counts a single page, and that is the answer of the page on the
\* screen or of the last one that had any.
PagerSurvivesErrors ==
  [][PagerShown /\ ~PagerShown' =>
       \E k \in {Key', lastKey'} \ {Nil} : cache'[k] # Nil /\ cache'[k].pages = 1]_vars
=============================================================================
