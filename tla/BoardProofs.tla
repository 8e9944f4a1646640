----------------------------- MODULE BoardProofs -----------------------------
(***************************************************************************)
(* Theorems about Board for any tasks, any columns, any number of own      *)
(* updates in flight and any bound.                                        *)
(***************************************************************************)
EXTENDS Board, FiniteSetTheorems, TLAPS

-----------------------------------------------------------------------------
(* Types.                                                                  *)

Lists == (SUBSET Card) \cup {Nil}
Fetches == [pc : {"idle", "asked", "read"}, rows : SUBSET Card]
Muts == [pc : {"free", "asked", "done", "failed"},
         kind : {"none", "drag", "edit", "delete", "create"},
         task : Tasks \cup {Nil}, to : Statuses, v : Versions,
         prev : [Statuses -> Lists], alone : BOOLEAN]
News == [task : Tasks, s : Statuses \cup {Gone}, v : Versions]
Details == [s : Statuses, v : Versions]

ServerType == at \in [Tasks -> Fresh..Gone] /\ ver \in [Tasks -> Versions]
ListType ==
  /\ col \in [Statuses -> Lists] /\ fetch \in [Statuses -> Fetches]
  /\ \A s \in Statuses : /\ col[s] # Nil => \A c \in col[s] : c.s = s
                         /\ \A c \in fetch[s].rows : c.s = s

\* An update that is under way is of a kind, and of a task unless it creates one.
Sound(x) ==
  /\ x.pc # "free" => x.kind # "none"
  /\ x.pc = "asked" => (x.kind = "create" <=> x.task = Nil)
  /\ x.pc = "done" => x.task # Nil
  /\ \A s \in Statuses : x.prev[s] # Nil => \A c \in x.prev[s] : c.s = s

MutType == mut \in [Slots -> Muts] /\ \A m \in Slots : Sound(mut[m])
OtherType ==
  /\ detail \in [Tasks -> Details \cup {Nil}] /\ news \subseteq News /\ inRoom \in BOOLEAN
  /\ gap \subseteq Statuses /\ behind \subseteq Tasks /\ events \in 0..MaxEvents

\* A task has been written at most once for every event, less the updates
\* that have not been.
Waiting == {m \in Slots : mut[m].pc = "asked"}
VersionsInv == \A t \in Tasks : ver[t] + Cardinality(Waiting) <= events

TypeInv == ServerType /\ ListType /\ MutType /\ OtherType /\ VersionsInv

-----------------------------------------------------------------------------
(* The inductive invariant of the lists.                                   *)

Flying(m) == mut[m].pc \in {"asked", "failed"}

\* A change or a rollback is still to come that has the lists fetched again,
\* or puts them on record.
Unsettled ==
  \/ news # {}
  \/ \E m \in Slots : mut[m].pc = "done"
  \/ \E m \in Slots : Flying(m) /\ mut[m].kind \in {"drag", "edit"} /\ ~mut[m].alone

\* The only drag in flight that can be rolled back cleanly.
Clean(m) == Flying(m) /\ Optimistic(m) /\ mut[m].alone

\* The list is right, and so is the snapshot a clean rollback restores; while
\* there is such a drag the list itself shows what is not saved yet.
Right(s) ==
  /\ \A m \in Slots : Clean(m) => mut[m].prev[s] = Cards(s)
  /\ (\A m \in Slots : ~Clean(m)) => col[s] = Cards(s)

ListInv(s) ==
  \/ fetch[s].pc = "asked"
  \/ fetch[s].pc = "read" /\ fetch[s].rows = Cards(s)
  \/ fetch[s].pc = "idle" /\ Right(s)

ListsInv == Unsettled \/ \A s \in Statuses \ gap : ListInv(s)

-----------------------------------------------------------------------------
(* The inductive invariant of the details.                                 *)

\* A task that was never created has left no trace.
FreshInv ==
  \A t \in Tasks : at[t] = Fresh =>
    /\ detail[t] = Nil
    /\ \A s \in Statuses : col[s] # Nil => \A c \in col[s] : c.task # t
    /\ \A s \in Statuses : \A c \in fetch[s].rows : c.task # t
    /\ \A m \in Slots :
         /\ mut[m].task # t
         /\ \A s \in Statuses : mut[m].prev[s] # Nil => \A c \in mut[m].prev[s] : c.task # t
    /\ \A n \in news : n.task # t

\* What says the newest version says the truth.
NewsInv == \A n \in news : n.v <= ver[n.task] /\ (n.v = ver[n.task] => n.s = at[n.task])
AnswerInv ==
  \A m \in Slots : mut[m].pc = "done" =>
    /\ mut[m].v <= ver[mut[m].task]
    /\ mut[m].kind \in {"drag", "edit"} /\ mut[m].v = ver[mut[m].task]
         => mut[m].to = at[mut[m].task]

DetailInv(t) ==
  \/ detail[t] = Nil
  \/ detail[t] = [s |-> at[t], v |-> ver[t]]
  \/ Underway(t)
  \/ detail[t].v = ver[t] /\ Moving(t, detail[t].s)

DetailsInv == \A t \in Tasks \ behind : DetailInv(t)

BoardInv == TypeInv /\ ListsInv /\ FreshInv /\ NewsInv /\ AnswerInv /\ DetailsInv

-----------------------------------------------------------------------------
(* The operators.                                                          *)

\* The rows of a column are cards of it, and a list.
LEMMA CardsAreList ==
  ASSUME ServerType, NEW s \in Statuses
  PROVE  /\ Cards(s) \in SUBSET Card /\ Cards(s) # Nil
         /\ \A c \in Cards(s) : c.s = s /\ c.task \in Tasks /\ at[c.task] = s
<1>1. Cards(s) \in SUBSET Card
  BY DEF Cards, Card, ServerType
<1>2. Cards(s) # Nil
  BY <1>1, NilAssumption DEF Card, Versions
<1> QED
  BY <1>1, <1>2 DEF Cards

\* No list is undefined.
LEMMA ListsAreNotNil == \A rows \in SUBSET Card : rows # Nil
  BY NilAssumption DEF Card, Versions

\* The statuses, and what is none of them.
LEMMA StatusFacts ==
  /\ Statuses \subseteq Nat /\ Fresh \notin Statuses /\ Gone \notin Statuses /\ Gone # Fresh
  /\ Statuses \subseteq Fresh..Gone /\ Gone \in Fresh..Gone /\ Fresh \in Fresh..Gone
  /\ 1 \in Statuses /\ 0 \in Versions /\ Nil \notin Tasks
  BY BoardAssumption DEF Statuses, Fresh, Gone, Versions

\* The cards on the screen.
LEMMA ShownCards ==
  ASSUME ListType
  PROVE  /\ Shown \subseteq Card
         /\ \A c \in Shown : \E s \in Statuses : col[s] # Nil /\ c \in col[s]
<1>1. \A s \in Statuses : col[s] # Nil => col[s] \in SUBSET Card
  BY DEF ListType, Lists
<1> QED
  BY <1>1 DEF Shown

\* A move leaves lists of cards, of tasks that had cards.
LEMMA MovedLists ==
  ASSUME ListType, NEW t, NEW to \in Statuses
  PROVE  /\ Moved(t, to) \in [Statuses -> Lists]
         /\ \A s \in Statuses : Moved(t, to)[s] # Nil => \A c \in Moved(t, to)[s] :
              /\ c.s = s
              /\ \E r \in Statuses : col[r] # Nil /\ \E d \in col[r] : d.task = c.task
<1> DEFINE mine == {c \in Shown : c.task = t}
           moved == {[c EXCEPT !.s = to] : c \in {d \in mine : \A e \in mine : d.s >= e.s}}
           list(s) == {c \in col[s] : c.task # t} \cup (IF s = to THEN moved ELSE {})
<1>1. Moved(t, to) = [s \in Statuses |-> IF col[s] = Nil THEN Nil ELSE list(s)]
  BY DEF Moved
<1>2. ASSUME NEW c \in moved
      PROVE  c \in Card /\ c.s = to /\ c.task = t
  <2>1. PICK d \in Shown : d.task = t /\ c = [d EXCEPT !.s = to]
    OBVIOUS
  <2>2. d \in Card
    BY ShownCards
  <2> QED
    BY <2>1, <2>2 DEF Card
<1>3. ASSUME NEW c \in moved
      PROVE  \E r \in Statuses : col[r] # Nil /\ \E d \in col[r] : d.task = t
  <2>1. PICK d \in Shown : d.task = t
    BY <1>3
  <2> QED
    BY <2>1, ShownCards
<1> HIDE DEF moved
<1>4. ASSUME NEW s \in Statuses, col[s] # Nil
      PROVE  /\ list(s) \in SUBSET Card
             /\ \A c \in list(s) :
                  /\ c.s = s
                  /\ \E r \in Statuses : col[r] # Nil /\ \E d \in col[r] : d.task = c.task
  <2>1. col[s] \in SUBSET Card /\ \A c \in col[s] : c.s = s
    BY <1>4 DEF ListType, Lists
  <2>2. ASSUME NEW c \in list(s)
        PROVE  /\ c \in Card /\ c.s = s
               /\ \E r \in Statuses : col[r] # Nil /\ \E d \in col[r] : d.task = c.task
    <3>1. CASE c \in col[s]
      BY <3>1, <2>1, <1>4
    <3>2. CASE s = to /\ c \in moved
      BY <3>2, <1>2, <1>3
    <3> QED
      BY <2>2, <3>1, <3>2
  <2> QED
    BY <2>2
<1> HIDE DEF list
<1> QED
  BY <1>1, <1>4 DEF Lists

\* What no update may count on any more changes in nothing else.
LEMMA DisturbKeeps ==
  ASSUME NEW x \in Muts
  PROVE  /\ Disturb(x) \in Muts /\ ~Disturb(x).alone
         /\ Disturb(x).pc = x.pc /\ Disturb(x).kind = x.kind /\ Disturb(x).task = x.task
         /\ Disturb(x).to = x.to /\ Disturb(x).v = x.v /\ Disturb(x).prev = x.prev
         /\ Sound(x) => Sound(Disturb(x))
  BY DEF Disturb, Muts, Sound

\* A free slot.
LEMMA NoMutIsSound == NoMut \in Muts /\ Sound(NoMut) /\ NoMut.pc = "free" /\ NoMut.task = Nil
<1>1. [s \in Statuses |-> Nil] \in [Statuses -> Lists]
  BY DEF Lists
<1> QED
  BY <1>1, StatusFacts DEF NoMut, Muts, Sound

\* An update that starts.
LEMMA StartIsSound ==
  ASSUME ListType, NEW m, NEW kind \in {"drag", "edit", "delete", "create"},
         NEW t \in Tasks \cup {Nil}, kind = "create" <=> t = Nil, NEW to \in Statuses
  PROVE  LET x == Start(m, kind, t, to) IN
         /\ x \in Muts /\ Sound(x)
         /\ x.pc = "asked" /\ x.kind = kind /\ x.task = t /\ x.to = to /\ x.v = 0
         /\ x.prev = col
         /\ x.alone <=> ~Busy /\ \A s \in Statuses : fetch[s].pc = "idle"
<1> DEFINE b == ~Busy /\ \A s \in Statuses : fetch[s].pc = "idle"
<1>1. b \in BOOLEAN
  OBVIOUS
<1>2. Start(m, kind, t, to) =
        [NoMut EXCEPT !.pc = "asked", !.kind = kind, !.task = t, !.to = to, !.prev = col,
                      !.alone = b]
  BY DEF Start
<1> HIDE DEF b
<1>3. col \in [Statuses -> Lists] /\ 0 \in Versions
  BY StatusFacts DEF ListType
<1> DEFINE x == Start(m, kind, t, to)
<1>4. x = [pc |-> "asked", kind |-> kind, task |-> t, to |-> to, v |-> 0, prev |-> col,
           alone |-> b]
  BY <1>2 DEF NoMut
<1> HIDE DEF x
<1>5. x \in Muts
  BY <1>1, <1>3, <1>4 DEF Muts
<1>6. /\ x.pc = "asked" /\ x.kind = kind /\ x.task = t /\ x.to = to /\ x.v = 0
      /\ x.prev = col /\ x.alone = b
  BY <1>4
<1>7. Sound(x)
  BY <1>6 DEF Sound, ListType
<1> QED
  BY <1>5, <1>6, <1>7 DEF b, x

\* A refetch.
LEMMA RefetchIsFetches ==
  ASSUME ListType, NEW s \in Statuses
  PROVE  /\ Refetch \in [Statuses -> Fetches]
         /\ Refetch[s] = fetch[s] \/ Refetch[s] = Asked
         /\ col[s] # Nil \/ fetch[s].pc = "idle" => Refetch[s] = Asked
         /\ Refetch[s].pc = "asked" \/ s \in Overtaken
<1>1. Asked \in Fetches /\ Asked.pc = "asked"
  BY DEF Asked, Fetches
<1>2. fetch \in [Statuses -> Fetches] /\ fetch[s].pc \in {"idle", "asked", "read"}
  BY DEF ListType, Fetches
<1> QED
  BY <1>1, <1>2 DEF Refetch, Overtaken

\* The updates that wait can be counted.
LEMMA SlotsFinite ==
  ASSUME NEW S \in SUBSET Slots
  PROVE  IsFiniteSet(S) /\ Cardinality(S) \in Nat
<1>1. IsFiniteSet(Slots)
  BY BoardAssumption, FS_Interval DEF Slots
<1>2. IsFiniteSet(S)
  BY <1>1, FS_Subset
<1> QED
  BY <1>2, FS_CardinalityType

\* No more waiting updates, and no write: the count of the versions holds.
LEMMA VersionsKept ==
  ASSUME TypeInv, UNCHANGED ver, Waiting' \subseteq Waiting,
         events' \in Nat, events <= events'
  PROVE  VersionsInv'
<1>1. Cardinality(Waiting') <= Cardinality(Waiting)
  <2>1. IsFiniteSet(Waiting)
    BY SlotsFinite DEF Waiting
  <2> QED
    BY <2>1, FS_Subset
<1>2. Waiting \in SUBSET Slots /\ Waiting' \in SUBSET Slots
  BY DEF Waiting
<1>3. Cardinality(Waiting) \in Nat /\ Cardinality(Waiting') \in Nat
  BY <1>2, SlotsFinite
<1>4. \A t \in Tasks : ver[t] \in Nat /\ ver[t] + Cardinality(Waiting) <= events
  BY BoardAssumption DEF TypeInv, ServerType, VersionsInv, Versions
<1>5. events \in Nat
  BY BoardAssumption DEF TypeInv, OtherType
<1>6. \A t \in Tasks : ver[t] + Cardinality(Waiting') <= events'
  BY <1>1, <1>3, <1>4, <1>5
<1> QED
  BY <1>6 DEF VersionsInv

\* The bound.
LEMMA EventsBounded ==
  ASSUME TypeInv, Event \/ UNCHANGED events
  PROVE  events' \in 0..MaxEvents /\ events' \in Nat /\ events <= events'
  BY BoardAssumption DEF TypeInv, OtherType, Event

\* A slot is given a new content, and the others stay or are disturbed.
LEMMA SlotsStaySound ==
  ASSUME MutType, NEW m \in Slots, NEW x \in Muts, Sound(x),
         \/ mut' = [mut EXCEPT ![m] = x]
         \/ mut' = [n \in Slots |-> IF n = m THEN x ELSE Disturb(mut[n])]
  PROVE  /\ MutType' /\ mut'[m] = x
         /\ \A n \in Slots \ {m} :
              /\ mut'[n].pc = mut[n].pc /\ mut'[n].kind = mut[n].kind
              /\ mut'[n].task = mut[n].task /\ mut'[n].to = mut[n].to
              /\ mut'[n].v = mut[n].v /\ mut'[n].prev = mut[n].prev
              /\ mut'[n].alone => mut[n].alone
<1>1. \A n \in Slots : mut[n] \in Muts /\ Sound(mut[n])
  BY DEF MutType
<1>2. mut'[m] = x /\ \A n \in Slots \ {m} : mut'[n] = mut[n] \/ mut'[n] = Disturb(mut[n])
  BY DEF MutType
<1>3. \A n \in Slots : mut'[n] \in Muts /\ Sound(mut'[n])
  BY <1>1, <1>2, DisturbKeeps
<1>4. mut' \in [Slots -> Muts]
  BY <1>3 DEF MutType
<1> QED
  BY <1>1, <1>2, <1>3, <1>4, DisturbKeeps DEF MutType

\* Nothing of the server, the updates and the news changes: what was underway
\* is, and what was said is still true.
LEMMA SaidIsSaid ==
  ASSUME BoardInv, UNCHANGED <<server, mut, news>>
  PROVE  /\ NewsInv' /\ AnswerInv' /\ (Unsettled' <=> Unsettled)
         /\ Waiting' = Waiting /\ MutType' /\ ServerType'
         /\ \A t \in Tasks : Underway(t)' <=> Underway(t)
         /\ \A t, s : Moving(t, s)' <=> Moving(t, s)
         /\ \A s : Cards(s)' = Cards(s)
         /\ \A m : Clean(m)' <=> Clean(m)
         /\ UNCHANGED <<at, ver>>
<1>1. UNCHANGED <<at, ver, mut, news>>
  BY DEF server
<1> QED
  BY <1>1
  DEF BoardInv, NewsInv, AnswerInv, Unsettled, Flying, Waiting, TypeInv, MutType, ServerType,
      Underway, Moving, Cards, Clean, Optimistic

-----------------------------------------------------------------------------
(* The steps.                                                              *)

\* A list is read.
LEMMA ReadInv ==
  ASSUME BoardInv, NEW s \in Statuses, Read(s)
  PROVE  BoardInv'
<1> USE DEF BoardInv, TypeInv
<1>1. /\ fetch[s].pc = "asked" /\ fetch' = [fetch EXCEPT ![s] = [pc |-> "read", rows |-> Cards(s)]]
      /\ UNCHANGED <<server, at, ver, col, detail, mut, inRoom, news, gap, behind, events>>
  BY DEF Read, ghosts, server
<1>2. Cards(s) \in SUBSET Card /\ \A c \in Cards(s) : c.s = s /\ c.task \in Tasks /\ at[c.task] = s
  BY CardsAreList
<1>3. /\ fetch'[s].pc = "read" /\ fetch'[s].rows = Cards(s)
      /\ \A r \in Statuses \ {s} : fetch'[r] = fetch[r]
      /\ fetch' \in [Statuses -> Fetches]
  BY <1>1, <1>2 DEF ListType, Fetches
<1>4. TypeInv'
  <2>1. ListType'
    BY <1>1, <1>2, <1>3 DEF ListType
  <2>2. OtherType'
    BY <1>1 DEF OtherType
  <2>3. VersionsInv'
    BY <1>1, SaidIsSaid, VersionsKept, EventsBounded
  <2> QED
    BY <1>1, <2>1, <2>2, <2>3, SaidIsSaid
<1>5. ListsInv'
  <2>1. \A r \in Statuses \ {s} : ListInv(r)' <=> ListInv(r)
    BY <1>1, <1>3, SaidIsSaid DEF ListInv, Right
  <2>2. ListInv(s)'
    BY <1>1, <1>3, SaidIsSaid DEF ListInv
  <2> QED
    BY <1>1, <2>1, <2>2, SaidIsSaid DEF ListsInv
<1>6. FreshInv'
  BY <1>1, <1>2, <1>3, StatusFacts DEF FreshInv
<1>7. DetailsInv'
  BY <1>1, SaidIsSaid DEF DetailsInv, DetailInv
<1> QED
  BY <1>1, <1>4, <1>5, <1>6, <1>7, SaidIsSaid

\* A fetch fails, or a column is tried again.
LEMMA FetchFailsInv ==
  ASSUME BoardInv, NEW s \in Statuses, FetchFails(s) \/ RetryColumn(s)
  PROVE  BoardInv'
<1> USE DEF BoardInv, TypeInv
<1>1. /\ Event /\ (fetch' = [fetch EXCEPT ![s] = Idle] \/ fetch' = [fetch EXCEPT ![s] = Asked])
      /\ gap' = gap \cup {s}
      /\ UNCHANGED <<server, at, ver, col, detail, mut, inRoom, news, behind>>
  BY DEF FetchFails, RetryColumn, ghosts, server
<1>2. Idle \in Fetches /\ Asked \in Fetches /\ Idle.rows = {} /\ Asked.rows = {}
  BY DEF Idle, Asked, Fetches
<1>3. /\ fetch' \in [Statuses -> Fetches] /\ fetch'[s].rows = {}
      /\ \A r \in Statuses \ {s} : fetch'[r] = fetch[r]
  BY <1>1, <1>2 DEF ListType
<1>4. TypeInv'
  <2>1. ListType'
    BY <1>1, <1>3 DEF ListType
  <2>2. OtherType'
    BY <1>1, EventsBounded DEF OtherType
  <2>3. VersionsInv'
    BY <1>1, SaidIsSaid, VersionsKept, EventsBounded
  <2> QED
    BY <1>1, <2>1, <2>2, <2>3, SaidIsSaid
<1>5. ListsInv'
  <2>1. \A r \in Statuses \ {s} : ListInv(r)' <=> ListInv(r)
    BY <1>1, <1>3, SaidIsSaid DEF ListInv, Right
  <2> QED
    BY <1>1, <2>1, SaidIsSaid DEF ListsInv
<1>6. FreshInv'
  BY <1>1, <1>3 DEF FreshInv
<1>7. DetailsInv'
  BY <1>1, SaidIsSaid DEF DetailsInv, DetailInv
<1> QED
  BY <1>1, <1>4, <1>5, <1>6, <1>7, SaidIsSaid

\* A list is shown: no clean update is left.
LEMMA DeliverInv ==
  ASSUME BoardInv, NEW s \in Statuses, Deliver(s)
  PROVE  BoardInv'
<1> USE DEF BoardInv, TypeInv
<1>1. /\ fetch[s].pc = "read" /\ col' = [col EXCEPT ![s] = fetch[s].rows]
      /\ fetch' = [fetch EXCEPT ![s] = Idle]
      /\ mut' = [m \in Slots |-> Disturb(mut[m])]
      /\ gap' = IF fetch[s].rows = Cards(s) THEN gap \ {s} ELSE gap
      /\ UNCHANGED <<at, ver, detail, inRoom, news, behind, events>>
  BY DEF Deliver, server
<1>2. Idle \in Fetches /\ Idle.rows = {} /\ Idle.pc = "idle"
  BY DEF Idle, Fetches
<1>3. /\ fetch' \in [Statuses -> Fetches] /\ fetch'[s] = Idle
      /\ \A r \in Statuses \ {s} : fetch'[r] = fetch[r]
      /\ fetch[s].rows \in SUBSET Card /\ col' \in [Statuses -> Lists]
      /\ col'[s] = fetch[s].rows /\ \A r \in Statuses \ {s} : col'[r] = col[r]
  BY <1>1, <1>2 DEF ListType, Fetches, Lists
<1>4. \A m \in Slots : /\ mut[m] \in Muts /\ Sound(mut[m])
                       /\ mut'[m] \in Muts /\ Sound(mut'[m]) /\ ~mut'[m].alone
                       /\ mut'[m].pc = mut[m].pc /\ mut'[m].kind = mut[m].kind
                       /\ mut'[m].task = mut[m].task /\ mut'[m].to = mut[m].to
                       /\ mut'[m].v = mut[m].v /\ mut'[m].prev = mut[m].prev
  BY <1>1, DisturbKeeps DEF MutType
<1>5. MutType' /\ Waiting' = Waiting
  BY <1>1, <1>4 DEF MutType, Waiting
<1>6. TypeInv'
  <2>1. ListType'
    BY <1>1, <1>2, <1>3 DEF ListType
  <2>2. OtherType' /\ ServerType'
    BY <1>1 DEF OtherType, ServerType
  <2>3. VersionsInv'
    BY <1>1, <1>5, VersionsKept, EventsBounded
  <2> QED
    BY <1>5, <2>1, <2>2, <2>3
<1>7. ListsInv'
  <2>1. Unsettled => Unsettled'
    BY <1>1, <1>4 DEF Unsettled, Flying
  <2>2. CASE \E m \in Slots : Flying(m) /\ Optimistic(m)
    BY <1>4, <2>2 DEF ListsInv, Unsettled, Flying, Optimistic
  <2>3. CASE ~Unsettled /\ ~\E m \in Slots : Flying(m) /\ Optimistic(m)
    <3>1. \A m \in Slots : ~Clean(m) /\ ~Clean(m)'
      BY <1>4, <2>3 DEF Clean, Flying, Optimistic
    <3>2. \A r : Cards(r)' = Cards(r)
      BY <1>1 DEF Cards
    <3>3. ASSUME NEW r \in Statuses \ gap', r # s PROVE ListInv(r)'
      <4>1. ListInv(r) /\ fetch'[r] = fetch[r] /\ col'[r] = col[r]
        BY <1>1, <1>3, <2>3, <3>3 DEF ListsInv
      <4> QED
        BY <3>1, <3>2, <4>1 DEF ListInv, Right
    <3>4. ASSUME s \notin gap' PROVE ListInv(s)'
      <4>1. fetch[s].rows = Cards(s)
        BY <1>1, <2>3, <3>4 DEF ListsInv, ListInv
      <4> QED
        BY <1>2, <1>3, <3>1, <3>2, <4>1 DEF ListInv, Right
    <3> QED
      BY <3>3, <3>4 DEF ListsInv
  <2> QED
    BY <2>1, <2>2, <2>3 DEF ListsInv
<1>8. FreshInv'
  BY <1>1, <1>2, <1>3, <1>4 DEF FreshInv
<1>9. NewsInv' /\ AnswerInv'
  BY <1>1, <1>4 DEF NewsInv, AnswerInv
<1>10. DetailsInv'
  <2>1. \A t \in Tasks : Underway(t)' <=> Underway(t)
    BY <1>1, <1>4 DEF Underway
  <2>2. \A t, r : Moving(t, r)' <=> Moving(t, r)
    BY <1>4 DEF Moving
  <2> QED
    BY <1>1, <2>1, <2>2 DEF DetailsInv, DetailInv
<1> QED
  BY <1>6, <1>7, <1>8, <1>9, <1>10

\* Writing a detail: it is right, or will be put right, or is on record.
LEMMA WriteDetailInv ==
  ASSUME BoardInv, NEW t \in Tasks, NEW s \in Statuses, NEW v \in Versions,
         WriteDetail(t, s, v), UNCHANGED server,
         \A u \in Tasks : /\ Underway(u)
                          /\ u # t \/ ~(v = ver[t] /\ s = at[t])
                          => Underway(u)',
         \A u \in Tasks, r \in Statuses : Moving(u, r) => Moving(u, r)'
  PROVE  /\ DetailsInv' /\ detail' \in [Tasks -> Details \cup {Nil}] /\ behind' \subseteq Tasks
         /\ \A u \in Tasks \ {t} : detail'[u] = detail[u]
<1> USE DEF BoardInv, TypeInv, OtherType
<1>1. /\ detail' = [detail EXCEPT ![t] = [s |-> s, v |-> v]]
      /\ behind' = IF v = ver[t] /\ (s = at[t] \/ Moving(t, s)) THEN behind \ {t}
                   ELSE IF Underway(t) THEN behind ELSE behind \cup {t}
      /\ UNCHANGED <<at, ver>>
  BY DEF WriteDetail, server
<1>2. [s |-> s, v |-> v] \in Details
  BY DEF Details
<1>3. /\ detail' \in [Tasks -> Details \cup {Nil}] /\ behind' \subseteq Tasks
      /\ detail'[t] = [s |-> s, v |-> v]
      /\ \A u \in Tasks \ {t} : detail'[u] = detail[u]
  BY <1>1, <1>2
<1>4. ASSUME NEW u \in Tasks \ behind', u # t PROVE DetailInv(u)'
  <2>1. DetailInv(u) /\ detail'[u] = detail[u]
    BY <1>1, <1>3, <1>4 DEF DetailsInv
  <2>2. detail[u] # Nil => detail[u].s \in Statuses
    BY DEF Details
  <2> QED
    BY <1>1, <1>4, <2>1, <2>2 DEF DetailInv
<1>5. ASSUME t \notin behind' PROVE DetailInv(t)'
  <2>1. CASE v = ver[t] /\ s = at[t]
    BY <1>1, <1>3, <2>1 DEF DetailInv
  <2>2. CASE v = ver[t] /\ s # at[t] /\ Moving(t, s)
    BY <1>1, <1>3, <2>2 DEF DetailInv
  <2>3. CASE ~(v = ver[t] /\ (s = at[t] \/ Moving(t, s)))
    <3>1. Underway(t)
      BY <1>1, <1>5, <2>3
    <3> QED
      BY <2>3, <3>1 DEF DetailInv
  <2> QED
    BY <2>1, <2>2, <2>3
<1> QED
  BY <1>3, <1>4, <1>5 DEF DetailsInv

\* The lists and all that stands behind them are left alone.
LEMMA ListsLeft ==
  ASSUME BoardInv, UNCHANGED <<server, col, fetch, mut, news>>, gap \subseteq gap'
  PROVE  ListsInv'
<1>1. \A s \in Statuses : ListInv(s)' <=> ListInv(s)
  BY SaidIsSaid DEF ListInv, Right
<1> QED
  BY <1>1, SaidIsSaid DEF ListsInv, BoardInv

\* A card is opened.
LEMMA OpenTaskInv ==
  ASSUME BoardInv, NEW c \in Shown, OpenTask(c)
  PROVE  BoardInv'
<1> USE DEF BoardInv, TypeInv
<1>1. /\ Event /\ WriteDetail(c.task, c.s, c.v)
      /\ UNCHANGED <<server, at, ver, col, fetch, mut, inRoom, news, gap>>
  BY DEF OpenTask, server
<1>2. /\ c.task \in Tasks /\ c.s \in Statuses /\ c.v \in Versions
      /\ \E s \in Statuses : col[s] # Nil /\ c \in col[s]
  BY ShownCards DEF Card
<1>3. at[c.task] # Fresh
  BY <1>2 DEF FreshInv
<1>4. /\ DetailsInv' /\ detail' \in [Tasks -> Details \cup {Nil}] /\ behind' \subseteq Tasks
      /\ \A u \in Tasks \ {c.task} : detail'[u] = detail[u]
  BY <1>1, <1>2, WriteDetailInv, SaidIsSaid
<1>5. TypeInv'
  <2>1. ListType' /\ OtherType'
    BY <1>1, <1>4, EventsBounded DEF ListType, OtherType
  <2>2. VersionsInv'
    BY <1>1, SaidIsSaid, VersionsKept, EventsBounded
  <2> QED
    BY <1>1, <2>1, <2>2, SaidIsSaid
<1>6. FreshInv'
  BY <1>1, <1>3, <1>4 DEF FreshInv
<1> QED
  BY <1>1, <1>4, <1>5, <1>6, ListsLeft, SaidIsSaid

\* One more update waits for the server: the event that started it pays.
LEMMA OneMoreWaits ==
  ASSUME TypeInv, NEW m \in Slots, Waiting' = Waiting \cup {m}, UNCHANGED ver, Event
  PROVE  VersionsInv'
<1>1. Waiting \in SUBSET Slots /\ Waiting' \in SUBSET Slots
  BY DEF Waiting
<1>2. IsFiniteSet(Waiting) /\ Cardinality(Waiting) \in Nat /\ Cardinality(Waiting') \in Nat
  BY <1>1, SlotsFinite
<1>3. \/ Cardinality(Waiting') = Cardinality(Waiting)
      \/ Cardinality(Waiting') = Cardinality(Waiting) + 1
  BY <1>2, FS_AddElement
<1>4. \A t \in Tasks : ver[t] \in Nat /\ ver[t] + Cardinality(Waiting) <= events
  BY BoardAssumption DEF TypeInv, ServerType, VersionsInv, Versions
<1>5. events \in Nat /\ events' = events + 1
  BY BoardAssumption DEF TypeInv, OtherType, Event
<1>6. \A t \in Tasks : ver[t] + Cardinality(Waiting') <= events'
  BY <1>2, <1>3, <1>4, <1>5
<1> QED
  BY <1>6 DEF VersionsInv

\* The user moves or edits a task: what was in flight is not clean any more,
\* and this update is clean only if nothing was.
LEMMA UpdateInv ==
  ASSUME BoardInv, NEW m \in Slots, NEW kind \in {"drag", "edit"},
         NEW t \in Tasks, at[t] # Fresh, NEW to \in Statuses, Update(m, kind, t, to)
  PROVE  BoardInv'
<1> USE DEF BoardInv, TypeInv
<1> DEFINE x == Start(m, kind, t, to)
<1>1. /\ Event /\ mut[m].pc = "free"
      /\ mut' = [n \in Slots |-> IF n = m THEN x ELSE Disturb(mut[n])]
      /\ fetch' = [s \in Statuses |-> Idle]
      /\ col' = col \/ col' = Moved(t, to)
      /\ kind = "edit" /\ Filtered => col' = col
      /\ UNCHANGED <<at, ver, detail, inRoom, news, gap, behind>>
  BY DEF Update, Free, server, ghosts
<1>2. /\ x \in Muts /\ Sound(x)
      /\ x.pc = "asked" /\ x.kind = kind /\ x.task = t /\ x.to = to
      /\ x.prev = col
      /\ x.alone <=> ~Busy /\ \A s \in Statuses : fetch[s].pc = "idle"
  <2>1. /\ kind \in {"drag", "edit", "delete", "create"} /\ t \in Tasks \cup {Nil}
        /\ kind = "create" <=> t = Nil
        /\ ListType
    BY StatusFacts
  <2> HIDE DEF BoardInv, TypeInv
  <2>2. /\ x \in Muts /\ Sound(x)
        /\ x.pc = "asked" /\ x.kind = kind /\ x.task = t /\ x.to = to
        /\ x.prev = col
    BY <2>1, StartIsSound
  <2>3. x.alone <=> ~Busy /\ \A s \in Statuses : fetch[s].pc = "idle"
    BY <2>1, StartIsSound
  <2> QED
    BY <2>2, <2>3
<1> HIDE DEF x
<1>3. /\ MutType' /\ mut'[m] = x
      /\ \A n \in Slots \ {m} :
           /\ mut'[n].pc = mut[n].pc /\ mut'[n].kind = mut[n].kind
           /\ mut'[n].task = mut[n].task /\ mut'[n].to = mut[n].to
           /\ mut'[n].v = mut[n].v /\ mut'[n].prev = mut[n].prev
  BY <1>1, <1>2, SlotsStaySound
<1>4. Idle \in Fetches /\ Idle.rows = {} /\ Idle.pc = "idle"
  BY DEF Idle, Fetches
<1>5. /\ col' \in [Statuses -> Lists]
      /\ \A s \in Statuses : col'[s] # Nil => \A c \in col'[s] :
           /\ c.s = s
           /\ \E r \in Statuses : col[r] # Nil /\ \E d \in col[r] : d.task = c.task
  BY <1>1, MovedLists DEF ListType
<1>6. TypeInv'
  <2>1. ListType'
    BY <1>1, <1>4, <1>5 DEF ListType
  <2>2. OtherType' /\ ServerType'
    BY <1>1, EventsBounded DEF OtherType, ServerType
  <2>3. Waiting' = Waiting \cup {m}
    BY <1>1, <1>2, <1>3 DEF Waiting
  <2>4. VersionsInv'
    BY <1>1, <2>3, OneMoreWaits
  <2> QED
    BY <1>3, <2>1, <2>2, <2>4
<1>7. ListsInv'
  <2>1. CASE ~x.alone
    BY <1>2, <1>3, <2>1 DEF ListsInv, Unsettled, Flying
  <2>2. CASE x.alone /\ Unsettled
    <3>1. news # {}
      BY <1>2, <2>2 DEF Busy, Unsettled, Flying
    <3> QED
      BY <1>1, <3>1 DEF ListsInv, Unsettled
  <2>3. CASE x.alone /\ ~Unsettled
    <3>1. \A n \in Slots : mut[n].pc = "free"
      BY <1>2, <2>3 DEF Busy
    <3>2. \A n \in Slots \ {m} : mut'[n].pc = "free"
      BY <1>3, <3>1
    <3>3. \A s : Cards(s)' = Cards(s)
      BY <1>1 DEF Cards
    <3>4. ASSUME NEW s \in Statuses \ gap' PROVE ListInv(s)'
      <4>1. fetch[s].pc = "idle" /\ col[s] = Cards(s)
        BY <1>1, <1>2, <2>3, <3>1, <3>4 DEF ListsInv, ListInv, Right, Clean, Flying
      <4>2. \A n \in Slots : Clean(n)' => n = m
        BY <3>2 DEF Clean, Flying
      <4>3. mut'[m].prev[s] = Cards(s)
        BY <1>2, <1>3, <4>1
      <4>4. Clean(m)' \/ col' = col
        BY <1>1, <1>2, <1>3, <2>3 DEF Clean, Flying, Optimistic
      <4>5. Right(s)'
        BY <3>3, <4>1, <4>2, <4>3, <4>4 DEF Right
      <4> QED
        BY <1>1, <1>4, <4>5 DEF ListInv
    <3> QED
      BY <3>4 DEF ListsInv
  <2> QED
    BY <2>1, <2>2, <2>3
<1>8. FreshInv'
  <2>1. ASSUME NEW u \in Tasks, at[u] = Fresh
        PROVE  /\ \A s \in Statuses : col'[s] # Nil => \A c \in col'[s] : c.task # u
               /\ \A s \in Statuses : \A c \in fetch'[s].rows : c.task # u
               /\ \A n \in Slots :
                    /\ mut'[n].task # u
                    /\ \A s \in Statuses : mut'[n].prev[s] # Nil =>
                         \A c \in mut'[n].prev[s] : c.task # u
    BY <1>1, <1>2, <1>3, <1>4, <1>5, <2>1 DEF FreshInv
  <2> QED
    BY <1>1, <2>1 DEF FreshInv
<1>9. NewsInv' /\ AnswerInv'
  BY <1>1, <1>2, <1>3 DEF NewsInv, AnswerInv
<1>10. DetailsInv'
  <2>1. \A u \in Tasks : Underway(u) => Underway(u)'
    BY <1>1, <1>3 DEF Underway
  <2>2. \A u, r : Moving(u, r) => Moving(u, r)'
    BY <1>1, <1>3 DEF Moving
  <2> QED
    BY <1>1, <2>1, <2>2 DEF DetailsInv, DetailInv
<1> QED
  BY <1>6, <1>7, <1>8, <1>9, <1>10

\* A creation or a deletion is asked for: nothing is shown.
LEMMA RequestInv ==
  ASSUME BoardInv, NEW m \in Slots, NEW kind \in {"delete", "create"},
         NEW t \in Tasks \cup {Nil}, kind = "create" <=> t = Nil,
         t # Nil => at[t] # Fresh, NEW to \in Statuses, Request(m, kind, t, to)
  PROVE  BoardInv'
<1> USE DEF BoardInv, TypeInv
<1> DEFINE x == Start(m, kind, t, to)
<1>1. /\ Event /\ mut[m].pc = "free" /\ mut' = [mut EXCEPT ![m] = x]
      /\ UNCHANGED <<at, ver, col, fetch, detail, inRoom, news, gap, behind>>
  BY DEF Request, Free, server, ghosts
<1>2. /\ x \in Muts /\ Sound(x)
      /\ x.pc = "asked" /\ x.kind = kind /\ x.task = t /\ x.to = to /\ x.prev = col
  <2>1. kind \in {"drag", "edit", "delete", "create"} /\ ListType
    OBVIOUS
  <2> HIDE DEF BoardInv, TypeInv
  <2> QED
    BY <2>1, StartIsSound
<1> HIDE DEF x
<1>3. /\ MutType' /\ mut'[m] = x
      /\ \A n \in Slots \ {m} : mut'[n] = mut[n]
  BY <1>1, <1>2, SlotsStaySound DEF MutType
<1>4. TypeInv'
  <2>1. ListType' /\ ServerType'
    BY <1>1 DEF ListType, ServerType
  <2>2. OtherType'
    BY <1>1, EventsBounded DEF OtherType
  <2>3. Waiting' = Waiting \cup {m}
    BY <1>1, <1>2, <1>3 DEF Waiting
  <2>4. VersionsInv'
    BY <1>1, <2>3, OneMoreWaits
  <2> QED
    BY <1>3, <2>1, <2>2, <2>4
<1>5. ListsInv'
  <2>1. Unsettled => Unsettled'
    BY <1>1, <1>3 DEF Unsettled, Flying
  <2>2. \A n \in Slots : Clean(n)' <=> Clean(n)
    BY <1>1, <1>2, <1>3 DEF Clean, Flying, Optimistic
  <2>3. \A n \in Slots : Clean(n) => mut'[n] = mut[n]
    BY <1>1, <1>3 DEF Clean, Flying
  <2>4. \A s : Cards(s)' = Cards(s)
    BY <1>1 DEF Cards
  <2>5. \A s \in Statuses : ListInv(s) => ListInv(s)'
    BY <1>1, <2>2, <2>3, <2>4 DEF ListInv, Right
  <2> QED
    BY <1>1, <2>1, <2>5 DEF ListsInv
<1>6. FreshInv'
  <2>1. ASSUME NEW u \in Tasks, at[u] = Fresh, NEW n \in Slots
        PROVE  /\ mut'[n].task # u
               /\ \A s \in Statuses : mut'[n].prev[s] # Nil =>
                    \A c \in mut'[n].prev[s] : c.task # u
    <3>1. t # u
      BY <2>1, StatusFacts
    <3>2. CASE n = m
      <4>1. mut'[n].task = t /\ mut'[n].prev = col
        BY <3>2, <1>2, <1>3
      <4> QED
        BY <3>1, <4>1, <2>1 DEF FreshInv
    <3>3. CASE n # m
      BY <3>3, <1>3, <2>1 DEF FreshInv
    <3> QED
      BY <3>2, <3>3
  <2> QED
    BY <1>1, <2>1 DEF FreshInv
<1>7. NewsInv' /\ AnswerInv'
  BY <1>1, <1>2, <1>3 DEF NewsInv, AnswerInv
<1>8. DetailsInv'
  <2>1. \A u \in Tasks : Underway(u) => Underway(u)'
    BY <1>1, <1>3 DEF Underway
  <2>2. \A u, r : Moving(u, r) => Moving(u, r)'
    BY <1>1, <1>3 DEF Moving
  <2> QED
    BY <1>1, <2>1, <2>2 DEF DetailsInv, DetailInv
<1> QED
  BY <1>4, <1>5, <1>6, <1>7, <1>8

\* An update is refused, or its answer is lost: it has failed.
LEMMA FailInv ==
  ASSUME BoardInv, NEW m \in Slots, Refuse(m) \/ LoseAnswer(m)
  PROVE  BoardInv'
<1> USE DEF BoardInv, TypeInv
<1>1. /\ mut[m].pc \in {"asked", "done"} /\ mut[m] \in Muts /\ Sound(mut[m])
      /\ Event \/ UNCHANGED events
      /\ UNCHANGED <<server, at, ver, col, fetch, detail, inRoom, news>>
  BY DEF Refuse, LoseAnswer, MutType, server
<1>2. PICK x \in Muts :
        /\ mut' = [mut EXCEPT ![m] = x] /\ Sound(x)
        /\ x.pc = "failed" /\ x.kind = mut[m].kind /\ x.task = mut[m].task
        /\ x.to = mut[m].to /\ x.v = mut[m].v /\ x.prev = mut[m].prev
        /\ Refuse(m) => x.alone = mut[m].alone
  <2> DEFINE y == [mut[m] EXCEPT !.pc = "failed"]
             z == [mut[m] EXCEPT !.pc = "failed", !.alone = FALSE]
  <2>1. y \in Muts /\ z \in Muts
    BY <1>1 DEF Muts
  <2>2. /\ y.pc = "failed" /\ y.kind = mut[m].kind /\ y.task = mut[m].task
        /\ y.to = mut[m].to /\ y.v = mut[m].v /\ y.prev = mut[m].prev
        /\ y.alone = mut[m].alone
    BY <1>1 DEF Muts
  <2>3. /\ z.pc = "failed" /\ z.kind = mut[m].kind /\ z.task = mut[m].task
        /\ z.to = mut[m].to /\ z.v = mut[m].v /\ z.prev = mut[m].prev
    BY <1>1 DEF Muts
  <2>4. Sound(y) /\ Sound(z)
    BY <1>1, <2>2, <2>3 DEF Sound
  <2>5. Refuse(m) => mut' = [mut EXCEPT ![m] = y]
    BY DEF Refuse
  <2>6. LoseAnswer(m) => mut' = [mut EXCEPT ![m] = z] /\ ~Refuse(m)
    BY DEF LoseAnswer, Refuse
  <2> HIDE DEF y, z
  <2> QED
    BY <2>1, <2>2, <2>3, <2>4, <2>5, <2>6
<1>3. /\ MutType' /\ mut'[m] = x
      /\ \A n \in Slots \ {m} : mut'[n] = mut[n]
  BY <1>2, SlotsStaySound DEF MutType
<1>4. /\ Refuse(m) => UNCHANGED <<gap, behind>> /\ mut[m].pc = "asked"
      /\ LoseAnswer(m) => gap' = Statuses /\ behind' = behind \cup {mut[m].task}
                          /\ mut[m].task \in Tasks
  BY <1>1 DEF Refuse, LoseAnswer, ghosts, Sound, Muts
<1>5. TypeInv'
  <2>1. ListType' /\ ServerType'
    BY <1>1 DEF ListType, ServerType
  <2>2. OtherType'
    BY <1>1, <1>4, EventsBounded DEF OtherType
  <2>3. Waiting' \subseteq Waiting
    BY <1>2, <1>3 DEF Waiting
  <2>4. VersionsInv'
    BY <1>1, <2>3, VersionsKept, EventsBounded
  <2> QED
    BY <1>3, <2>1, <2>2, <2>4
<1>6. ListsInv'
  <2>1. CASE LoseAnswer(m)
    BY <1>4, <2>1 DEF ListsInv
  <2>2. CASE Refuse(m)
    <3>1. Unsettled => Unsettled'
      <4>1. \A n \in Slots : mut[n].pc = "done" => mut'[n].pc = "done"
        BY <1>3, <1>4, <2>2
      <4>2. \A n \in Slots : Flying(n) => /\ Flying(n)' /\ mut'[n].kind = mut[n].kind
                                          /\ mut'[n].alone = mut[n].alone
        BY <1>2, <1>3, <2>2 DEF Flying
      <4> QED
        BY <1>1, <4>1, <4>2 DEF Unsettled
    <3>2. \A n \in Slots : Clean(n)' <=> Clean(n)
      BY <1>2, <1>3, <1>4, <2>2 DEF Clean, Flying, Optimistic
    <3>3. \A n \in Slots : mut'[n].prev = mut[n].prev
      BY <1>2, <1>3
    <3>4. \A s : Cards(s)' = Cards(s)
      BY <1>1 DEF Cards
    <3>5. \A s \in Statuses : ListInv(s) => ListInv(s)'
      BY <1>1, <3>2, <3>3, <3>4 DEF ListInv, Right
    <3> QED
      BY <1>4, <2>2, <3>1, <3>5 DEF ListsInv
  <2> QED
    BY <2>1, <2>2
<1>7. FreshInv'
  <2>1. \A n \in Slots : mut'[n].task = mut[n].task /\ mut'[n].prev = mut[n].prev
    BY <1>2, <1>3
  <2> QED
    BY <1>1, <2>1 DEF FreshInv
<1>8. NewsInv' /\ AnswerInv'
  BY <1>1, <1>2, <1>3 DEF NewsInv, AnswerInv
<1>9. DetailsInv'
  <2>1. \A u \in Tasks \ behind' : Underway(u) => Underway(u)'
    BY <1>1, <1>3, <1>4 DEF Underway
  <2>2. \A u, r : Moving(u, r) => Moving(u, r)'
    BY <1>2, <1>3 DEF Moving
  <2>3. behind \subseteq behind'
    BY <1>4
  <2> QED
    BY <1>1, <2>1, <2>2, <2>3 DEF DetailsInv, DetailInv
<1> QED
  BY <1>5, <1>6, <1>7, <1>8, <1>9

\* A row is written.
LEMMA WriteFacts ==
  ASSUME TypeInv, NEW t \in Tasks, NEW s \in Statuses \cup {Gone}, Write(t, s)
  PROVE  /\ at' \in [Tasks -> Fresh..Gone] /\ at'[t] = s
         /\ ver' = [ver EXCEPT ![t] = @ + 1] /\ ver'[t] = ver[t] + 1
         /\ \A u \in Tasks \ {t} : at'[u] = at[u] /\ ver'[u] = ver[u]
         /\ \A u \in Tasks : ver[u] \in Nat
         /\ \A u \in Tasks : at'[u] = Fresh => at[u] = Fresh /\ u # t
<1>1. /\ at' = [at EXCEPT ![t] = s] /\ ver' = [ver EXCEPT ![t] = @ + 1]
  BY DEF Write
<1>2. /\ at \in [Tasks -> Fresh..Gone] /\ ver \in [Tasks -> Versions]
      /\ s \in Fresh..Gone /\ s # Fresh
  BY StatusFacts DEF TypeInv, ServerType
<1>3. Versions \subseteq Nat
  BY DEF Versions
<1> QED
  BY <1>1, <1>2, <1>3

\* An update commits: its answer is on the way.
LEMMA CommitInv ==
  ASSUME BoardInv, NEW m \in Slots, Commit(m)
  PROVE  BoardInv'
<1> USE DEF BoardInv, TypeInv
<1>1. PICK t \in Target(m) :
        /\ Write(t, IF mut[m].kind = "delete" THEN Gone ELSE mut[m].to)
        /\ mut' = [mut EXCEPT ![m].pc = "done", ![m].task = t, ![m].v = ver[t] + 1]
  BY DEF Commit
<1> DEFINE s == IF mut[m].kind = "delete" THEN Gone ELSE mut[m].to
           x == [mut[m] EXCEPT !.pc = "done", !.task = t, !.v = ver[t] + 1]
<1>2. /\ mut[m].pc = "asked" /\ mut[m] \in Muts /\ Sound(mut[m])
      /\ UNCHANGED <<col, fetch, detail, inRoom, news, gap, behind, events>>
  BY DEF Commit, MutType, ghosts
<1>3. /\ t \in Tasks /\ s \in Statuses \cup {Gone}
      /\ mut[m].kind = "create" => mut[m].task = Nil /\ at[t] = Fresh
      /\ mut[m].kind # "create" => mut[m].task = t /\ at[t] \in Statuses
  BY <1>2 DEF Target, Exists, Sound, Muts
<1>4. /\ at' \in [Tasks -> Fresh..Gone] /\ at'[t] = s
      /\ ver' = [ver EXCEPT ![t] = @ + 1] /\ ver'[t] = ver[t] + 1
      /\ \A u \in Tasks \ {t} : at'[u] = at[u] /\ ver'[u] = ver[u]
      /\ \A u \in Tasks : ver[u] \in Nat
      /\ \A u \in Tasks : at'[u] = Fresh => at[u] = Fresh /\ u # t
  BY <1>1, <1>3, WriteFacts
<1>5. /\ Waiting \in SUBSET Slots /\ m \in Waiting /\ IsFiniteSet(Waiting)
      /\ Cardinality(Waiting) \in Nat /\ Cardinality(Waiting \ {m}) \in Nat
      /\ events \in Nat /\ events <= MaxEvents
  BY <1>2, SlotsFinite, BoardAssumption DEF Waiting, OtherType
<1>6. Cardinality(Waiting \ {m}) = Cardinality(Waiting) - 1
  BY <1>5, FS_RemoveElement
<1>7. /\ \A u \in Tasks : ver[u] + Cardinality(Waiting) <= events
      /\ ver[t] + 1 <= events /\ ver[t] + 1 \in Versions
  BY <1>3, <1>4, <1>5, <1>6, BoardAssumption DEF VersionsInv, Versions
<1>8. /\ x \in Muts /\ x.pc = "done" /\ x.task = t /\ x.v = ver'[t] /\ x.to = mut[m].to
      /\ x.kind = mut[m].kind /\ x.prev = mut[m].prev
  BY <1>2, <1>3, <1>4, <1>7 DEF Muts
<1>9. mut' = [mut EXCEPT ![m] = x] /\ (mut[m].kind # "delete" => s = x.to)
  BY <1>1, <1>8
<1>10. Sound(x)
  BY <1>2, <1>3, <1>8, StatusFacts DEF Sound
<1> HIDE DEF x, s
<1>11. MutType' /\ mut'[m] = x /\ \A n \in Slots \ {m} : mut'[n] = mut[n]
  BY <1>8, <1>9, <1>10, SlotsStaySound DEF MutType
<1>12. TypeInv'
  <2>1. ListType' /\ OtherType'
    BY <1>2 DEF ListType, OtherType
  <2>2. Waiting' = Waiting \ {m}
    BY <1>2, <1>8, <1>11 DEF Waiting
  <2>3. \A u \in Tasks : ver'[u] + Cardinality(Waiting \ {m}) <= events
    BY <1>3, <1>4, <1>5, <1>6, <1>7
  <2>4. VersionsInv'
    BY <1>2, <2>2, <2>3 DEF VersionsInv
  <2>5. ServerType'
    <3>1. ver' \in [Tasks -> Versions]
      BY <1>4, <1>7 DEF ServerType
    <3> QED
      BY <1>4, <3>1 DEF ServerType
  <2> QED
    BY <1>11, <2>1, <2>4, <2>5
<1>13. ListsInv'
  BY <1>8, <1>11 DEF ListsInv, Unsettled
<1>14. FreshInv'
  <2>1. ASSUME NEW u \in Tasks, at'[u] = Fresh, NEW n \in Slots
        PROVE  mut'[n].task # u /\ mut'[n].prev = mut[n].prev
    BY <1>4, <1>8, <1>11, <2>1 DEF FreshInv
  <2> QED
    BY <1>2, <1>4, <2>1 DEF FreshInv
<1>15. NewsInv'
  <2>1. \A n \in news : n.task \in Tasks /\ n.v \in Nat
    BY DEF OtherType, News, Versions
  <2> QED
    BY <1>2, <1>4, <2>1 DEF NewsInv
<1>16. AnswerInv'
  <2>1. ASSUME NEW n \in Slots, n # m, mut'[n].pc = "done"
        PROVE  /\ mut'[n].v <= ver'[mut'[n].task]
               /\ mut'[n].kind \in {"drag", "edit"} /\ mut'[n].v = ver'[mut'[n].task]
                    => mut'[n].to = at'[mut'[n].task]
    <3>1. mut'[n] = mut[n] /\ mut[n].task \in Tasks /\ mut[n].v \in Nat
      BY <1>11, <2>1 DEF MutType, Muts, Sound, Versions
    <3> QED
      BY <1>4, <2>1, <3>1 DEF AnswerInv
  <2>2. /\ mut'[m].v <= ver'[mut'[m].task]
        /\ mut'[m].kind \in {"drag", "edit"} => mut'[m].to = at'[mut'[m].task]
    BY <1>3, <1>4, <1>8, <1>9, <1>11
  <2> QED
    BY <2>1, <2>2 DEF AnswerInv
<1>17. DetailsInv'
  <2>1. ASSUME NEW u \in Tasks \ behind, u # t PROVE DetailInv(u)'
    <3>1. Underway(u) => Underway(u)'
      BY <1>2, <1>4, <1>11, <2>1 DEF Underway
    <3>2. \A r : Moving(u, r) => Moving(u, r)'
      BY <1>2, <1>3, <1>11, <2>1, StatusFacts DEF Moving
    <3>3. DetailInv(u)
      BY <2>1 DEF DetailsInv
    <3> QED
      BY <1>2, <1>4, <2>1, <3>1, <3>2, <3>3 DEF DetailInv
  <2>2. DetailInv(t)'
    <3>1. CASE mut[m].kind = "create"
      BY <1>2, <1>3, <3>1 DEF FreshInv, DetailInv
    <3>2. CASE mut[m].kind # "create"
      BY <1>8, <1>11, <3>2 DEF Underway, DetailInv
    <3> QED
      BY <3>1, <3>2
  <2> QED
    BY <1>2, <2>1, <2>2 DEF DetailsInv
<1> QED
  BY <1>12, <1>13, <1>14, <1>15, <1>16, <1>17

\* A peer writes: its broadcast is on the way.
LEMMA PeerWritesInv ==
  ASSUME BoardInv, NEW t \in Tasks, PeerWrites(t)
  PROVE  BoardInv'
<1> USE DEF BoardInv, TypeInv
<1>1. PICK s \in Statuses \cup {Gone} : Write(t, s)
  BY DEF PeerWrites
<1> DEFINE new == [task |-> t, s |-> at'[t], v |-> ver'[t]]
<1>2. /\ Event /\ news' = news \cup {new}
      /\ UNCHANGED <<col, fetch, detail, mut, inRoom, gap, behind>>
  BY DEF PeerWrites, ghosts
<1>3. /\ at' \in [Tasks -> Fresh..Gone] /\ at'[t] = s
      /\ ver' = [ver EXCEPT ![t] = @ + 1] /\ ver'[t] = ver[t] + 1
      /\ \A u \in Tasks \ {t} : at'[u] = at[u] /\ ver'[u] = ver[u]
      /\ \A u \in Tasks : ver[u] \in Nat
      /\ \A u \in Tasks : at'[u] = Fresh => at[u] = Fresh /\ u # t
  BY <1>1, WriteFacts
<1>4. /\ Waiting \in SUBSET Slots /\ Cardinality(Waiting) \in Nat
      /\ events \in Nat /\ events' = events + 1 /\ events' <= MaxEvents
  BY <1>2, SlotsFinite, BoardAssumption DEF Waiting, OtherType, Event
<1>5. /\ \A u \in Tasks : ver[u] + Cardinality(Waiting) <= events
      /\ ver[t] + 1 \in Versions
  BY <1>3, <1>4, BoardAssumption DEF VersionsInv, Versions
<1>6. new \in News /\ new.task = t /\ new.s = at'[t] /\ new.v = ver'[t]
  BY <1>3, <1>5 DEF News
<1> HIDE DEF new
<1>7. TypeInv'
  <2>1. ListType' /\ MutType'
    BY <1>2 DEF ListType, MutType
  <2>2. OtherType'
    BY <1>2, <1>6, EventsBounded DEF OtherType
  <2>3. \A u \in Tasks : ver'[u] + Cardinality(Waiting) <= events'
    BY <1>3, <1>4, <1>5
  <2>4. VersionsInv'
    BY <1>2, <2>3 DEF VersionsInv, Waiting
  <2>5. ServerType'
    <3>1. ver' \in [Tasks -> Versions]
      BY <1>3, <1>5 DEF ServerType
    <3> QED
      BY <1>3, <3>1 DEF ServerType
  <2> QED
    BY <2>1, <2>2, <2>4, <2>5
<1>8. ListsInv'
  BY <1>2 DEF ListsInv, Unsettled
<1>9. FreshInv'
  BY <1>2, <1>3, <1>6 DEF FreshInv
<1>10. NewsInv'
  <2>1. \A n \in news : n.task \in Tasks /\ n.v \in Nat
    BY DEF OtherType, News, Versions
  <2>2. \A n \in news : n.v <= ver'[n.task] /\ (n.v = ver'[n.task] => n.s = at'[n.task])
    BY <1>3, <2>1 DEF NewsInv
  <2> QED
    BY <1>2, <1>3, <1>6, <2>2 DEF NewsInv
<1>11. AnswerInv'
  <2>1. \A n \in Slots : mut[n].pc = "done" => mut[n].task \in Tasks /\ mut[n].v \in Nat
    BY DEF MutType, Muts, Sound, Versions
  <2> QED
    BY <1>2, <1>3, <2>1 DEF AnswerInv
<1>12. DetailsInv'
  <2>1. ASSUME NEW u \in Tasks \ behind, u # t PROVE DetailInv(u)'
    <3>1. Underway(u) => Underway(u)'
      BY <1>2, <1>3, <2>1 DEF Underway
    <3>2. \A r : Moving(u, r) => Moving(u, r)'
      BY <1>2 DEF Moving
    <3>3. DetailInv(u)
      BY <2>1 DEF DetailsInv
    <3> QED
      BY <1>2, <1>3, <2>1, <3>1, <3>2, <3>3 DEF DetailInv
  <2>2. DetailInv(t)'
    BY <1>2, <1>6 DEF Underway, DetailInv
  <2> QED
    BY <1>2, <2>1, <2>2 DEF DetailsInv
<1> QED
  BY <1>7, <1>8, <1>9, <1>10, <1>11, <1>12

\* The lists are refetched, or are on record.
LEMMA InvalidateLists ==
  ASSUME TypeInv, Invalidate, UNCHANGED col
  PROVE  /\ ListType' /\ gap \subseteq gap' /\ gap' \subseteq Statuses
         /\ \A s \in Statuses \ gap' : fetch'[s].pc = "asked"
         /\ \A s \in Statuses : fetch'[s].rows = fetch[s].rows \/ fetch'[s].rows = {}
<1> USE DEF TypeInv
<1>1. fetch' = Refetch /\ gap' = gap \cup Overtaken
  BY DEF Invalidate
<1>2. Asked.rows = {}
  BY DEF Asked
<1>3. \A s \in Statuses : fetch'[s] = fetch[s] \/ fetch'[s] = Asked
  BY <1>1, RefetchIsFetches
<1>4. fetch' \in [Statuses -> Fetches]
  <2>1. Refetch \in [Statuses -> Fetches]
    <3>1. 1 \in Statuses
      BY StatusFacts
    <3> QED
      BY <3>1, RefetchIsFetches
  <2> QED
    BY <1>1, <2>1
<1>5. \A s \in Statuses \ gap' : fetch'[s].pc = "asked"
  BY <1>1, RefetchIsFetches
<1>6. ListType'
  BY <1>2, <1>3, <1>4 DEF ListType
<1>7. Overtaken \subseteq Statuses /\ gap \subseteq Statuses
  BY DEF Overtaken, OtherType
<1> QED
  BY <1>1, <1>2, <1>3, <1>5, <1>6, <1>7

\* An update is answered.
LEMMA SettledInv ==
  ASSUME BoardInv, NEW m \in Slots, Settled(m)
  PROVE  BoardInv'
<1> USE DEF BoardInv, TypeInv
<1>1. /\ mut[m].pc = "done" /\ mut' = [mut EXCEPT ![m] = NoMut] /\ Invalidate
      /\ CASE mut[m].kind = "create" -> UNCHANGED <<detail, behind>>
           [] mut[m].kind = "delete" -> RemoveDetail(mut[m].task)
           [] OTHER -> WriteDetail(mut[m].task, mut[m].to, mut[m].v)
      /\ UNCHANGED <<server, at, ver, col, inRoom, news, events>>
  BY DEF Settled, Done, server
<1> DEFINE t == mut[m].task
<1>2. /\ mut[m] \in Muts /\ Sound(mut[m]) /\ t \in Tasks
      /\ mut[m].kind \in {"drag", "edit", "delete", "create"}
      /\ mut[m].to \in Statuses /\ mut[m].v \in Versions
  BY <1>1 DEF MutType, Muts, Sound
<1>3. /\ MutType' /\ mut'[m] = NoMut /\ \A n \in Slots \ {m} : mut'[n] = mut[n]
  BY <1>1, NoMutIsSound, SlotsStaySound DEF MutType
<1>4. NoMut.pc = "free" /\ NoMut.task = Nil /\ \A s \in Statuses : NoMut.prev[s] = Nil
  BY DEF NoMut
<1>5. /\ ListType' /\ gap \subseteq gap' /\ gap' \subseteq Statuses
      /\ \A s \in Statuses \ gap' : fetch'[s].pc = "asked"
      /\ \A s \in Statuses : fetch'[s].rows = fetch[s].rows \/ fetch'[s].rows = {}
  BY <1>1, InvalidateLists
<1>6. \A u \in Tasks : Underway(u) /\ (u # t \/ ~(mut[m].v = ver[t] /\ mut[m].to = at[t]))
                         /\ mut[m].kind \in {"drag", "edit"} => Underway(u)'
  BY <1>1, <1>3 DEF Underway, AnswerInv
<1>7. \A u, r : Moving(u, r) => Moving(u, r)'
  BY <1>1, <1>3 DEF Moving
<1>8. /\ DetailsInv' /\ detail' \in [Tasks -> Details \cup {Nil}] /\ behind' \subseteq Tasks
      /\ \A u \in Tasks \ {t} : detail'[u] = detail[u]
  <2>1. CASE mut[m].kind = "create"
    <3>1. UNCHANGED <<detail, behind>>
      BY <1>1, <2>1
    <3>2. \A u \in Tasks : Underway(u) => Underway(u)'
      BY <1>1, <1>3, <2>1 DEF Underway
    <3> QED
      BY <1>1, <1>7, <3>1, <3>2 DEF DetailsInv, DetailInv, OtherType
  <2>2. CASE mut[m].kind = "delete"
    <3>1. detail' = [detail EXCEPT ![t] = Nil] /\ behind' = behind
      BY <1>1, <2>2 DEF RemoveDetail
    <3>2. \A u \in Tasks \ {t} : Underway(u) => Underway(u)'
      BY <1>1, <1>3 DEF Underway
    <3> QED
      BY <1>1, <1>2, <1>7, <3>1, <3>2 DEF DetailsInv, DetailInv, OtherType
  <2>3. CASE mut[m].kind \in {"drag", "edit"}
    <3>1. WriteDetail(t, mut[m].to, mut[m].v)
      BY <1>1, <2>3
    <3> QED
      BY <1>1, <1>2, <1>6, <1>7, <2>3, <3>1, WriteDetailInv
  <2> QED
    BY <1>2, <2>1, <2>2, <2>3
<1>9. TypeInv'
  <2>1. OtherType' /\ ServerType'
    BY <1>1, <1>5, <1>8 DEF OtherType, ServerType
  <2>2. Waiting' \subseteq Waiting
    BY <1>3, <1>4 DEF Waiting
  <2>3. VersionsInv'
    BY <1>1, <2>2, VersionsKept, EventsBounded
  <2> QED
    BY <1>3, <1>5, <2>1, <2>3
<1>10. ListsInv'
  BY <1>5 DEF ListsInv, ListInv
<1>11. FreshInv'
  <2>1. at[t] # Fresh
    BY <1>2 DEF FreshInv
  <2>2. ASSUME NEW u \in Tasks, at[u] = Fresh, NEW n \in Slots
        PROVE  /\ mut'[n].task # u
               /\ \A s \in Statuses : mut'[n].prev[s] # Nil =>
                    \A c \in mut'[n].prev[s] : c.task # u
    BY <1>3, <1>4, <2>2, StatusFacts DEF FreshInv
  <2> QED
    BY <1>1, <1>5, <1>8, <2>1, <2>2 DEF FreshInv
<1>12. NewsInv' /\ AnswerInv'
  BY <1>1, <1>3, <1>4 DEF NewsInv, AnswerInv
<1> QED
  BY <1>8, <1>9, <1>10, <1>11, <1>12

\* A failed update is rolled back.
LEMMA RolledBackInv ==
  ASSUME BoardInv, NEW m \in Slots, RolledBack(m)
  PROVE  BoardInv'
<1> USE DEF BoardInv, TypeInv
<1>1. /\ mut[m].pc = "failed"
      /\ Optimistic(m) =>
           /\ col' = [s \in Statuses |-> IF mut[m].prev[s] = Nil THEN col[s] ELSE mut[m].prev[s]]
           /\ mut' = [n \in Slots |-> IF n = m THEN NoMut ELSE Disturb(mut[n])]
      /\ ~Optimistic(m) => mut' = [mut EXCEPT ![m] = NoMut] /\ col' = col
      /\ gap' = IF mut[m].alone \/ mut[m].kind \in {"create", "delete"} THEN gap ELSE Statuses
      /\ behind' = behind \cup {t \in {mut[m].task} \ {Nil} :
                                  detail[t] # Nil /\ detail[t].s = mut[m].to}
      /\ UNCHANGED <<at, ver, fetch, detail, inRoom, news, events>>
  BY DEF RolledBack, Done, server
<1>2. /\ mut[m] \in Muts /\ Sound(mut[m]) /\ mut[m].task \in Tasks \cup {Nil}
      /\ mut[m].kind \in {"drag", "edit", "delete", "create"}
      /\ mut[m].prev \in [Statuses -> Lists]
  BY <1>1 DEF MutType, Muts, Sound
<1>3. /\ MutType' /\ mut'[m] = NoMut
      /\ \A n \in Slots \ {m} :
           /\ mut'[n].pc = mut[n].pc /\ mut'[n].kind = mut[n].kind
           /\ mut'[n].task = mut[n].task /\ mut'[n].to = mut[n].to
           /\ mut'[n].v = mut[n].v /\ mut'[n].prev = mut[n].prev
  BY <1>1, NoMutIsSound, SlotsStaySound
<1>4. /\ Optimistic(m) => \A n \in Slots \ {m} : ~mut'[n].alone
      /\ ~Optimistic(m) => \A n \in Slots \ {m} : mut'[n] = mut[n]
  BY <1>1, DisturbKeeps DEF MutType
<1>5. NoMut.pc = "free" /\ NoMut.task = Nil /\ \A s \in Statuses : NoMut.prev[s] = Nil
  BY DEF NoMut
<1>6. /\ col' \in [Statuses -> Lists]
      /\ \A s \in Statuses : col'[s] = col[s] \/ col'[s] = mut[m].prev[s]
  <2>1. CASE Optimistic(m)
    BY <1>1, <1>2, <2>1 DEF ListType
  <2>2. CASE ~Optimistic(m)
    BY <1>1, <2>2 DEF ListType
  <2> QED
    BY <2>1, <2>2
<1>7. TypeInv'
  <2>1. ListType'
    BY <1>1, <1>2, <1>6 DEF ListType, Sound
  <2>2. OtherType' /\ ServerType'
    BY <1>1, <1>2 DEF OtherType, ServerType
  <2>3. Waiting' \subseteq Waiting
    BY <1>3, <1>5 DEF Waiting
  <2>4. VersionsInv'
    BY <1>1, <2>3, VersionsKept, EventsBounded
  <2> QED
    BY <1>3, <2>1, <2>2, <2>4
<1>8. ListsInv'
  <2>1. \A s : Cards(s)' = Cards(s)
    BY <1>1 DEF Cards
  <2>2. CASE Optimistic(m) /\ ~mut[m].alone
    <3>1. mut[m].kind \in {"drag", "edit"}
      BY <2>2 DEF Optimistic
    <3>2. gap' = Statuses
      BY <1>1, <2>2, <3>1
    <3> QED
      BY <3>2 DEF ListsInv
  <2>3. CASE Optimistic(m) /\ mut[m].alone
    <3>1. gap' = gap /\ Clean(m)
      BY <1>1, <2>3 DEF Clean, Flying
    <3>2. CASE Unsettled \/ \E n \in Slots \ {m} : Flying(n) /\ mut[n].kind \in {"drag", "edit"}
      BY <1>1, <1>3, <1>4, <2>3, <3>2 DEF ListsInv, Unsettled, Flying
    <3>3. CASE ~Unsettled /\ ~\E n \in Slots \ {m} : Flying(n) /\ mut[n].kind \in {"drag", "edit"}
      <4>1. \A n \in Slots : ~Clean(n)'
        BY <1>3, <1>5, <3>3 DEF Clean, Flying, Optimistic
      <4>2. ASSUME NEW s \in Statuses \ gap' PROVE ListInv(s)'
        <5>1. ListInv(s) /\ fetch'[s] = fetch[s]
          BY <1>1, <3>1, <3>3, <4>2 DEF ListsInv
        <5>2. Cards(s) # Nil
          BY CardsAreList
        <5>3. fetch[s].pc = "idle" => col'[s] = Cards(s)
          BY <1>1, <2>3, <3>1, <5>1, <5>2 DEF ListInv, Right
        <5> QED
          BY <2>1, <4>1, <5>1, <5>3 DEF ListInv, Right
      <4> QED
        BY <4>2 DEF ListsInv
    <3> QED
      BY <3>2, <3>3
  <2>4. CASE ~Optimistic(m) /\ (mut[m].alone \/ mut[m].kind \in {"create", "delete"})
    <3>1. gap' = gap /\ ~Clean(m)
      BY <1>1, <2>4 DEF Clean
    <3>2. Unsettled => Unsettled'
      BY <1>1, <1>4, <2>4 DEF Unsettled, Flying
    <3>3. \A n \in Slots : Clean(n)' <=> Clean(n)
      BY <1>3, <1>4, <1>5, <2>4, <3>1 DEF Clean, Flying, Optimistic
    <3>4. \A n \in Slots : Clean(n) => mut'[n].prev = mut[n].prev
      BY <1>3, <3>1
    <3>5. \A s \in Statuses : ListInv(s) => ListInv(s)'
      BY <1>1, <2>1, <2>4, <3>3, <3>4 DEF ListInv, Right
    <3> QED
      BY <3>1, <3>2, <3>5 DEF ListsInv
  <2>5. CASE ~Optimistic(m) /\ ~(mut[m].alone \/ mut[m].kind \in {"create", "delete"})
    <3>1. gap' = Statuses
      BY <1>1, <2>5
    <3> QED
      BY <3>1 DEF ListsInv
  <2> QED
    BY <2>2, <2>3, <2>4, <2>5
<1>9. FreshInv'
  <2>1. ASSUME NEW u \in Tasks, at[u] = Fresh, NEW n \in Slots
        PROVE  /\ mut'[n].task # u
               /\ \A s \in Statuses : mut'[n].prev[s] # Nil =>
                    \A c \in mut'[n].prev[s] : c.task # u
    <3>1. CASE n = m
      BY <3>1, <1>3, <1>5, StatusFacts
    <3>2. CASE n # m
      BY <3>2, <1>3, <2>1 DEF FreshInv
    <3> QED
      BY <3>1, <3>2
  <2>2. ASSUME NEW u \in Tasks, at[u] = Fresh, NEW s \in Statuses, col'[s] # Nil
        PROVE  \A c \in col'[s] : c.task # u
    BY <1>6, <2>2 DEF FreshInv
  <2> QED
    BY <1>1, <2>1, <2>2 DEF FreshInv
<1>10. NewsInv' /\ AnswerInv'
  BY <1>1, <1>3, <1>5 DEF NewsInv, AnswerInv
<1>11. DetailsInv'
  <2>1. \A u \in Tasks : Underway(u) => Underway(u)'
    BY <1>1, <1>3 DEF Underway
  <2>2. ASSUME NEW u \in Tasks \ behind', detail[u] # Nil, Moving(u, detail[u].s)
        PROVE  Moving(u, detail[u].s)'
    <3>1. ~(mut[m].task = u /\ mut[m].to = detail[u].s)
      BY <1>1, <2>2, StatusFacts
    <3> QED
      BY <1>1, <1>3, <2>2, <3>1 DEF Moving
  <2> QED
    BY <1>1, <2>1, <2>2 DEF DetailsInv, DetailInv
<1> QED
  BY <1>7, <1>8, <1>9, <1>10, <1>11

\* A broadcast is heard.
LEMMA HearInv ==
  ASSUME BoardInv, NEW n \in news, Hear(n)
  PROVE  BoardInv'
<1> USE DEF BoardInv, TypeInv
<1>1. /\ news' = news \ {n} /\ Invalidate
      /\ IF n.s = Gone THEN RemoveDetail(n.task) ELSE WriteDetail(n.task, n.s, n.v)
      /\ UNCHANGED <<server, at, ver, col, mut, inRoom, events>>
  BY DEF Hear, server
<1>2. n.task \in Tasks /\ n.s \in Statuses \cup {Gone} /\ n.v \in Versions
  BY DEF OtherType, News
<1>3. /\ ListType' /\ gap \subseteq gap' /\ gap' \subseteq Statuses
      /\ \A s \in Statuses \ gap' : fetch'[s].pc = "asked"
      /\ \A s \in Statuses : fetch'[s].rows = fetch[s].rows \/ fetch'[s].rows = {}
  BY <1>1, InvalidateLists
<1>4. \A u \in Tasks : Underway(u) /\ (u # n.task \/ ~(n.v = ver[n.task] /\ n.s = at[n.task]))
                         => Underway(u)'
  BY <1>1 DEF Underway, NewsInv
<1>5. \A u, r : Moving(u, r) => Moving(u, r)'
  BY <1>1 DEF Moving
<1>6. /\ DetailsInv' /\ detail' \in [Tasks -> Details \cup {Nil}] /\ behind' \subseteq Tasks
      /\ \A u \in Tasks \ {n.task} : detail'[u] = detail[u]
  <2>1. CASE n.s = Gone
    <3>1. detail' = [detail EXCEPT ![n.task] = Nil] /\ behind' = behind
      BY <1>1, <2>1 DEF RemoveDetail
    <3> QED
      BY <1>1, <1>2, <1>4, <1>5, <3>1 DEF DetailsInv, DetailInv, OtherType
  <2>2. CASE n.s # Gone
    <3>1. WriteDetail(n.task, n.s, n.v) /\ n.s \in Statuses
      BY <1>1, <1>2, <2>2
    <3> QED
      BY <1>1, <1>2, <1>4, <1>5, <3>1, WriteDetailInv
  <2> QED
    BY <2>1, <2>2
<1>7. TypeInv'
  <2>1. OtherType' /\ ServerType' /\ MutType'
    BY <1>1, <1>3, <1>6 DEF OtherType, ServerType, MutType
  <2>2. Waiting' \subseteq Waiting
    BY <1>1 DEF Waiting
  <2>3. VersionsInv'
    BY <1>1, <2>2, VersionsKept, EventsBounded
  <2> QED
    BY <1>3, <2>1, <2>3
<1>8. ListsInv'
  BY <1>3 DEF ListsInv, ListInv
<1>9. FreshInv'
  <2>1. at[n.task] # Fresh
    BY <1>2 DEF FreshInv
  <2> QED
    BY <1>1, <1>3, <1>6, <2>1 DEF FreshInv
<1>10. NewsInv' /\ AnswerInv'
  BY <1>1 DEF NewsInv, AnswerInv
<1> QED
  BY <1>6, <1>7, <1>8, <1>9, <1>10

\* A broadcast is missed, and put on record.
LEMMA MissInv ==
  ASSUME BoardInv, NEW n \in news, Miss(n)
  PROVE  BoardInv'
<1> USE DEF BoardInv, TypeInv
<1>1. /\ news' = news \ {n} /\ gap' = Statuses /\ behind' = behind \cup {n.task}
      /\ UNCHANGED <<at, ver, col, fetch, detail, mut, inRoom, events>>
  BY DEF Miss, server
<1>2. n.task \in Tasks
  BY DEF OtherType, News
<1>3. TypeInv'
  <2>1. OtherType' /\ ServerType' /\ MutType' /\ ListType'
    BY <1>1, <1>2 DEF OtherType, ServerType, MutType, ListType
  <2>2. Waiting' \subseteq Waiting
    BY <1>1 DEF Waiting
  <2>3. VersionsInv'
    BY <1>1, <2>2, VersionsKept, EventsBounded
  <2> QED
    BY <2>1, <2>3
<1>4. ListsInv'
  BY <1>1 DEF ListsInv
<1>5. FreshInv'
  BY <1>1 DEF FreshInv
<1>6. NewsInv' /\ AnswerInv'
  BY <1>1 DEF NewsInv, AnswerInv
<1>7. DetailsInv'
  <2>1. \A u \in Tasks \ behind' : Underway(u) => Underway(u)'
    BY <1>1 DEF Underway
  <2>2. \A u, r : Moving(u, r) => Moving(u, r)'
    BY <1>1 DEF Moving
  <2> QED
    BY <1>1, <2>1, <2>2 DEF DetailsInv, DetailInv
<1> QED
  BY <1>3, <1>4, <1>5, <1>6, <1>7

\* The room, and the tab left alone.
LEMMA RoomInv ==
  ASSUME BoardInv, Join \/ Drop \/ Rest \/ UNCHANGED vars
  PROVE  BoardInv'
<1> USE DEF BoardInv, TypeInv
<1>1. /\ UNCHANGED <<server, at, ver, col, fetch, detail, mut, news, gap, behind>>
      /\ Event \/ UNCHANGED events
      /\ inRoom' \in BOOLEAN
  BY DEF Join, Drop, Rest, vars, server, ghosts, OtherType
<1>2. TypeInv'
  <2>1. ListType' /\ OtherType'
    BY <1>1, EventsBounded DEF ListType, OtherType
  <2>2. VersionsInv'
    BY <1>1, SaidIsSaid, VersionsKept, EventsBounded
  <2> QED
    BY <1>1, <2>1, <2>2, SaidIsSaid
<1>3. FreshInv'
  BY <1>1 DEF FreshInv
<1>4. DetailsInv'
  BY <1>1, SaidIsSaid DEF DetailsInv, DetailInv
<1>5. ListsInv'
  BY <1>1, ListsLeft
<1> QED
  BY <1>1, <1>2, <1>3, <1>4, <1>5, SaidIsSaid

-----------------------------------------------------------------------------
(* The invariant, and what it gives.                                       *)

\* The board was mounted a moment ago.
LEMMA InitInv == Init => BoardInv
<1> SUFFICES ASSUME Init PROVE BoardInv
  OBVIOUS
<1> USE DEF Init
<1>1. at \in [Tasks -> Fresh..Gone] /\ ver \in [Tasks -> Versions]
  BY BoardAssumption, StatusFacts DEF Fresh, Gone, Versions
<1>2. ServerType
  BY <1>1 DEF ServerType
<1>3. \A s \in Statuses : /\ Cards(s) \in SUBSET Card /\ Cards(s) # Nil
                          /\ \A c \in Cards(s) : c.s = s /\ c.task \in Tasks /\ at[c.task] = s
  BY <1>2, CardsAreList
<1>4. Idle \in Fetches /\ Asked \in Fetches /\ Idle.rows = {} /\ Asked.rows = {}
      /\ Idle.pc = "idle" /\ Asked.pc = "asked"
  BY DEF Idle, Asked, Fetches
<1>5. ListType
  BY <1>3, <1>4 DEF ListType, Lists
<1>6. MutType /\ \A m \in Slots : mut[m] = NoMut
  BY NoMutIsSound DEF MutType
<1>7. NoMut.pc = "free" /\ NoMut.task = Nil /\ \A s \in Statuses : NoMut.prev[s] = Nil
  BY DEF NoMut
<1>8. OtherType
  <2>1. detail \in [Tasks -> Details \cup {Nil}]
    OBVIOUS
  <2>2. /\ news \subseteq News /\ inRoom \in BOOLEAN
        /\ gap \subseteq Statuses /\ behind \subseteq Tasks
    OBVIOUS
  <2>3. events \in 0..MaxEvents
    BY BoardAssumption
  <2> QED
    BY <2>1, <2>2, <2>3 DEF OtherType
<1>9. VersionsInv
  <2>1. Waiting = {}
    BY <1>6, <1>7 DEF Waiting
  <2>2. Cardinality(Waiting) = 0
    BY <2>1, FS_EmptySet
  <2>3. \A t \in Tasks : ver[t] + Cardinality(Waiting) <= events
    BY <2>2
  <2> QED
    BY <2>3 DEF VersionsInv
<1>10. ListsInv
  <2>1. \A m \in Slots : ~Clean(m)
    BY <1>6, <1>7 DEF Clean, Flying
  <2>2. \A s \in Statuses : ListInv(s)
    BY <1>4, <2>1 DEF ListInv, Right
  <2> QED
    BY <2>2 DEF ListsInv
<1>11. FreshInv
  BY <1>3, <1>4, <1>6, <1>7, StatusFacts DEF FreshInv
<1>12. NewsInv /\ AnswerInv /\ DetailsInv
  BY <1>6, <1>7 DEF NewsInv, AnswerInv, DetailsInv, DetailInv
<1> QED
  BY <1>2, <1>5, <1>6, <1>8, <1>9, <1>10, <1>11, <1>12 DEF BoardInv, TypeInv

\* Every step keeps it.
LEMMA StepInv ==
  ASSUME BoardInv, [Next]_vars
  PROVE  BoardInv'
<1>1. ASSUME NEW s \in Statuses, Read(s) \/ Deliver(s) PROVE BoardInv'
  BY <1>1, ReadInv, DeliverInv
<1>2. ASSUME NEW c \in Shown, OpenTask(c) PROVE BoardInv'
  BY <1>2, OpenTaskInv
<1>3. \A c \in Shown : c.task \in Tasks /\ c.s \in Statuses /\ at[c.task] # Fresh
  <2>1. ASSUME NEW c \in Shown PROVE c.task \in Tasks /\ c.s \in Statuses /\ at[c.task] # Fresh
    <3>1. c \in Card /\ \E s \in Statuses : col[s] # Nil /\ c \in col[s]
      BY ShownCards DEF BoardInv, TypeInv
    <3>2. c.task \in Tasks /\ c.s \in Statuses
      BY <3>1 DEF Card
    <3>3. at[c.task] # Fresh
      BY <3>1, <3>2 DEF BoardInv, FreshInv
    <3> QED
      BY <3>2, <3>3
  <2> QED
    BY <2>1
<1>4. ASSUME NEW m \in Slots, Drag(m) PROVE BoardInv'
  <2>1. PICK c \in Shown, to \in Statuses : Update(m, "drag", c.task, to)
    BY <1>4 DEF Drag
  <2> QED
    BY <1>3, <2>1, UpdateInv
<1>5. ASSUME NEW m \in Slots, SubmitForm(m) PROVE BoardInv'
  <2>1. PICK t \in Tasks, to \in Statuses : at[t] # Fresh /\ Update(m, "edit", t, to)
    BY <1>5 DEF SubmitForm
  <2> QED
    BY <2>1, UpdateInv
<1>6. ASSUME NEW m \in Slots, Remove(m) PROVE BoardInv'
  <2>1. PICK c \in Shown : Request(m, "delete", c.task, c.s)
    BY <1>6 DEF Remove
  <2>2. c.task # Nil
    BY <1>3, StatusFacts
  <2> QED
    BY <1>3, <2>1, <2>2, RequestInv
<1>7. ASSUME NEW m \in Slots, Create(m) PROVE BoardInv'
  <2>1. PICK to \in Statuses : Request(m, "create", Nil, to)
    BY <1>7 DEF Create
  <2> QED
    BY <2>1, RequestInv
<1>8. ASSUME NEW s \in Statuses, FetchFails(s) \/ RetryColumn(s) PROVE BoardInv'
  BY <1>8, FetchFailsInv
<1>9. ASSUME NEW m \in Slots, LoseAnswer(m) PROVE BoardInv'
  BY <1>9, FailInv
<1>10. ASSUME NEW m \in Slots, Answer(m) PROVE BoardInv'
  BY <1>10, CommitInv, FailInv, SettledInv, RolledBackInv DEF Answer
<1>11. ASSUME NEW t \in Tasks, PeerWrites(t) PROVE BoardInv'
  BY <1>11, PeerWritesInv
<1>12. ASSUME NEW n \in news, Hear(n) \/ Miss(n) PROVE BoardInv'
  BY <1>12, HearInv, MissInv
<1>13. CASE Join \/ Drop \/ Rest \/ UNCHANGED vars
  BY <1>13, RoomInv
<1> QED
  BY <1>1, <1>2, <1>4, <1>5, <1>6, <1>7, <1>8, <1>9, <1>10, <1>11, <1>12, <1>13
  DEF Next, Fetching, Using, Failing

\* The inductive invariant of the specification.
THEOREM BoardInvariance == Spec => []BoardInv
<1>1. BoardInv /\ [Next]_vars => BoardInv'
  BY StepInv
<1> QED
  BY <1>1, InitInv, PTL DEF Spec

\* Types: whatever is cached, on its way or in flight is what it should be, and
\* no row is written more often than the bound allows.
THEOREM TypeCorrectness == Spec => []TypeOK
<1>1. BoardInv => TypeOK
  <2> SUFFICES ASSUME BoardInv PROVE TypeOK
    OBVIOUS
  <2> USE DEF BoardInv, TypeInv
  <2>1. \A t \in Tasks : at[t] \in Fresh..Gone /\ ver[t] \in Versions
    BY DEF ServerType
  <2>2. \A s \in Statuses : /\ col[s] = Nil \/ \A c \in col[s] : c \in Card /\ c.s = s
                            /\ fetch[s].pc \in {"idle", "asked", "read"}
                            /\ \A c \in fetch[s].rows : c \in Card /\ c.s = s
    BY DEF ListType, Lists, Fetches
  <2>3. \A t \in Tasks : detail[t] = Nil \/ detail[t] \in [s : Statuses, v : Versions]
    BY DEF OtherType, Details
  <2>4. \A m \in Slots :
          /\ mut[m].pc \in {"free", "asked", "done", "failed"}
          /\ mut[m].task \in Tasks \cup {Nil} /\ mut[m].to \in Statuses
          /\ mut[m].alone \in BOOLEAN
          /\ mut[m].pc \in {"asked", "done"} => mut[m].kind # "none"
    BY DEF MutType, Muts, Sound
  <2>5. \A n \in news : n.task \in Tasks /\ n.v \in Versions
    BY DEF OtherType, News
  <2> QED
    BY <2>1, <2>2, <2>3, <2>4, <2>5 DEF TypeOK, OtherType
<1> QED
  BY <1>1, BoardInvariance, PTL

\* Once nothing is under way every list shows the server's rows, but for those
\* on record.
THEOREM ColumnsShowTheServer == Spec => []BoardShowsServer
<1>1. BoardInv => BoardShowsServer
  <2> SUFFICES ASSUME BoardInv, Quiet, NEW s \in Statuses \ gap PROVE col[s] = Cards(s)
    BY DEF BoardShowsServer
  <2>1. \A m \in Slots : mut[m].pc = "free"
    BY DEF Quiet, Busy
  <2>2. ~Unsettled /\ \A m \in Slots : ~Clean(m)
    BY <2>1 DEF Quiet, Unsettled, Clean, Flying
  <2>3. ListInv(s) /\ fetch[s].pc = "idle"
    BY <2>2 DEF BoardInv, ListsInv, Quiet
  <2> QED
    BY <2>2, <2>3 DEF ListInv, Right
<1> QED
  BY <1>1, BoardInvariance, PTL

\* And so do the details.
THEOREM DetailsShowTheServer == Spec => []DetailShowsServer
<1>1. BoardInv => DetailShowsServer
  <2> SUFFICES ASSUME BoardInv, Quiet, NEW t \in Tasks \ behind, detail[t] # Nil
               PROVE  detail[t] = [s |-> at[t], v |-> ver[t]]
    BY DEF DetailShowsServer
  <2>1. \A m \in Slots : mut[m].pc = "free"
    BY DEF Quiet, Busy
  <2>2. ~Underway(t) /\ \A r : ~Moving(t, r)
    BY <2>1 DEF Quiet, Underway, Moving
  <2> QED
    BY <2>2 DEF BoardInv, DetailsInv, DetailInv
<1> QED
  BY <1>1, BoardInvariance, PTL
=============================================================================
