---------------------------- MODULE PagingProofs -----------------------------
(***************************************************************************)
(* Theorems about Paging for any rows, any stamps, any page size and any    *)
(* bound.                                                                   *)
(***************************************************************************)
EXTENDS Paging, FiniteSetTheorems, WellFoundedInduction, TLAPS

-----------------------------------------------------------------------------
(* The order of a list.                                                    *)

\* The order of the lists of a kind, and the last of some rows in it: Precedes
\* and LastOf with the kind as an argument.
Ord(k, r, q) == IF k = "comments" THEN Later(q, r) ELSE Later(r, q)
End(k, S) == CHOOSE r \in S : \A q \in S \ {r} : Ord(k, q, r)

\* They are the same thing.
LEMMA OrdIsPrecedes ==
  /\ \A r, q : Precedes(r, q) <=> Ord(kind, r, q)
  /\ \A S : LastOf(S) = End(kind, S)
  BY DEF Precedes, LastOf, Ord, End

\* The order is strict and total: rows of one instant are told apart by their
\* ids (orderBy createdAt, id).
LEMMA OrdIsTotal ==
  ASSUME NEW k
  PROVE  /\ \A r \in Rows : ~Ord(k, r, r)
         /\ \A r, q \in Rows : r = q \/ Ord(k, r, q) \/ Ord(k, q, r)
         /\ \A r, q \in Rows : Ord(k, r, q) => ~Ord(k, q, r)
         /\ \A r, q, s \in Rows : Ord(k, r, q) /\ Ord(k, q, s) => Ord(k, r, s)
  BY PagingAssumption DEF Ord, Later, Rows

\* There are finitely many rows.
LEMMA RowsFinite ==
  ASSUME NEW S \in SUBSET Rows
  PROVE  IsFiniteSet(S) /\ Cardinality(S) \in Nat
<1>1. IsFiniteSet(Rows)
  BY PagingAssumption, FS_Interval DEF Rows
<1>2. IsFiniteSet(S)
  BY <1>1, FS_Subset
<1> QED
  BY <1>2, FS_CardinalityType

\* A list of rows that is not empty has a first row.
LEMMA FirstRow ==
  ASSUME NEW k, NEW S \in SUBSET Rows, S # {}
  PROVE  \E r \in S : \A q \in S \ {r} : Ord(k, r, q)
<1> DEFINE Before(r) == {q \in S : Ord(k, q, r)}
           B == {Before(r) : r \in S}
<1>1. IsWellFoundedOn(StrictSubsetOrdering(S), FiniteSubsetsOf(S))
  BY FS_StrictSubsetOrderingWellFounded
<1>2. B \subseteq FiniteSubsetsOf(S) /\ B # {}
  <2>1. IsFiniteSet(S)
    BY RowsFinite
  <2>2. FiniteSubsetsOf(S) = SUBSET S
    BY <2>1, FS_FiniteSubsetsOfFinite
  <2>3. B \subseteq SUBSET S
    OBVIOUS
  <2>4. B # {}
    OBVIOUS
  <2> QED
    BY <2>2, <2>3, <2>4
<1>3. PICK x \in B : \A y \in B : ~ (<<y, x>> \in StrictSubsetOrdering(S))
  BY <1>1, <1>2, WFMin
<1>4. PICK r \in S : x = Before(r)
  OBVIOUS
<1>5. ASSUME NEW q \in S, Ord(k, q, r) PROVE FALSE
  <2>1. q \in Before(r) /\ q \notin Before(q)
    BY <1>5, OrdIsTotal
  <2>2. Before(q) \subseteq Before(r)
    BY <1>5, OrdIsTotal
  <2>3. <<Before(q), x>> \in StrictSubsetOrdering(S)
    BY <2>1, <2>2, <1>4 DEF StrictSubsetOrdering
  <2> QED
    BY <2>3, <1>3
<1> QED
  BY <1>5, OrdIsTotal

\* And a last one, which End picks.
LEMMA LastRow ==
  ASSUME NEW k, NEW S \in SUBSET Rows, S # {}
  PROVE  End(k, S) \in S /\ \A q \in S \ {End(k, S)} : Ord(k, q, End(k, S))
<1> DEFINE After(r) == {q \in S : Ord(k, r, q)}
           B == {After(r) : r \in S}
<1>1. IsWellFoundedOn(StrictSubsetOrdering(S), FiniteSubsetsOf(S))
  BY FS_StrictSubsetOrderingWellFounded
<1>2. B \subseteq FiniteSubsetsOf(S) /\ B # {}
  <2>1. IsFiniteSet(S)
    BY RowsFinite
  <2>2. FiniteSubsetsOf(S) = SUBSET S
    BY <2>1, FS_FiniteSubsetsOfFinite
  <2>3. B \subseteq SUBSET S
    OBVIOUS
  <2>4. B # {}
    OBVIOUS
  <2> QED
    BY <2>2, <2>3, <2>4
<1>3. PICK x \in B : \A y \in B : ~ (<<y, x>> \in StrictSubsetOrdering(S))
  BY <1>1, <1>2, WFMin
<1>4. PICK r \in S : x = After(r)
  OBVIOUS
<1>5. ASSUME NEW q \in S, Ord(k, r, q) PROVE FALSE
  <2>1. q \in After(r) /\ q \notin After(q)
    BY <1>5, OrdIsTotal
  <2>2. After(q) \subseteq After(r)
    BY <1>5, OrdIsTotal
  <2>3. <<After(q), x>> \in StrictSubsetOrdering(S)
    BY <2>1, <2>2, <1>4 DEF StrictSubsetOrdering
  <2> QED
    BY <2>3, <1>3
<1>6. \E s \in S : \A q \in S \ {s} : Ord(k, q, s)
  BY <1>5, OrdIsTotal
<1> QED
  BY <1>6 DEF End

\* The rows before a row of First(S, n) are in it; it is empty only for lack
\* of rows, and has all of them or n.
LEMMA FirstRows ==
  ASSUME NEW S \in SUBSET Rows, NEW n \in Nat
  PROVE  /\ First(S, n) \subseteq S
         /\ \A r \in First(S, n), q \in S : Ord(kind, q, r) => q \in First(S, n)
         /\ n > 0 /\ S # {} => First(S, n) # {}
         /\ First(S, n) # S => Cardinality(First(S, n)) >= n
<1> DEFINE Before(r) == {q \in S : Ord(kind, q, r)}
<1>1. \A r \in S : IsFiniteSet(Before(r)) /\ Cardinality(Before(r)) \in Nat
  BY RowsFinite
<1>2. First(S, n) \subseteq S /\ \A r \in S : r \in First(S, n) <=> Cardinality(Before(r)) < n
  BY OrdIsPrecedes DEF First
<1>3. ASSUME NEW r \in First(S, n), NEW q \in S, Ord(kind, q, r) PROVE q \in First(S, n)
  <2>1. Before(q) \in SUBSET Before(r)
    BY <1>2, <1>3, OrdIsTotal
  <2>2. Cardinality(Before(q)) <= Cardinality(Before(r))
    BY <2>1, <1>1, <1>2, FS_Subset
  <2>3. q \in S /\ r \in S /\ Cardinality(Before(r)) < n
    BY <1>2, <1>3
  <2>4. Cardinality(Before(q)) < n
    BY <2>2, <2>3, <1>1
  <2> QED
    BY <2>3, <2>4, <1>2
<1>4. ASSUME n > 0, S # {} PROVE First(S, n) # {}
  <2>1. PICK r \in S : \A q \in S \ {r} : Ord(kind, r, q)
    BY <1>4, FirstRow
  <2>2. Before(r) = {}
    BY <2>1, OrdIsTotal
  <2>3. Cardinality(Before(r)) = 0
    BY <2>2, FS_EmptySet
  <2> QED
    BY <2>3, <1>2, <1>4
<1>5. ASSUME First(S, n) # S PROVE Cardinality(First(S, n)) >= n
  <2>1. S \ First(S, n) \in SUBSET Rows /\ S \ First(S, n) # {}
    BY <1>2, <1>5
  <2>2. PICK r \in S \ First(S, n) : \A q \in (S \ First(S, n)) \ {r} : Ord(kind, r, q)
    BY <2>1, FirstRow
  <2>3. Before(r) \in SUBSET First(S, n)
    BY <2>2, <1>2, OrdIsTotal
  <2>4. Cardinality(Before(r)) <= Cardinality(First(S, n))
    <3>1. IsFiniteSet(First(S, n))
      BY <1>2, RowsFinite
    <3> QED
      BY <3>1, <2>3, FS_Subset
  <2>5. Cardinality(Before(r)) >= n
    BY <2>2, <1>1, <1>2
  <2>6. Cardinality(First(S, n)) \in Nat
    BY <1>2, RowsFinite
  <2> QED
    BY <2>4, <2>5, <2>6, <1>1, <2>2
<1> QED
  BY <1>2, <1>3, <1>4, <1>5


-----------------------------------------------------------------------------
(* Pages.                                                                  *)

Page == [items : SUBSET Rows, next : Cursors]

\* A page that is not the last names its last row as the cursor.
Linked(k, p) == p.next # Nil => p.items # {} /\ p.next = CursorOf(End(k, p.items))

\* Behind p, or on it.
Ahead(k, p, r) == r \in p.items \/ (p.next # Nil /\ Ord(k, End(k, p.items), r))

\* Pages that follow one another.
Chain(k, pages) ==
  /\ pages \in Seq(Page)
  /\ \A i \in 1..Len(pages) : Linked(k, pages[i])
  /\ \A i, j \in 1..Len(pages) : i < j =>
       \A r \in pages[i].items, q \in pages[j].items : Ord(k, r, q)

\* They show r, or it is behind the last of them and there is a next page.
Covers(k, pages, r) ==
  \/ \E i \in 1..Len(pages) : r \in pages[i].items
  \/ pages # <<>> /\ Ahead(k, Last(pages), r)

\* What a page leaves out comes after it, and only if it says so: it is read
\* with one row more than it holds (PageOf of a find with take + 1).
LEMMA PageOfFirst ==
  ASSUME NEW S \in SUBSET Rows
  PROVE  LET p == PageOf(First(S, Limit + 1)) IN
         /\ p \in Page /\ p.items \subseteq S /\ Linked(kind, p)
         /\ \A r \in S : Ahead(kind, p, r)
<1> DEFINE F == First(S, Limit + 1)
           p == PageOf(F)
<1>1. Limit \in Nat /\ Limit > 0 /\ Limit + 1 \in Nat
  BY PagingAssumption
<1>2. F \subseteq S /\ \A r \in F, q \in S : Ord(kind, q, r) => q \in F
  BY <1>1, FirstRows
<1>3. F \in SUBSET Rows
  BY <1>2
<1>4. F # S => Cardinality(F) >= Limit + 1
  BY <1>1, FirstRows
<1>5. Cardinality(F) \in Nat
  BY <1>3, RowsFinite
<1>6. CASE Cardinality(F) > Limit
  <2> DEFINE I == First(F, Limit)
             e == End(kind, I)
  <2>1. /\ I \subseteq F
        /\ \A r \in I, q \in F : Ord(kind, q, r) => q \in I
        /\ F # {} => I # {}
    BY <1>1, <1>3, FirstRows
  <2>2. F # {}
    <3>1. Cardinality(F) # 0
      BY <1>1, <1>5, <1>6
    <3> QED
      BY <3>1, FS_EmptySet
  <2>3. p = [items |-> I, next |-> CursorOf(e)]
    BY <1>6, OrdIsPrecedes DEF PageOf
  <2>4. I \in SUBSET Rows /\ I # {}
    BY <2>1, <2>2, <1>3
  <2>5. e \in I
    BY <2>4, LastRow
  <2>6. CursorOf(e) \in Cursors /\ CursorOf(e) # Nil
    <3>1. e \in Rows
      BY <2>4, <2>5
    <3>2. CursorOf(e) \in Stamps
      BY <3>1, PagingAssumption DEF CursorOf, Stamps
    <3> QED
      BY <3>1, <3>2, NilAssumption DEF Cursors
  <2>7. \A r \in S : r \in I \/ Ord(kind, e, r)
    BY <2>1, <2>5, <1>2, <1>3, OrdIsTotal
  <2>8. p \in Page /\ p.items = I /\ p.next = CursorOf(e)
    BY <2>3, <2>4, <2>6 DEF Page
  <2> HIDE DEF I, e, p
  <2>9. e = End(kind, I)
    BY DEF e
  <2> QED
    BY <2>1, <2>4, <2>6, <2>7, <2>8, <2>9, <1>2 DEF Linked, Ahead, p
<1>7. CASE ~(Cardinality(F) > Limit)
  <2>1. F = S
    BY <1>1, <1>4, <1>5, <1>7
  <2>2. p = [items |-> F, next |-> Nil]
    BY <1>7 DEF PageOf
  <2>3. p \in Page /\ p.items = F /\ p.next = Nil
    BY <2>2, <1>3 DEF Page, Cursors
  <2> QED
    BY <2>1, <2>3 DEF Linked, Ahead
<1> QED
  BY <1>6, <1>7

\* The rows a page request asks for: those after its cursor's row.
After(k, c, S) == {r \in S : \A q \in Rows : c = CursorOf(q) => Ord(k, q, r)}

\* Nil is no cursor, and two rows have different cursors.
LEMMA CursorsDiffer ==
  /\ \A q \in Rows : CursorOf(q) \in Cursors /\ CursorOf(q) # Nil
  /\ \A q, r \in Rows : CursorOf(q) = CursorOf(r) => q = r
<1>1. \A q \in Rows : CursorOf(q) \in Stamps
  BY PagingAssumption DEF CursorOf, Stamps
<1> QED
  BY <1>1, NilAssumption DEF CursorOf, Cursors

\* The three find queries ask for the rows after the cursor's.
LEMMA FindsAfter ==
  ASSUME kind \in {"tasks", "comments", "history"}, there \in SUBSET Rows,
         NEW c \in Cursors
  PROVE  Answer(c) = PageOf(First(After(kind, c, there), Limit + 1))
<1>1. CASE c = Nil
  <2>1. After(kind, c, there) = there
    BY <1>1, CursorsDiffer DEF After
  <2>2. /\ {r \in there : BeforeCursor(c, r)} = there
        /\ {r \in there : AfterCursor(c, r)} = there
    BY <1>1 DEF BeforeCursor, AfterCursor
  <2> QED
    BY <2>1, <2>2
    DEF Answer, ListTasks, ListHistory, ListComments, FindTasks, FindHistory, FindComments
<1>2. CASE c # Nil
  <2>1. PICK q \in Rows : c = CursorOf(q)
    BY <1>2 DEF Cursors
  <2>2. c.at = Stamp[q] /\ c.id = q
    BY <2>1 DEF CursorOf
  <2>3. After(kind, c, there) = {r \in there : Ord(kind, q, r)}
    BY <2>1, CursorsDiffer DEF After
  <2>4. kind = "comments" => {r \in there : AfterCursor(c, r)} = {r \in there : Ord(kind, q, r)}
    BY <1>2, <2>2, PagingAssumption DEF AfterCursor, Ord, Later, Rows
  <2>5. kind # "comments" => {r \in there : BeforeCursor(c, r)} = {r \in there : Ord(kind, q, r)}
    BY <1>2, <2>2, PagingAssumption DEF BeforeCursor, Ord, Later, Rows
  <2>6. CASE kind = "comments"
    BY <2>3, <2>4, <2>6 DEF Answer, ListComments, FindComments
  <2>7. CASE kind = "tasks"
    BY <2>3, <2>5, <2>7 DEF Answer, ListTasks, FindTasks
  <2>8. CASE kind = "history"
    BY <2>3, <2>5, <2>8 DEF Answer, ListHistory, FindHistory
  <2> QED
    BY <2>6, <2>7, <2>8
<1> QED
  BY <1>1, <1>2

\* So an answer is a page of rows after the cursor's, and every other row
\* after it is ahead.
LEMMA AnswerIsNext ==
  ASSUME kind \in {"tasks", "comments", "history"}, there \in SUBSET Rows,
         NEW c \in Cursors
  PROVE  LET p == Answer(c) IN
         /\ p \in Page /\ p # Nil /\ Linked(kind, p)
         /\ p.items \subseteq After(kind, c, there)
         /\ \A r \in After(kind, c, there) : Ahead(kind, p, r)
<1>1. After(kind, c, there) \in SUBSET Rows
  BY DEF After
<1>2. Answer(c) = PageOf(First(After(kind, c, there), Limit + 1))
  BY FindsAfter
<1>3. Nil \notin Page
  <2>1. Cursors \subseteq Stamps \cup {Nil}
    BY PagingAssumption DEF Cursors, CursorOf, Stamps
  <2>2. Page \subseteq [items : SUBSET Rows, next : Stamps \cup {Nil}]
    BY <2>1 DEF Page
  <2> QED
    BY <2>2, NilAssumption
<1> QED
  BY <1>1, <1>2, <1>3, PageOfFirst

\* The cursor that leads on from some pages.
NextOf(pages) == IF pages = <<>> THEN Nil ELSE Last(pages).next

\* A page read at the cursor of the last page can follow it, and then no row
\* is skipped that was covered before.
LEMMA ChainGrows ==
  ASSUME NEW k, NEW pages, Chain(k, pages), pages # <<>> => NextOf(pages) # Nil,
         NEW p \in Page, Linked(k, p),
         NEW S \in SUBSET Rows,
         p.items \subseteq After(k, NextOf(pages), S),
         \A r \in After(k, NextOf(pages), S) : Ahead(k, p, r)
  PROVE  /\ Chain(k, Append(pages, p))
         /\ \A r \in S : (pages # <<>> => Covers(k, pages, r)) => Covers(k, Append(pages, p), r)
<1> DEFINE n == Len(pages)
           new == Append(pages, p)
<1>1. pages \in Seq(Page) /\ n \in Nat
  BY DEF Chain
<1>2. /\ new \in Seq(Page) /\ Len(new) = n + 1 /\ new # <<>>
      /\ \A i \in 1..n : new[i] = pages[i]
      /\ new[n + 1] = p /\ Last(new) = p
  BY <1>1 DEF Last
<1>3. p.items \subseteq S /\ p.items \subseteq Rows
  BY DEF After, Page
<1>4. ASSUME pages # <<>>
      PROVE  LET e == End(k, pages[n].items) IN
             /\ n \in 1..n /\ Last(pages) = pages[n]
             /\ e \in pages[n].items /\ e \in Rows
             /\ NextOf(pages) = CursorOf(e)
             /\ \A r \in pages[n].items : r = e \/ Ord(k, r, e)
             /\ \A r \in S : r \in After(k, NextOf(pages), S) <=> Ord(k, e, r)
  <2>1. n \in 1..n /\ Last(pages) = pages[n]
    BY <1>1, <1>4 DEF Last
  <2>2. Linked(k, pages[n]) /\ NextOf(pages) = pages[n].next /\ pages[n] \in Page
    BY <2>1, <1>1, <1>4 DEF Chain, NextOf
  <2>3. /\ pages[n].items # {} /\ pages[n].items \in SUBSET Rows
        /\ NextOf(pages) = CursorOf(End(k, pages[n].items))
    BY <2>2, <1>4 DEF Linked, Page
  <2>4. /\ End(k, pages[n].items) \in pages[n].items
        /\ \A q \in pages[n].items \ {End(k, pages[n].items)} : Ord(k, q, End(k, pages[n].items))
    BY <2>3, LastRow
  <2>5. \A r \in S : r \in After(k, NextOf(pages), S) <=> Ord(k, End(k, pages[n].items), r)
    BY <2>3, <2>4, CursorsDiffer DEF After
  <2> QED
    BY <2>1, <2>3, <2>4, <2>5
<1>5. ASSUME NEW i \in 1..n, NEW r \in pages[i].items, NEW q \in p.items
      PROVE  Ord(k, r, q)
  <2> DEFINE e == End(k, pages[n].items)
  <2>1. pages # <<>> /\ r \in Rows /\ q \in Rows
    <3>1. pages[i] \in Page
      BY <1>1
    <3>2. pages # <<>>
      BY <1>1
    <3> QED
      BY <3>1, <3>2, <1>3 DEF Page
  <2>2. Ord(k, e, q)
    BY <1>3, <1>4, <2>1
  <2>3. r = e \/ Ord(k, r, e)
    <3>1. CASE i = n
      BY <3>1, <1>4, <2>1
    <3>2. CASE i < n
      BY <3>2, <1>4, <2>1 DEF Chain
    <3> QED
      BY <3>1, <3>2, <1>1
  <2>4. e \in Rows
    BY <1>4, <2>1
  <2> QED
    BY <2>1, <2>2, <2>3, <2>4, OrdIsTotal
<1>6. Chain(k, new)
  <2>1. \A i \in 1..Len(new) : Linked(k, new[i])
    <3>1. \A i \in 1..n : Linked(k, pages[i])
      BY DEF Chain
    <3>2. \A i \in 1..Len(new) : i \in 1..n \/ i = n + 1
      BY <1>1, <1>2
    <3> QED
      BY <3>1, <3>2, <1>2
  <2>2. ASSUME NEW i \in 1..Len(new), NEW j \in 1..Len(new), i < j,
               NEW r \in new[i].items, NEW q \in new[j].items
        PROVE  Ord(k, r, q)
    <3>1. i \in 1..n /\ r \in pages[i].items /\ (j \in 1..n \/ j = n + 1)
      BY <1>1, <1>2, <2>2
    <3>2. CASE j = n + 1
      BY <3>1, <3>2, <1>2, <1>5
    <3>3. CASE j \in 1..n
      BY <3>1, <3>3, <1>2, <2>2 DEF Chain
    <3> QED
      BY <3>1, <3>2, <3>3
  <2> QED
    BY <1>2, <2>1, <2>2 DEF Chain
<1>7. ASSUME NEW r \in S, pages # <<>> => Covers(k, pages, r)
      PROVE  Covers(k, new, r)
  <2>1. CASE pages = <<>>
    <3>1. r \in After(k, NextOf(pages), S)
      BY <2>1, CursorsDiffer DEF NextOf, After
    <3> QED
      BY <3>1, <1>2 DEF Covers
  <2>2. CASE pages # <<>> /\ \E i \in 1..n : r \in pages[i].items
    <3>1. PICK i \in 1..n : r \in pages[i].items
      BY <2>2
    <3>2. i \in 1..Len(new) /\ r \in new[i].items
      BY <3>1, <1>1, <1>2
    <3> QED
      BY <3>2 DEF Covers
  <2>3. CASE pages # <<>> /\ Ahead(k, Last(pages), r) /\ ~\E i \in 1..n : r \in pages[i].items
    <3>1. Ord(k, End(k, pages[n].items), r)
      BY <2>3, <1>4 DEF Ahead
    <3>2. r \in After(k, NextOf(pages), S)
      BY <3>1, <2>3, <1>4
    <3> QED
      BY <3>2, <1>2 DEF Covers
  <2> QED
    BY <1>7, <2>1, <2>2, <2>3 DEF Covers
<1> QED
  BY <1>6, <1>7

-----------------------------------------------------------------------------
(* The inductive invariant of a walk.                                      *)

\* The rows of the server.
RowsInv == steady \subseteq there /\ there \subseteq used /\ used \subseteq Rows

\* The pages on the screen.
DataInv ==
  /\ Chain(kind, data)
  /\ data # <<>> => \A r \in steady : Covers(kind, data, r)

FetchType ==
  fetch \in [op : {"none", "pages", "more"}, want : Nat, got : Seq(Page),
             read : Page \cup {Nil}, base : SUBSET Rows]

\* The pages a request has collected, the one on the way among them.
Collected == IF fetch.read = Nil THEN fetch.got ELSE Append(fetch.got, fetch.read)

\* A refetch: its pages fit together, and skip no row that was there when the
\* first of them was read.
LoadInv ==
  fetch.op = "pages" =>
    /\ Chain(kind, fetch.got) /\ Chain(kind, Collected)
    /\ fetch.got # <<>> => NextOf(fetch.got) # Nil /\ fetch.base # {}
    /\ fetch.read # Nil /\ fetch.read.next # Nil => fetch.base # {}
    /\ fetch.got = <<>> /\ fetch.read = Nil => fetch.base = {}
    /\ fetch.base \subseteq used
    /\ Collected # <<>> => \A r \in fetch.base \cap there : Covers(kind, Collected, r)
    /\ data = <<>> => fetch.got = <<>> /\ fetch.want = 1

\* Load more: its page fits to those on the screen.
MoreInv ==
  fetch.op = "more" =>
    /\ fetch.got = <<>> /\ fetch.want = 1 /\ fetch.base = {} /\ HasNext
    /\ fetch.read # Nil => /\ Chain(kind, Append(data, fetch.read))
                           /\ \A r \in steady : Covers(kind, Append(data, fetch.read), r)

\* The row of the user.  Once it is answered, either a refetch that has yet to
\* read, or read it already, is under way, or the pages on the screen lead to it.
PostType ==
  /\ post \in [pc : {"idle", "sent", "saved", "done"}, row : Rows \cup {Nil}]
  /\ kind = "pager" => post.pc # "done"

PostInv ==
  kind # "pager" =>
    /\ post.pc # "idle" => post.row \in used
    /\ post.pc = "sent" => post.row \notin there \cup fetch.base
    /\ post.pc = "done" /\ post.row \in there \ missing =>
         IF fetch.op = "pages"
           THEN \/ fetch.got = <<>> /\ fetch.read = Nil
                \/ post.row \in fetch.base
           ELSE /\ Covers(kind, data, post.row)
                /\ fetch.op = "more" /\ fetch.read # Nil =>
                     Covers(kind, Append(data, fetch.read), post.row)

\* Only a refetch has rows to start from.
IdleBase == fetch.op # "pages" => fetch.base = {}

WalkInv ==
  /\ kind \in {"tasks", "comments", "history", "pager"}
  /\ kind = "pager" =>
       data = <<>> /\ fetch = NoFetch /\ error = FALSE /\ steady = {}
  /\ more \in BOOLEAN /\ error \in BOOLEAN
  /\ RowsInv /\ DataInv /\ FetchType /\ IdleBase /\ LoadInv /\ MoreInv /\ PostType /\ PostInv

-----------------------------------------------------------------------------
(* The inductive invariant of a pager.                                     *)

Lists == [items : SUBSET Rows, pages : Nat \ {0}]

PagerType ==
  /\ page \in 1..MaxPage /\ typed \in Filters /\ filter \in Filters /\ known \in Nat
  /\ cache \in [Keys -> Lists \cup {Nil}]
  /\ asked \in [Keys -> Lists \cup {Nil, Sent}]
  /\ failed \subseteq Keys /\ stale \subseteq Keys
  /\ bridge \in Lists \cup {Nil} /\ lastKey \in Keys \cup {Nil}
  /\ events \in 0..MaxEvents

\* What is asked for and kept has been chosen, the screen's key among them.
ChosenInv ==
  /\ Key \in chosen
  /\ \A k \in Keys : asked[k] # Nil \/ cache[k] # Nil => k \in chosen

\* While an earlier answer bridges a request, the page count is that answer's:
\* it cannot change under the request.
KnownInv == bridge # Nil => known = bridge.pages

PagerInv == PagerType /\ ChosenInv /\ KnownInv

-----------------------------------------------------------------------------
(* A walk, step by step.                                                   *)

\* A request that is under way belongs to a walk.
LEMMA FetchOfWalk ==
  ASSUME WalkInv, fetch.op # "none"
  PROVE  kind \in {"tasks", "comments", "history"} /\ kind # "pager"
  BY DEF WalkInv, NoFetch

\* The cursor of the next page is the one its pages lead to.
LEMMA ParamIsNext ==
  ASSUME WalkInv, fetch.op # "none", fetch.read = Nil
  PROVE  /\ Param \in Cursors
         /\ fetch.op = "pages" => Param = NextOf(fetch.got)
         /\ fetch.op = "more" => Param = NextOf(data)
<1>1. /\ fetch.got \in Seq(Page) /\ data \in Seq(Page)
      /\ fetch.op \in {"none", "pages", "more"}
  BY DEF WalkInv, FetchType, DataInv, Chain
<1>2. \A s \in Seq(Page) : s # <<>> => Last(s).next \in Cursors
  <2>1. ASSUME NEW s \in Seq(Page), s # <<>> PROVE Last(s).next \in Cursors
    <3>1. Last(s) \in Page
      BY <2>1 DEF Last
    <3> QED
      BY <3>1 DEF Page
  <2> QED
    BY <2>1
<1>3. fetch.op = "more" => data # <<>> /\ fetch.got = <<>>
  BY DEF WalkInv, MoreInv, HasNext
<1>4. Nil \in Cursors
  BY DEF Cursors
<1> QED
  BY <1>1, <1>2, <1>3, <1>4 DEF Param, FetchingMore, NextOf

\* A page is read.
LEMMA ReadPageInv ==
  ASSUME WalkInv, ReadPage
  PROVE  WalkInv'
<1> DEFINE p == Answer(Param)
<1>1. /\ fetch.op \in {"pages", "more"} /\ fetch.read = Nil
      /\ UNCHANGED <<kind, there, used, data, more, error, post, steady, missing>>
  BY DEF WalkInv, FetchType, ReadPage
<1>2. kind \in {"tasks", "comments", "history"} /\ there \in SUBSET Rows
  BY <1>1, FetchOfWalk DEF WalkInv, RowsInv
<1>3. Param \in Cursors
  BY <1>1, ParamIsNext
<1>4. /\ p \in Page /\ p # Nil /\ Linked(kind, p)
      /\ p.items \subseteq After(kind, Param, there)
      /\ \A r \in After(kind, Param, there) : Ahead(kind, p, r)
  BY <1>2, <1>3, AnswerIsNext
<1> HIDE DEF p
<1>5. /\ fetch'.op = fetch.op /\ fetch'.want = fetch.want /\ fetch'.got = fetch.got
      /\ fetch'.read = p
      /\ fetch'.base = IF fetch.base = {} /\ ~FetchingMore THEN there ELSE fetch.base
      /\ fetch' \in [op : {"none", "pages", "more"}, want : Nat, got : Seq(Page),
                     read : Page \cup {Nil}, base : SUBSET Rows]
  BY <1>2, <1>4 DEF ReadPage, WalkInv, FetchType, p
<1>6. CASE fetch.op = "pages"
  <2>1. Param = NextOf(fetch.got) /\ Chain(kind, fetch.got)
    BY <1>1, <1>6, ParamIsNext DEF WalkInv, LoadInv
  <2>2. fetch.got # <<>> => NextOf(fetch.got) # Nil /\ fetch.base # {}
    BY <1>6 DEF WalkInv, LoadInv
  <2>3. /\ Chain(kind, Append(fetch.got, p))
        /\ \A r \in there : (fetch.got # <<>> => Covers(kind, fetch.got, r))
                              => Covers(kind, Append(fetch.got, p), r)
    BY <1>2, <1>4, <2>1, <2>2, ChainGrows
  <2>4. Collected = fetch.got /\ Collected' = Append(fetch.got, p)
    BY <1>1, <1>4, <1>5 DEF Collected
  <2>5. fetch'.base = IF fetch.base = {} THEN there ELSE fetch.base
    BY <1>5, <1>6 DEF FetchingMore
  <2>6. ASSUME NEW r \in fetch'.base \cap there PROVE Covers(kind, Append(fetch.got, p), r)
    <3>1. CASE fetch.got = <<>>
      BY <3>1, <2>3, <2>6
    <3>2. CASE fetch.got # <<>>
      <4>1. r \in fetch.base \cap there
        BY <3>2, <2>2, <2>5, <2>6
      <4>2. Covers(kind, fetch.got, r)
        BY <3>2, <4>1, <2>4, <1>6 DEF WalkInv, LoadInv
      <4> QED
        BY <4>2, <2>3, <2>6
    <3> QED
      BY <3>1, <3>2
  <2>7. p.next # Nil => fetch'.base # {}
    <3>1. p.next # Nil => p.items # {} /\ p.items \subseteq there
      BY <1>4 DEF Linked, After
    <3> QED
      BY <3>1, <2>5
  <2>8. LoadInv'
    <3>1. fetch'.base \subseteq used
      BY <2>5, <1>6 DEF WalkInv, LoadInv, RowsInv
    <3>2. data = <<>> => fetch.got = <<>> /\ fetch.want = 1
      BY <1>6 DEF WalkInv, LoadInv
    <3> QED
      BY <1>1, <1>4, <1>5, <2>1, <2>2, <2>3, <2>4, <2>6, <2>7, <3>1, <3>2 DEF LoadInv
  <2>9. PostInv'
    <3>1. post.pc = "sent" => post.row \notin there \cup fetch'.base
      BY <1>2, <2>5, FetchOfWalk, <1>1 DEF WalkInv, PostInv
    <3>2. post.pc = "done" /\ post.row \in there \ missing => post.row \in fetch'.base
      <4>1. post.pc = "done" /\ post.row \in there \ missing =>
              (fetch.got = <<>> /\ fetch.read = Nil) \/ post.row \in fetch.base
        BY <1>2, <1>6 DEF WalkInv, PostInv
      <4>2. fetch.got = <<>> /\ fetch.read = Nil => fetch.base = {}
        BY <1>6 DEF WalkInv, LoadInv
      <4> QED
        BY <4>1, <4>2, <2>5
    <3> QED
      BY <1>1, <1>5, <1>6, <3>1, <3>2 DEF WalkInv, PostInv
  <2> QED
    BY <1>1, <1>2, <1>5, <1>6, <2>8, <2>9
    DEF WalkInv, RowsInv, DataInv, FetchType, MoreInv, PostType, IdleBase
<1>7. CASE fetch.op = "more"
  <2>1. /\ Param = NextOf(data) /\ Chain(kind, data) /\ NextOf(data) # Nil /\ data # <<>>
        /\ HasNext
    BY <1>1, <1>7, ParamIsNext DEF WalkInv, MoreInv, DataInv, HasNext, NextOf
  <2>2. /\ Chain(kind, Append(data, p))
        /\ \A r \in there : Covers(kind, data, r) => Covers(kind, Append(data, p), r)
    BY <1>2, <1>4, <2>1, ChainGrows
  <2>3. \A r \in steady : Covers(kind, Append(data, p), r)
    BY <2>1, <2>2 DEF WalkInv, DataInv, RowsInv
  <2>4. fetch'.base = {} /\ fetch.base = {} /\ fetch'.got = <<>> /\ fetch'.want = 1
    BY <1>5, <1>7 DEF FetchingMore, WalkInv, MoreInv
  <2>5. MoreInv'
    BY <1>1, <1>5, <2>1, <2>2, <2>3, <2>4 DEF MoreInv, HasNext
  <2>6. PostInv'
    <3>1. post.pc = "done" /\ post.row \in there \ missing => Covers(kind, data, post.row)
      BY <1>2, <1>7 DEF WalkInv, PostInv
    <3> QED
      BY <1>1, <1>5, <1>7, <2>2, <2>4, <3>1 DEF WalkInv, PostInv
  <2> QED
    BY <1>1, <1>2, <1>5, <1>7, <2>4, <2>5, <2>6
    DEF WalkInv, RowsInv, DataInv, FetchType, LoadInv, PostType, IdleBase
<1> QED
  BY <1>1, <1>6, <1>7

\* The rows shown are those of the loaded pages.
LEMMA ShownRows ==
  ASSUME Chain(kind, data)
  PROVE  /\ \A r : r \in Shown <=> \E i \in 1..Len(data) : r \in data[i].items
         /\ Shown \subseteq Rows
<1>1. data \in Seq(Page) /\ DOMAIN data = 1..Len(data)
  BY DEF Chain
<1>2. \A i \in 1..Len(data) : data[i].items \subseteq Rows
  <2>1. \A i \in 1..Len(data) : data[i] \in Page
    BY <1>1
  <2> QED
    BY <2>1 DEF Page
<1> QED
  BY <1>1, <1>2 DEF Shown

\* If there is a next page, the last row shown is that of the last page.
LEMMA LastShown ==
  ASSUME Chain(kind, data), HasNext
  PROVE  /\ Shown # {} /\ LastOf(Shown) = End(kind, Last(data).items)
         /\ LastOf(Shown) \in Shown
<1> DEFINE n == Len(data)
           e == End(kind, data[n].items)
<1>1. /\ data \in Seq(Page) /\ data # <<>> /\ n \in 1..n /\ Last(data) = data[n]
      /\ Last(data).next # Nil
  <2>1. data \in Seq(Page) /\ data # <<>> /\ Last(data).next # Nil
    BY DEF HasNext, Chain
  <2>2. n \in 1..n /\ Last(data) = data[n]
    BY <2>1 DEF Last
  <2> QED
    BY <2>1, <2>2
<1>2. data[n] \in Page /\ Linked(kind, data[n])
  BY <1>1 DEF Chain
<1>3. data[n].items \in SUBSET Rows /\ data[n].items # {}
  BY <1>1, <1>2 DEF Page, Linked
<1>4. e \in data[n].items /\ \A q \in data[n].items \ {e} : Ord(kind, q, e)
  BY <1>3, LastRow
<1>5. e \in Shown /\ Shown \in SUBSET Rows
  BY <1>1, <1>4, ShownRows
<1>6. ASSUME NEW q \in Shown, q # e PROVE Ord(kind, q, e)
  <2>1. PICK i \in 1..n : q \in data[i].items
    BY <1>6, ShownRows
  <2>2. CASE i = n
    BY <2>1, <2>2, <1>4, <1>6
  <2>3. CASE i < n
    BY <2>1, <2>3, <1>1, <1>4 DEF Chain
  <2> QED
    BY <2>1, <2>2, <2>3, <1>1
<1>7. /\ End(kind, Shown) \in Shown
      /\ \A q \in Shown \ {End(kind, Shown)} : Ord(kind, q, End(kind, Shown))
  BY <1>5, LastRow
<1>8. End(kind, Shown) = e
  BY <1>5, <1>6, <1>7, OrdIsTotal
<1> QED
  BY <1>1, <1>5, <1>7, <1>8, OrdIsPrecedes

\* A row shown, or behind the last one shown, is covered; and the other way.
LEMMA CoveredRows ==
  ASSUME Chain(kind, data), NEW r
  PROVE  Covers(kind, data, r) <=> r \in Shown \/ (HasNext /\ Precedes(LastOf(Shown), r))
<1>1. CASE r \in Shown
  BY <1>1, ShownRows DEF Covers
<1>2. CASE r \notin Shown
  <2>1. ~\E i \in 1..Len(data) : r \in data[i].items
    BY <1>2, ShownRows
  <2>2. data # <<>> => r \notin Last(data).items
    BY <2>1 DEF Chain, Last
  <2>3. Covers(kind, data, r) <=> HasNext /\ Ord(kind, End(kind, Last(data).items), r)
    BY <2>1, <2>2 DEF Covers, Ahead, HasNext
  <2>4. HasNext => LastOf(Shown) = End(kind, Last(data).items)
    BY LastShown
  <2> QED
    BY <1>2, <2>3, <2>4, OrdIsPrecedes
<1> QED
  BY <1>1, <1>2

\* A page arrives.
LEMMA PageArrivesInv ==
  ASSUME WalkInv, PageArrives
  PROVE  WalkInv'
<1> DEFINE got == Append(fetch.got, fetch.read)
           complete == Len(got) = fetch.want \/ fetch.read.next = Nil
<1>1. /\ fetch.op \in {"pages", "more"} /\ fetch.read # Nil
      /\ UNCHANGED <<kind, there, used, post, missing>>
  BY DEF WalkInv, FetchType, PageArrives
<1>2. kind \in {"tasks", "comments", "history"}
  BY <1>1, FetchOfWalk
<1>3. /\ fetch.read \in Page /\ got \in Seq(Page) /\ got # <<>> /\ Last(got) = fetch.read
      /\ Collected = got /\ NextOf(got) = fetch.read.next
  <2>1. fetch.read \in Page /\ fetch.got \in Seq(Page)
    BY <1>1 DEF WalkInv, FetchType
  <2>2. got \in Seq(Page) /\ got # <<>> /\ Last(got) = fetch.read
    BY <2>1 DEF Last
  <2> QED
    BY <1>1, <2>1, <2>2 DEF Collected, NextOf
<1>4. CASE complete
  <2>1. /\ data' = IF FetchingMore THEN data \o got ELSE got
        /\ steady' = IF FetchingMore THEN steady ELSE fetch.base \cap there
        /\ fetch' = NoFetch /\ more' = FALSE /\ error' = FALSE
    BY <1>4 DEF PageArrives
  <2>2. FetchType' /\ fetch'.op = "none" /\ fetch'.base = {}
    BY <2>1 DEF FetchType, NoFetch
  <2>3. CASE fetch.op = "pages"
    <3>1. data' = got /\ steady' = fetch.base \cap there
      BY <2>1, <2>3 DEF FetchingMore
    <3>2. Chain(kind, got) /\ \A r \in fetch.base \cap there : Covers(kind, got, r)
      BY <1>3, <2>3 DEF WalkInv, LoadInv
    <3>3. DataInv' /\ RowsInv'
      BY <1>1, <3>1, <3>2 DEF DataInv, RowsInv, WalkInv
    <3>4. post.pc = "done" /\ post.row \in there \ missing => post.row \in fetch.base
      BY <1>1, <1>2, <2>3 DEF WalkInv, PostInv
    <3>5. PostInv'
      BY <1>1, <1>2, <2>2, <3>1, <3>2, <3>4 DEF PostInv, WalkInv
    <3> QED
      BY <1>1, <1>2, <2>1, <2>2, <3>3, <3>5 DEF WalkInv, LoadInv, MoreInv, PostType, IdleBase
  <2>4. CASE fetch.op = "more"
    <3>1. fetch.got = <<>> /\ data \in Seq(Page)
      BY <2>4 DEF WalkInv, MoreInv, DataInv, Chain
    <3>2. data' = Append(data, fetch.read) /\ steady' = steady
      BY <2>1, <2>4, <3>1, <1>3 DEF FetchingMore
    <3>3. /\ Chain(kind, Append(data, fetch.read))
          /\ \A r \in steady : Covers(kind, Append(data, fetch.read), r)
      BY <1>1, <2>4 DEF WalkInv, MoreInv
    <3>4. DataInv' /\ RowsInv'
      BY <1>1, <3>2, <3>3 DEF DataInv, RowsInv, WalkInv
    <3>5. post.pc = "done" /\ post.row \in there \ missing
            => Covers(kind, Append(data, fetch.read), post.row)
      BY <1>1, <1>2, <2>4 DEF WalkInv, PostInv
    <3>6. PostInv'
      BY <1>1, <1>2, <2>2, <3>2, <3>5 DEF PostInv, WalkInv
    <3> QED
      BY <1>1, <1>2, <2>1, <2>2, <3>4, <3>6 DEF WalkInv, LoadInv, MoreInv, PostType, IdleBase
  <2> QED
    BY <1>1, <2>3, <2>4
<1>5. CASE ~complete
  <2>1. /\ fetch' = [fetch EXCEPT !.got = got, !.read = Nil]
        /\ UNCHANGED <<data, steady, more, error>>
    BY <1>5 DEF PageArrives
  <2>2. /\ FetchType' /\ fetch'.op = fetch.op /\ fetch'.got = got /\ fetch'.read = Nil
        /\ fetch'.base = fetch.base /\ fetch'.want = fetch.want
    BY <2>1, <1>3 DEF WalkInv, FetchType
  <2>3. fetch.op = "pages"
    <3>1. fetch.op = "more" => fetch.got = <<>> /\ fetch.want = 1
      BY DEF WalkInv, MoreInv
    <3>2. fetch.got = <<>> => Len(got) = 1
      BY <1>3
    <3> QED
      BY <1>1, <1>5, <3>1, <3>2
  <2>4. Collected' = got
    BY <2>2 DEF Collected
  <2>5. fetch.read.next # Nil
    BY <1>5
  <2>6. data # <<>>
    <3>1. data = <<>> => fetch.got = <<>> /\ fetch.want = 1
      BY <2>3 DEF WalkInv, LoadInv
    <3>2. fetch.got = <<>> => Len(got) = 1
      BY <1>3
    <3> QED
      BY <1>5, <3>1, <3>2
  <2>7. LoadInv'
    <3>1. /\ Chain(kind, got) /\ fetch.base # {} /\ fetch.base \subseteq used
          /\ \A r \in fetch.base \cap there : Covers(kind, got, r)
      BY <1>1, <1>3, <2>3, <2>5 DEF WalkInv, LoadInv
    <3> QED
      BY <1>1, <1>3, <2>1, <2>2, <2>4, <2>5, <2>6, <3>1 DEF LoadInv
  <2>8. PostInv'
    BY <1>1, <1>2, <2>2, <2>3 DEF PostInv, WalkInv
  <2> QED
    BY <1>1, <1>2, <2>1, <2>2, <2>3, <2>7, <2>8
    DEF WalkInv, RowsInv, DataInv, MoreInv, PostType, IdleBase
<1> QED
  BY <1>4, <1>5

\* A request fails: the rows not shown are missing from then on.
LEMMA RequestFailsInv ==
  ASSUME WalkInv, RequestFails
  PROVE  WalkInv'
<1>1. /\ fetch.op # "none" /\ fetch' = NoFetch /\ error' = TRUE /\ more' = FetchingMore
      /\ missing' = missing \cup (there \ Shown)
      /\ UNCHANGED <<kind, there, used, data, post, steady>>
  BY DEF RequestFails
<1>2. kind # "pager"
  BY <1>1, FetchOfWalk
<1>3. FetchType' /\ fetch'.op = "none" /\ fetch'.base = {} /\ more' \in BOOLEAN
  BY <1>1 DEF FetchType, NoFetch, FetchingMore
<1>4. post.row \in there \ missing' => Covers(kind, data, post.row)
  BY <1>1, CoveredRows DEF WalkInv, DataInv
<1>5. PostInv'
  BY <1>1, <1>2, <1>3, <1>4 DEF WalkInv, PostInv
<1> QED
  BY <1>1, <1>2, <1>3, <1>5 DEF WalkInv, RowsInv, DataInv, LoadInv, MoreInv, PostType, IdleBase

\* Load more starts: what only the refetch it replaces would bring is missing.
LEMMA LoadMoreInv ==
  ASSUME WalkInv, LoadMore
  PROVE  WalkInv'
<1>1. /\ HasNext /\ CanLoadMore /\ fetch' = More
      /\ missing' = IF fetch.op = "pages" THEN missing \cup BehindShown ELSE missing
      /\ UNCHANGED <<kind, there, used, data, more, error, post, steady>>
  BY DEF LoadMore
<1>2. kind # "pager"
  BY <1>1 DEF CanLoadMore, ColumnLoadsMore, CommentsLoadMore, HistoryLoadMore
<1>3. /\ FetchType' /\ fetch'.op = "more" /\ fetch'.want = 1 /\ fetch'.got = <<>>
      /\ fetch'.read = Nil /\ fetch'.base = {}
  <2>1. fetch' = [op |-> "more", want |-> 1, got |-> <<>>, read |-> Nil, base |-> {}]
    BY <1>1 DEF More, NoFetch
  <2> QED
    BY <2>1 DEF FetchType
<1>4. /\ Chain(kind, data) /\ data # <<>> /\ Shown \in SUBSET Rows
      /\ LastOf(Shown) \in Shown /\ Shown # {}
  BY <1>1, ShownRows, LastShown DEF WalkInv, DataInv, HasNext
<1>5. MoreInv'
  BY <1>1, <1>3 DEF MoreInv, HasNext
<1>6. ASSUME post.pc = "done", post.row \in there \ missing'
      PROVE  Covers(kind, data, post.row)
  <2>1. CASE fetch.op = "pages"
    <3>1. post.row \notin BehindShown /\ post.row \in Rows
      BY <1>1, <1>6, <2>1 DEF WalkInv, RowsInv
    <3>2. post.row \in Shown \/ ~Precedes(post.row, LastOf(Shown))
      BY <1>4, <1>6, <3>1 DEF BehindShown
    <3>3. post.row \in Shown \/ Precedes(LastOf(Shown), post.row)
      BY <1>4, <3>1, <3>2, OrdIsTotal, OrdIsPrecedes
    <3> QED
      BY <1>1, <1>4, <3>3, CoveredRows
  <2>2. CASE fetch.op # "pages"
    BY <1>1, <1>2, <1>6, <2>2 DEF WalkInv, PostInv
  <2> QED
    BY <2>1, <2>2
<1>7. PostInv'
  BY <1>1, <1>2, <1>3, <1>6 DEF WalkInv, PostInv
<1> QED
  BY <1>1, <1>2, <1>3, <1>5, <1>7 DEF WalkInv, RowsInv, DataInv, LoadInv, PostType, IdleBase

\* A refetch of n pages starts; a list with no pages reads its first.
LEMMA LoadStarts ==
  ASSUME NEW n \in Nat, WalkInv, kind # "pager",
         fetch' = Load(n), data = <<>> => n = 1,
         UNCHANGED <<kind, there, used, data, steady, missing>>,
         more' \in BOOLEAN, error' \in BOOLEAN, PostType',
         post' = post \/ (post.pc = "saved" /\ post' = [post EXCEPT !.pc = "done"])
  PROVE  WalkInv'
<1>1. /\ FetchType' /\ fetch'.op = "pages" /\ fetch'.want = n /\ fetch'.got = <<>>
      /\ fetch'.read = Nil /\ fetch'.base = {}
  <2>1. fetch' = [op |-> "pages", want |-> n, got |-> <<>>, read |-> Nil, base |-> {}]
    BY DEF Load, NoFetch
  <2> QED
    BY <2>1 DEF FetchType
<1>2. Chain(kind, <<>>) /\ Collected' = <<>>
  BY <1>1 DEF Chain, Collected
<1>3. LoadInv'
  BY <1>1, <1>2 DEF LoadInv
<1>4. /\ post'.row = post.row /\ post'.pc \in {post.pc, "done"}
      /\ post'.pc # post.pc => post.pc = "saved"
  BY DEF WalkInv, PostType
<1>5. PostInv'
  BY <1>1, <1>4 DEF WalkInv, PostInv
<1> QED
  BY <1>1, <1>3, <1>5 DEF WalkInv, RowsInv, DataInv, MoreInv, IdleBase

\* A list that did not load is asked for again.
LEMMA ReloadInv ==
  ASSUME WalkInv, Reload
  PROVE  WalkInv'
<1>1. /\ fetch' = Load(1) /\ error' = FALSE /\ WalkScreen = "error"
      /\ UNCHANGED <<kind, there, used, data, more, post, steady, missing>>
  BY DEF Reload
<1>2. kind # "pager"
  <2>1. error = TRUE
    BY <1>1 DEF WalkScreen, WalkInv
  <2> QED
    BY <2>1 DEF WalkInv
<1>3. more' \in BOOLEAN /\ error' \in BOOLEAN /\ PostType'
  BY <1>1 DEF WalkInv, PostType
<1> QED
  BY <1>1, <1>2, <1>3, LoadStarts

\* The user adds a row.
LEMMA PostWalkInv ==
  ASSUME WalkInv, Post
  PROVE  WalkInv'
<1>1. PICK r \in Rows \ used : used' = used \cup {r} /\ post' = [pc |-> "sent", row |-> r]
  BY DEF Post
<1>2. /\ kind # "pager"
      /\ UNCHANGED <<kind, there, data, fetch, more, error, steady, missing>>
  BY DEF Post
<1>3. PostType' /\ post'.pc = "sent" /\ post'.row = r
  BY <1>1, <1>2 DEF PostType
<1>4. r \notin there \cup fetch.base
  <2>1. fetch.op # "pages" => fetch.base = {}
    BY <1>2 DEF WalkInv, FetchType, MoreInv, IdleBase
  <2> QED
    BY <1>1, <2>1 DEF WalkInv, RowsInv, LoadInv
<1>5. PostInv'
  BY <1>1, <1>2, <1>3, <1>4 DEF PostInv
<1>6. RowsInv'
  BY <1>1, <1>2 DEF WalkInv, RowsInv
<1>7. DataInv' /\ FetchType' /\ MoreInv'
  BY <1>2 DEF WalkInv, DataInv, FetchType, MoreInv, HasNext
<1>8. LoadInv'
  <2>1. Collected' = Collected
    BY <1>2 DEF Collected
  <2> QED
    BY <1>1, <1>2, <2>1 DEF WalkInv, LoadInv
<1> QED
  BY <1>2, <1>3, <1>5, <1>6, <1>7, <1>8 DEF WalkInv, IdleBase

\* It is saved: no page read before can hold it.
LEMMA PostCommitsInv ==
  ASSUME WalkInv, PostCommits
  PROVE  WalkInv'
<1>1. /\ kind # "pager" /\ post.pc = "sent" /\ there' = there \cup {post.row}
      /\ post' = [post EXCEPT !.pc = "saved"]
      /\ UNCHANGED <<kind, used, data, fetch, more, error, steady, missing>>
  BY DEF PostCommits
<1>2. post.row \in used /\ post.row \notin there \cup fetch.base
  BY <1>1 DEF WalkInv, PostInv
<1>3. PostType' /\ post'.pc = "saved" /\ post'.row = post.row
  BY <1>1 DEF WalkInv, PostType
<1>4. RowsInv' /\ PostInv'
  BY <1>1, <1>2, <1>3 DEF WalkInv, RowsInv, PostInv
<1>5. DataInv' /\ FetchType' /\ MoreInv'
  BY <1>1 DEF WalkInv, DataInv, FetchType, MoreInv, HasNext
<1>6. LoadInv'
  <2>1. Collected' = Collected /\ fetch.base \cap there' = fetch.base \cap there
    BY <1>1, <1>2 DEF Collected
  <2> QED
    BY <1>1, <2>1 DEF WalkInv, LoadInv
<1> QED
  BY <1>1, <1>3, <1>4, <1>5, <1>6 DEF WalkInv, IdleBase

\* It is answered: the list is refetched, or its first load runs on.
LEMMA PostAnsweredInv ==
  ASSUME WalkInv, PostAnswered
  PROVE  WalkInv'
<1>1. /\ kind # "pager" /\ post.pc = "saved" /\ post' = [post EXCEPT !.pc = "done"]
      /\ UNCHANGED <<kind, there, used, data, steady>>
  BY DEF PostAnswered
<1>2. PostType' /\ post'.pc = "done" /\ post'.row = post.row
  BY <1>1 DEF WalkInv, PostType
<1>3. CASE data = <<>> /\ fetch.op # "none"
  <2>1. /\ missing' = IF fetch.read # Nil THEN missing \cup {post.row} ELSE missing
        /\ UNCHANGED <<fetch, more, error>>
    BY <1>3 DEF PostAnswered
  <2>2. fetch.op = "pages" /\ fetch.got = <<>>
    BY <1>3 DEF WalkInv, FetchType, MoreInv, LoadInv, HasNext
  <2>3. PostInv'
    BY <1>1, <1>2, <2>1, <2>2 DEF WalkInv, PostInv
  <2>4. LoadInv'
    <3>1. Collected' = Collected
      BY <2>1 DEF Collected
    <3> QED
      BY <1>1, <2>1, <3>1 DEF WalkInv, LoadInv
  <2> QED
    BY <1>1, <1>2, <2>1, <2>3, <2>4
    DEF WalkInv, RowsInv, DataInv, FetchType, MoreInv, HasNext, IdleBase
<1>4. CASE ~(data = <<>> /\ fetch.op # "none")
  <2> DEFINE n == IF data = <<>> THEN 1 ELSE Len(data)
  <2>1. /\ fetch' = Load(n) /\ more' = FALSE /\ error' = (error /\ data # <<>>)
        /\ UNCHANGED missing
    BY <1>4 DEF PostAnswered
  <2>2. n \in Nat /\ (data = <<>> => n = 1)
    BY DEF WalkInv, DataInv, Chain
  <2>3. error' \in BOOLEAN
    BY <2>1 DEF WalkInv
  <2> HIDE DEF n
  <2> QED
    BY <1>1, <1>2, <2>1, <2>2, <2>3, LoadStarts
<1> QED
  BY <1>3, <1>4

\* A peer's row is a new one.
LEMMA PeerCreatesInv ==
  ASSUME WalkInv, NEW r \in Rows, PeerCreates(r)
  PROVE  WalkInv'
<1>1. /\ r \notin used /\ there' = there \cup {r} /\ used' = used \cup {r}
      /\ UNCHANGED <<kind, post, data, fetch, more, error, steady, missing>>
  BY DEF PeerCreates, walk
<1>2. RowsInv' /\ PostType'
  BY <1>1 DEF WalkInv, RowsInv, PostType
<1>3. PostInv'
  BY <1>1 DEF WalkInv, PostInv
<1>4. DataInv' /\ FetchType' /\ MoreInv'
  BY <1>1 DEF WalkInv, DataInv, FetchType, MoreInv, HasNext
<1>5. LoadInv'
  <2>1. fetch.op = "pages" => fetch.base \cap there' = fetch.base \cap there
    BY <1>1 DEF WalkInv, LoadInv
  <2>2. Collected' = Collected
    BY <1>1 DEF Collected
  <2> QED
    BY <1>1, <2>1, <2>2 DEF WalkInv, LoadInv
<1> QED
  BY <1>1, <1>2, <1>3, <1>4, <1>5 DEF WalkInv, IdleBase

\* A row that goes asks nothing of the pages.
LEMMA PeerDeletesInv ==
  ASSUME WalkInv, NEW r \in Rows, PeerDeletes(r)
  PROVE  WalkInv'
<1>1. /\ there' = there \ {r} /\ steady' = steady \ {r}
      /\ UNCHANGED <<kind, used, data, fetch, more, error, post, missing>>
  BY DEF PeerDeletes
<1>2. RowsInv' /\ PostType'
  BY <1>1 DEF WalkInv, RowsInv, PostType
<1>3. PostInv'
  BY <1>1 DEF WalkInv, PostInv
<1>4. DataInv' /\ FetchType' /\ MoreInv'
  BY <1>1 DEF WalkInv, DataInv, FetchType, MoreInv, HasNext
<1>5. LoadInv'
  <2>1. Collected' = Collected
    BY <1>1 DEF Collected
  <2> QED
    BY <1>1, <2>1 DEF WalkInv, LoadInv
<1> QED
  BY <1>1, <1>2, <1>3, <1>4, <1>5 DEF WalkInv, IdleBase

\* What a pager does leaves the walk alone.
LEMMA PagerLeavesWalk ==
  ASSUME WalkInv, kind = "pager", UNCHANGED <<kind, used, walk>>,
         there' \subseteq there, there' = there \/ steady = {}, PostType'
  PROVE  WalkInv'
<1>1. UNCHANGED <<kind, used, data, fetch, more, error, steady, missing>>
  BY DEF walk
<1>2. data = <<>> /\ fetch = NoFetch
  BY DEF WalkInv
<1>3. fetch'.op = "none" /\ fetch.op = "none"
  BY <1>1, <1>2 DEF NoFetch
<1> QED
  BY <1>1, <1>2, <1>3
  DEF WalkInv, RowsInv, DataInv, FetchType, LoadInv, MoreInv, PostInv, IdleBase

-----------------------------------------------------------------------------
(* A pager, step by step.                                                  *)

\* There is always a first page.
LEMMA TotalPagesPositive ==
  ASSUME NEW total \in Nat
  PROVE  TotalPages(total) \in Nat \ {0}
<1>1. Limit \in Nat /\ Limit > 0
  BY PagingAssumption
<1>2. CASE total = 0
  BY <1>2 DEF TotalPages
<1>3. CASE total # 0
  <2> DEFINE a == total + Limit - 1
             q == a \div Limit
  <2>1. a \in Nat /\ a >= Limit
    BY <1>1, <1>3
  <2> HIDE DEF a
  <2>2. q \in Int /\ a < Limit * (q + 1)
    BY <2>1, <1>1
  <2> HIDE DEF q
  <2>3. ASSUME q < 1 PROVE FALSE
    <3>1. Limit * (q + 1) <= Limit
      BY <2>2, <2>3, <1>1
    <3> QED
      BY <3>1, <2>1, <2>2, <1>1
  <2>4. q \in Nat \ {0}
    BY <2>2, <2>3
  <2> QED
    BY <2>4, <1>3 DEF TotalPages, a, q
<1> QED
  BY <1>2, <1>3

\* Nil and Sent are no answers.
LEMMA AnswersDiffer == Nil \notin Lists /\ Sent \notin Lists /\ Sent # Nil
<1>1. Lists \subseteq [items : SUBSET Rows, pages : Nat]
  BY DEF Lists
<1>2. Sent \in [items : SUBSET Rows, pages : Nat] /\ Sent.pages = 0
  BY DEF Sent
<1>3. \A a \in Lists : a.pages # 0
  BY DEF Lists
<1> QED
  BY <1>1, <1>2, <1>3, NilAssumption

\* A page of a list is an answer.
LEMMA OffsetPageIsList ==
  ASSUME there \in SUBSET Rows, NEW k \in Keys
  PROVE  OffsetPage(k) \in Lists
<1> DEFINE found == Found(k[1])
<1>1. found \in SUBSET Rows
  BY DEF Found
<1>2. Cardinality(found) \in Nat
  BY <1>1, RowsFinite
<1>3. TotalPages(Cardinality(found)) \in Nat \ {0}
  BY <1>2, TotalPagesPositive
<1>4. First(found, k[2] * Limit) \subseteq found
  BY DEF First
<1> QED
  BY <1>1, <1>3, <1>4 DEF OffsetPage, Lists

\* What a query returns has its type, and the page count follows it.
LEMMA ReturnInv ==
  ASSUME PagerInv, NEW k \in Keys, NEW c \in [Keys -> Lists \cup {Nil}], NEW f,
         Return(k, c, f)
  PROVE  /\ bridge' \in Lists \cup {Nil} /\ lastKey' \in Keys \cup {Nil}
         /\ known' \in Nat /\ KnownInv'
<1> DEFINE previous == IF bridge # Nil \/ lastKey = Nil THEN bridge ELSE c[lastKey]
           waiting == c[k] = Nil /\ k \notin f
<1>1. /\ bridge' = IF waiting THEN previous ELSE Nil
      /\ lastKey' = IF c[k] = Nil THEN lastKey ELSE k
      /\ known' = Known(IF waiting THEN previous ELSE c[k])
  BY DEF Return
<1>2. /\ bridge \in Lists \cup {Nil} /\ lastKey \in Keys \cup {Nil} /\ known \in Nat
      /\ c[k] \in Lists \cup {Nil}
  BY DEF PagerInv, PagerType
<1>3. previous \in Lists \cup {Nil}
  BY <1>2
<1> HIDE DEF previous
<1>4. \A x \in Lists : x.pages \in Nat
  BY DEF Lists
<1>5. known' \in Nat
  BY <1>1, <1>2, <1>3, <1>4 DEF Known
<1>6. KnownInv'
  BY <1>1 DEF KnownInv, Known
<1> QED
  BY <1>1, <1>2, <1>3, <1>5, <1>6

\* Rendering a chosen key keeps the invariant.
LEMMA RenderInv ==
  ASSUME PagerInv, NEW f \in Filters, NEW p \in 1..MaxPage, NEW st, NEW a,
         st \subseteq Keys, a \in [Keys -> Lists \cup {Nil, Sent}],
         \A j \in Keys : a[j] # Nil => j \in chosen,
         Render(<<f, p>>, cache, st, a),
         filter' = f, page' = p, typed' \in Filters,
         chosen' = chosen \cup {<<f, p>>}, events' \in 0..MaxEvents
  PROVE  PagerInv'
<1> DEFINE k == <<f, p>>
<1>1. k \in Keys
  BY DEF Keys
<1>2. Key' = k
  BY DEF Key
<1>3. PICK g \in SUBSET Keys :
        /\ cache' = cache /\ stale' = st /\ failed' = g
        /\ asked' = a \/ asked' = [a EXCEPT ![k] = Sent]
        /\ Return(k, cache, g)
  BY DEF Render, PagerInv, PagerType
<1> HIDE DEF k
<1>4. /\ bridge' \in Lists \cup {Nil} /\ lastKey' \in Keys \cup {Nil}
      /\ known' \in Nat /\ KnownInv'
  BY <1>1, <1>3, ReturnInv DEF PagerInv, PagerType
<1>5. PagerType'
  BY <1>1, <1>3, <1>4 DEF PagerInv, PagerType, Keys
<1>6. ChosenInv'
  <2>1. \A j \in Keys : asked'[j] # Nil \/ cache'[j] # Nil => j \in chosen'
    BY <1>1, <1>3 DEF PagerInv, ChosenInv, PagerType, k
  <2> QED
    BY <1>2, <2>1 DEF ChosenInv, k
<1> QED
  BY <1>4, <1>5, <1>6 DEF PagerInv

\* The bound is kept.
LEMMA EventsBounded ==
  ASSUME events \in 0..MaxEvents, Event \/ UNCHANGED events
  PROVE  events' \in 0..MaxEvents
  BY PagingAssumption DEF Event

\* What a walk does leaves the pager alone.
LEMMA WalkLeavesPager ==
  ASSUME PagerInv, UNCHANGED pager, Event \/ UNCHANGED events
  PROVE  PagerInv'
<1>1. events' \in 0..MaxEvents
  BY EventsBounded DEF PagerInv, PagerType
<1>2. Key' = Key
  BY DEF Key, pager
<1> QED
  BY <1>1, <1>2 DEF PagerInv, PagerType, ChosenInv, KnownInv, pager

\* Another page is chosen, or another search and page one.
LEMMA GotoInv ==
  ASSUME PagerInv, Event \/ UNCHANGED events,
         NEW f \in Filters, NEW p \in 1..MaxPage,
         filter' = f, page' = p, chosen' = chosen \cup {<<f, p>>},
         typed' \in Filters,
         Render(<<f, p>>, cache, stale, asked)
  PROVE  PagerInv'
<1>1. /\ stale \subseteq Keys /\ asked \in [Keys -> Lists \cup {Nil, Sent}]
      /\ \A j \in Keys : asked[j] # Nil => j \in chosen
      /\ events' \in 0..MaxEvents
  BY EventsBounded DEF PagerInv, PagerType, ChosenInv
<1> QED
  BY <1>1, RenderInv

\* Previous and Next.
LEMMA StepsInv ==
  ASSUME PagerInv, Previous \/ NextPage
  PROVE  PagerInv'
<1>1. page \in 1..MaxPage /\ filter \in Filters /\ known \in Nat /\ typed \in Filters
  BY DEF PagerInv, PagerType
<1>2. MaxPage \in Nat
  BY PagingAssumption
<1>3. CASE Previous
  <2>1. /\ Event /\ page - 1 \in 1..MaxPage
        /\ page' = page - 1 /\ chosen' = chosen \cup {<<filter, page - 1>>}
        /\ Render(<<filter, page - 1>>, cache, stale, asked)
        /\ UNCHANGED <<typed, filter>>
    BY <1>1, <1>2, <1>3 DEF Previous, Goto
  <2> QED
    BY <1>1, <2>1, GotoInv
<1>4. CASE NextPage
  <2>1. /\ Event /\ page + 1 \in 1..MaxPage
        /\ page' = page + 1 /\ chosen' = chosen \cup {<<filter, page + 1>>}
        /\ Render(<<filter, page + 1>>, cache, stale, asked)
        /\ UNCHANGED <<typed, filter>>
    BY <1>1, <1>2, <1>4 DEF NextPage, Goto
  <2> QED
    BY <1>1, <2>1, GotoInv
<1> QED
  BY <1>3, <1>4

\* The search changes and the page with it.
LEMMA DebouncedInv ==
  ASSUME PagerInv, Debounced
  PROVE  PagerInv'
<1>1. /\ typed \in Filters /\ 1 \in 1..MaxPage
  BY PagingAssumption DEF PagerInv, PagerType
<1>2. /\ filter' = typed /\ page' = 1 /\ chosen' = chosen \cup {<<typed, 1>>}
      /\ Render(<<typed, 1>>, cache, stale, asked) /\ UNCHANGED <<typed, events>>
  BY DEF Debounced
<1> QED
  BY <1>1, <1>2, GotoInv

\* Typing changes nothing yet.
LEMMA TypeInv ==
  ASSUME PagerInv, NEW f \in Filters, Type(f)
  PROVE  PagerInv'
<1>1. /\ Event /\ typed' = f
      /\ UNCHANGED <<page, filter, known, cache, asked, failed, stale, bridge, lastKey, chosen>>
  BY DEF Type
<1>2. events' \in 0..MaxEvents
  BY <1>1, EventsBounded DEF PagerInv, PagerType
<1>3. Key' = Key
  BY <1>1 DEF Key
<1> QED
  BY <1>1, <1>2, <1>3 DEF PagerInv, PagerType, ChosenInv, KnownInv

\* The server answers.
LEMMA ReadListInv ==
  ASSUME PagerInv, there \in SUBSET Rows, NEW k \in Keys, ReadList(k)
  PROVE  PagerInv'
<1>1. /\ asked[k] = Sent /\ asked' = [asked EXCEPT ![k] = OffsetPage(k)]
      /\ UNCHANGED <<page, typed, filter, known, cache, failed, stale, bridge, lastKey,
                     chosen, events>>
  BY DEF ReadList
<1>2. OffsetPage(k) \in Lists
  BY OffsetPageIsList
<1>3. Key' = Key
  BY <1>1 DEF Key
<1>4. k \in chosen
  BY <1>1, AnswersDiffer DEF PagerInv, ChosenInv
<1>5. PagerType'
  BY <1>1, <1>2 DEF PagerInv, PagerType
<1>6. ChosenInv'
  BY <1>1, <1>3, <1>4 DEF PagerInv, PagerType, ChosenInv
<1>7. KnownInv'
  BY <1>1, <1>3 DEF PagerInv, KnownInv
<1> QED
  BY <1>5, <1>6, <1>7 DEF PagerInv

\* The answer arrives.
LEMMA ListArrivesInv ==
  ASSUME PagerInv, NEW k \in Keys, ListArrives(k)
  PROVE  PagerInv'
<1> DEFINE c == [cache EXCEPT ![k] = asked[k]]
<1>1. /\ asked[k] \notin {Nil, Sent}
      /\ cache' = c /\ asked' = [asked EXCEPT ![k] = Nil] /\ failed' = failed \ {k}
      /\ Return(Key, c, failed \ {k})
      /\ stale' = stale \ {k}
      /\ UNCHANGED <<page, typed, filter, chosen, events>>
  BY DEF ListArrives
<1>2. Key' = Key /\ Key \in Keys
  BY <1>1 DEF Key, PagerInv, PagerType, Keys
<1>3. asked[k] \in Lists /\ k \in chosen
  BY <1>1 DEF PagerInv, PagerType, ChosenInv
<1>4. /\ c \in [Keys -> Lists \cup {Nil}] /\ c[k] = asked[k]
      /\ \A j \in Keys : c[j] # Nil => j \in chosen
      /\ Key # k => c[Key] = cache[Key]
  BY <1>2, <1>3 DEF PagerInv, PagerType, ChosenInv
<1> HIDE DEF c
<1>5. /\ bridge' \in Lists \cup {Nil} /\ lastKey' \in Keys \cup {Nil}
      /\ known' \in Nat /\ KnownInv'
  BY <1>1, <1>2, <1>4, ReturnInv
<1>9. PagerType'
  BY <1>1, <1>4, <1>5 DEF PagerInv, PagerType
<1>10. ChosenInv'
  <2>1. \A j \in Keys : asked'[j] # Nil => asked[j] # Nil
    BY <1>1 DEF PagerInv, PagerType
  <2> QED
    BY <1>1, <1>2, <1>4, <2>1 DEF PagerInv, ChosenInv
<1> QED
  BY <1>5, <1>9, <1>10 DEF PagerInv

\* The request fails.
LEMMA ListFailsInv ==
  ASSUME PagerInv, NEW k \in Keys, ListFails(k)
  PROVE  PagerInv'
<1>1. /\ Event /\ asked' = [asked EXCEPT ![k] = Nil] /\ failed' = failed \cup {k}
      /\ Return(Key, cache, failed \cup {k})
      /\ UNCHANGED <<page, typed, filter, cache, stale, chosen>>
  BY DEF ListFails
<1>2. Key' = Key /\ events' \in 0..MaxEvents
  BY <1>1, EventsBounded DEF Key, PagerInv, PagerType
<1>3. /\ bridge' \in Lists \cup {Nil} /\ lastKey' \in Keys \cup {Nil}
      /\ known' \in Nat /\ KnownInv'
  <2>1. Key \in Keys
    BY DEF PagerInv, PagerType, Key, Keys
  <2> QED
    BY <1>1, <2>1, ReturnInv DEF PagerInv, PagerType
<1>4. PagerType'
  BY <1>1, <1>2, <1>3 DEF PagerInv, PagerType
<1>5. ChosenInv'
  <2>1. \A j \in Keys : asked'[j] # Nil => asked[j] # Nil
    BY <1>1 DEF PagerInv, PagerType
  <2> QED
    BY <1>1, <1>2, <2>1 DEF PagerInv, ChosenInv
<1> QED
  BY <1>3, <1>4, <1>5 DEF PagerInv

\* The key on the screen is rendered again.
LEMMA RenderAgain ==
  ASSUME PagerInv, Event \/ UNCHANGED events, NEW st, NEW a,
         st \subseteq Keys, a \in [Keys -> Lists \cup {Nil, Sent}],
         \A j \in Keys : a[j] # Nil => j \in chosen,
         Render(Key, cache, st, a), UNCHANGED <<filter, page, typed, chosen>>
  PROVE  PagerInv'
<1>1. /\ filter \in Filters /\ page \in 1..MaxPage /\ typed' \in Filters
      /\ chosen' = chosen \cup {<<filter, page>>}
      /\ filter' = filter /\ page' = page
      /\ events' \in 0..MaxEvents
  BY EventsBounded DEF PagerInv, PagerType, ChosenInv, Key
<1>2. Render(<<filter, page>>, cache, st, a)
  BY DEF Key
<1> QED
  BY <1>1, <1>2, RenderInv

\* Retry asks for the page on show once more.
LEMMA RetryListInv ==
  ASSUME PagerInv, RetryList
  PROVE  PagerInv'
<1>1. /\ stale \cup {Key} \subseteq Keys /\ asked \in [Keys -> Lists \cup {Nil, Sent}]
      /\ \A j \in Keys : asked[j] # Nil => j \in chosen
  BY DEF PagerInv, PagerType, ChosenInv, Key, Keys
<1>2. /\ Event /\ Render(Key, cache, stale \cup {Key}, asked)
      /\ UNCHANGED <<filter, page, typed, chosen>>
  BY DEF RetryList
<1> QED
  BY <1>1, <1>2, RenderAgain

\* After a removal every page that was read is stale, and the one on show is
\* asked for again.
LEMMA RemoveAnsweredInv ==
  ASSUME PagerInv, RemoveAnswered
  PROVE  PagerInv'
<1> DEFINE a == IF cache[Key] = Nil THEN asked ELSE [asked EXCEPT ![Key] = Nil]
           st == {k \in Keys : cache[k] # Nil}
<1>1. /\ st \subseteq Keys /\ a \in [Keys -> Lists \cup {Nil, Sent}]
      /\ \A j \in Keys : a[j] # Nil => j \in chosen
  BY DEF PagerInv, PagerType, ChosenInv
<1>2. Render(Key, cache, st, a) /\ UNCHANGED <<filter, page, typed, chosen, events>>
  BY DEF RemoveAnswered
<1> HIDE DEF a, st
<1> QED
  BY <1>1, <1>2, RenderAgain

-----------------------------------------------------------------------------
(* Every step.                                                             *)

PagingInv == WalkInv /\ PagerInv

\* It holds at the start.
LEMMA InitInv == Init => PagingInv
<1> SUFFICES ASSUME Init PROVE PagingInv
  OBVIOUS
<1>1. /\ fetch = NoFetch \/ (kind # "pager" /\ fetch = Load(1))
      /\ kind = "pager" => fetch = NoFetch
      /\ data = <<>> /\ steady = {} /\ there = Seed /\ used = Seed
      /\ kind \in {"tasks", "comments", "history", "pager"}
      /\ more = FALSE /\ error = FALSE
      /\ post = [pc |-> "idle", row |-> Nil]
  BY DEF Init
<1>2. fetch \in {[op |-> "none", want |-> 0, got |-> <<>>, read |-> Nil, base |-> {}],
                 [op |-> "pages", want |-> 1, got |-> <<>>, read |-> Nil, base |-> {}]}
  BY <1>1 DEF NoFetch, Load
<1>3. FetchType /\ Chain(kind, <<>>) /\ Collected = <<>>
  <2>1. FetchType
    <3>1. <<>> \in Seq(Page)
      OBVIOUS
    <3>2. CASE fetch = [op |-> "none", want |-> 0, got |-> <<>>, read |-> Nil, base |-> {}]
      BY <3>1, <3>2 DEF FetchType
    <3>3. CASE fetch = [op |-> "pages", want |-> 1, got |-> <<>>, read |-> Nil, base |-> {}]
      BY <3>1, <3>3 DEF FetchType
    <3> QED
      BY <1>2, <3>2, <3>3
  <2>2. Chain(kind, <<>>)
    BY DEF Chain
  <2>3. Collected = <<>>
    BY <1>2 DEF Collected
  <2> QED
    BY <2>1, <2>2, <2>3
<1>4. RowsInv /\ DataInv /\ IdleBase /\ LoadInv /\ MoreInv /\ PostType /\ PostInv
  BY <1>1, <1>2, <1>3, PagingAssumption
  DEF RowsInv, DataInv, IdleBase, LoadInv, MoreInv, PostType, PostInv
<1>5. WalkInv
  BY <1>1, <1>3, <1>4 DEF WalkInv
<1>6. /\ page = 1 /\ typed = "all" /\ filter = "all" /\ known = 0
      /\ cache = [k \in Keys |-> Nil]
      /\ asked = [k \in Keys |-> IF kind = "pager" /\ k = <<"all", 1>> THEN Sent ELSE Nil]
      /\ failed = {} /\ stale = {} /\ bridge = Nil /\ lastKey = Nil /\ chosen = {<<"all", 1>>}
      /\ events = 0
  BY DEF Init
<1>7. Key \in Keys /\ Key = <<"all", 1>> /\ 1 \in 1..MaxPage /\ 0 \in 0..MaxEvents
  BY <1>6, PagingAssumption DEF Key, Keys, Filters
<1>8. PagerInv
  BY <1>6, <1>7 DEF PagerInv, PagerType, ChosenInv, KnownInv, Filters
<1> QED
  BY <1>5, <1>8 DEF PagingInv

\* The walk's part is kept.
LEMMA StepKeepsWalk ==
  ASSUME PagingInv, [Next]_vars
  PROVE  WalkInv'
<1> USE DEF PagingInv
<1>1. CASE ReadPage
  BY <1>1, ReadPageInv
<1>2. CASE PageArrives
  BY <1>2, PageArrivesInv
<1>3. CASE RequestFails
  BY <1>3, RequestFailsInv
<1>4. CASE LoadMore
  BY <1>4, LoadMoreInv
<1>5. CASE Reload
  BY <1>5, ReloadInv
<1>6. CASE Post
  BY <1>6, PostWalkInv
<1>7. CASE PostCommits
  BY <1>7, PostCommitsInv
<1>8. CASE PostAnswered
  BY <1>8, PostAnsweredInv
<1>9. ASSUME NEW r \in Rows, PeerCreates(r) PROVE WalkInv'
  BY <1>9, PeerCreatesInv
<1>10. ASSUME NEW r \in Rows, PeerDeletes(r) PROVE WalkInv'
  BY <1>10, PeerDeletesInv
<1>11. ASSUME UNCHANGED <<kind, there, used, post, walk>> PROVE WalkInv'
  <2>1. UNCHANGED <<kind, there, used, post, data, fetch, more, error, steady, missing>>
    BY <1>11 DEF walk
  <2>2. RowsInv' /\ DataInv' /\ FetchType' /\ IdleBase' /\ PostType' /\ PostInv'
    BY <2>1 DEF WalkInv, RowsInv, DataInv, FetchType, IdleBase, PostType, PostInv
  <2>3. LoadInv' /\ MoreInv'
    BY <2>1 DEF WalkInv, LoadInv, MoreInv, HasNext, Collected
  <2> QED
    BY <2>1, <2>2, <2>3 DEF WalkInv
<1>12. CASE Previous \/ NextPage
  BY <1>11, <1>12 DEF Previous, NextPage, Goto
<1>13. CASE Debounced \/ RetryList
  BY <1>11, <1>13 DEF Debounced, RetryList
<1>14. CASE \E f \in Filters : Type(f)
  BY <1>11, <1>14 DEF Type
<1>15. CASE \E k \in Keys : ReadList(k) \/ ListArrives(k) \/ ListFails(k)
  BY <1>11, <1>15 DEF ReadList, ListArrives, ListFails
<1>16. CASE RemoveCommits
  <2>1. /\ kind = "pager" /\ UNCHANGED <<kind, used, walk>> /\ there' \subseteq there
        /\ post' \in {[post EXCEPT !.pc = "saved"], [pc |-> "idle", row |-> Nil]}
    BY <1>16 DEF RemoveCommits
  <2>2. PostType' /\ steady = {}
    BY <2>1 DEF WalkInv, PostType
  <2> QED
    BY <2>1, <2>2, PagerLeavesWalk
<1>17. CASE RemoveAnswered
  <2>1. /\ kind = "pager" /\ UNCHANGED <<kind, used, walk, there>>
        /\ post' = [pc |-> "idle", row |-> Nil]
    BY <1>17 DEF RemoveAnswered
  <2>2. PostType'
    BY <2>1 DEF PostType
  <2> QED
    BY <2>1, <2>2, PagerLeavesWalk
<1>18. ASSUME NEW r \in Rows, RemoveRow(r) PROVE WalkInv'
  <2>1. /\ kind = "pager" /\ UNCHANGED <<kind, used, walk, there>>
        /\ post' = [pc |-> "sent", row |-> r]
    BY <1>18 DEF RemoveRow
  <2>2. PostType'
    BY <2>1 DEF PostType
  <2> QED
    BY <2>1, <2>2, PagerLeavesWalk
<1>19. CASE Rest \/ UNCHANGED vars
  BY <1>11, <1>19 DEF Rest, vars
<1> QED
  BY <1>1, <1>2, <1>3, <1>4, <1>5, <1>6, <1>7, <1>8, <1>9, <1>10, <1>12, <1>13, <1>14,
     <1>15, <1>16, <1>17, <1>18, <1>19 DEF Next

\* The pager's part is kept.
LEMMA StepKeepsPager ==
  ASSUME PagingInv, [Next]_vars
  PROVE  PagerInv'
<1> USE DEF PagingInv
<1>1. CASE \/ ReadPage \/ PageArrives \/ RequestFails \/ LoadMore \/ Reload
           \/ Post \/ PostCommits \/ PostAnswered
  <2>1. UNCHANGED pager /\ (Event \/ UNCHANGED events)
    BY <1>1 DEF ReadPage, PageArrives, RequestFails, LoadMore, Reload, Post, PostCommits,
                PostAnswered
  <2> QED
    BY <2>1, WalkLeavesPager
<1>2. CASE Previous \/ NextPage
  BY <1>2, StepsInv
<1>3. CASE Debounced
  BY <1>3, DebouncedInv
<1>4. CASE RetryList
  BY <1>4, RetryListInv
<1>5. ASSUME NEW f \in Filters, Type(f) PROVE PagerInv'
  BY <1>5, TypeInv
<1>6. ASSUME NEW k \in Keys, ReadList(k) \/ ListArrives(k) \/ ListFails(k) PROVE PagerInv'
  <2>1. there \in SUBSET Rows
    BY DEF WalkInv, RowsInv
  <2> QED
    BY <1>6, <2>1, ReadListInv, ListArrivesInv, ListFailsInv
<1>7. CASE RemoveAnswered
  BY <1>7, RemoveAnsweredInv
<1>8. CASE RemoveCommits \/ \E r \in Rows : RemoveRow(r) \/ PeerCreates(r) \/ PeerDeletes(r)
  <2>1. UNCHANGED pager /\ (Event \/ UNCHANGED events)
    BY <1>8 DEF RemoveCommits, RemoveRow, PeerCreates, PeerDeletes
  <2> QED
    BY <2>1, WalkLeavesPager
<1>9. CASE Rest \/ UNCHANGED vars
  <2>1. UNCHANGED pager /\ (Event \/ UNCHANGED events)
    BY <1>9 DEF Rest, vars
  <2> QED
    BY <2>1, WalkLeavesPager
<1> QED
  BY <1>1, <1>2, <1>3, <1>4, <1>5, <1>6, <1>7, <1>8, <1>9 DEF Next

\* The inductive invariant of the specification.
THEOREM PagingInvariance == Spec => []PagingInv
<1>1. PagingInv /\ [Next]_vars => PagingInv'
  BY StepKeepsWalk, StepKeepsPager DEF PagingInv
<1> QED
  BY <1>1, InitInv, PTL DEF Spec

-----------------------------------------------------------------------------
(* What it gives.                                                          *)

\* Types: every page and answer that is on the screen or on its way is one.
THEOREM TypeCorrectness == Spec => []TypeOK
<1>1. PagingInv => TypeOK
  <2> SUFFICES ASSUME PagingInv PROVE TypeOK
    OBVIOUS
  <2>1. \A p \in Page : IsPage(p)
    BY DEF Page, IsPage
  <2>2. \A a \in Lists \cup {Nil} : IsAnswer(a)
    BY DEF Lists, IsAnswer
  <2>3. /\ kind \in {"tasks", "comments", "history", "pager"}
        /\ there \subseteq used /\ used \subseteq Rows /\ steady \subseteq there
        /\ more \in BOOLEAN /\ error \in BOOLEAN
    BY DEF PagingInv, WalkInv, RowsInv
  <2>4. /\ data \in Seq(Page) /\ fetch.got \in Seq(Page) /\ fetch.read \in Page \cup {Nil}
        /\ fetch.op \in {"none", "pages", "more"} /\ fetch.want \in Nat
    BY DEF PagingInv, WalkInv, DataInv, Chain, FetchType
  <2>5. \A s \in Seq(Page) : \A i \in DOMAIN s : s[i] \in Page
    OBVIOUS
  <2>6. /\ post.pc \in {"idle", "sent", "saved", "done"} /\ post.row \in Rows \cup {Nil}
    BY DEF PagingInv, WalkInv, PostType
  <2>7. PagerType
    BY DEF PagingInv, PagerInv
  <2> QED
    BY <2>1, <2>2, <2>3, <2>4, <2>5, <2>6, <2>7 DEF TypeOK, PagerType
<1> QED
  BY <1>1, PagingInvariance, PTL

\* Pages never overlap, and skip no row that was there all along, whatever is
\* created, deleted, refetched or lost in the meantime.
THEOREM PagesFitTogether == Spec => []WalkIsExact
<1>1. PagingInv => WalkIsExact
  <2> SUFFICES ASSUME PagingInv PROVE WalkIsExact
    OBVIOUS
  <2>1. Chain(kind, data) /\ DOMAIN data = 1..Len(data)
    BY DEF PagingInv, WalkInv, DataInv, Chain
  <2>2. \A i, j \in DOMAIN data : i < j =>
          \A r \in data[i].items, q \in data[j].items : Precedes(r, q)
    BY <2>1, OrdIsPrecedes DEF Chain
  <2>3. data # <<>> => \A r \in steady : Covers(kind, data, r)
    BY DEF PagingInv, WalkInv, DataInv
  <2> QED
    BY <2>1, <2>2, <2>3, CoveredRows DEF WalkIsExact
<1> QED
  BY <1>1, PagingInvariance, PTL

\* What the user added is shown or can be reached, but for the reasons on
\* record.
THEOREM PostedRowsAreFound == Spec => []PostedIsReachable
<1>1. PagingInv => PostedIsReachable
  <2> SUFFICES ASSUME PagingInv, Quiet, post.pc = "done", post.row \in there \ missing
               PROVE  \/ WalkScreen = "rows" /\ post.row \in Shown
                      \/ HasNext /\ CanLoadMore /\ Precedes(LastOf(Shown), post.row)
    BY DEF PostedIsReachable
  <2>1. fetch.op = "none" /\ kind \in {"tasks", "comments", "history"}
    BY DEF PagingInv, WalkInv, PostType, Quiet
  <2>2. Covers(kind, data, post.row) /\ Chain(kind, data)
    BY <2>1 DEF PagingInv, WalkInv, PostInv, DataInv
  <2>3. CASE post.row \in Shown
    <3>1. Shown # {}
      BY <2>3
    <3>2. WalkScreen = "rows"
      BY <2>1, <3>1 DEF WalkScreen
    <3> QED
      BY <2>3, <3>2
  <2>4. CASE HasNext /\ Precedes(LastOf(Shown), post.row)
    <3>1. Shown # {}
      BY <2>2, <2>4, LastShown
    <3>2. CanLoadMore
      BY <2>1, <2>4, <3>1
      DEF CanLoadMore, ColumnLoadsMore, CommentsLoadMore, HistoryLoadMore, FetchingMore
    <3> QED
      BY <2>4, <3>2
  <2> QED
    BY <2>2, <2>3, <2>4, CoveredRows
<1> QED
  BY <1>1, PagingInvariance, PTL

\* Nothing is asked for or kept that the user did not choose.
THEOREM NothingUnchosenIsAsked == Spec => []FilterResetsPage
<1>1. PagingInv => FilterResetsPage
  BY DEF PagingInv, PagerInv, ChosenInv, FilterResetsPage
<1> QED
  BY <1>1, PagingInvariance, PTL

\* Errors do not take the pager away: it goes with an answer that counts one
\* page, for the page on the screen or for the last one that had any.
THEOREM ThePagerStays == Spec => PagerSurvivesErrors
<1> DEFINE Gone == PagerShown /\ ~PagerShown' =>
              \E k \in {Key', lastKey'} \ {Nil} : cache'[k] # Nil /\ cache'[k].pages = 1
<1>1. ASSUME PagingInv, NEW k \in Keys, NEW f,
             cache' \in [Keys -> Lists \cup {Nil}], Key' = k, Return(k, cache', f)
      PROVE  Gone
  <2> SUFFICES ASSUME PagerShown, ~PagerShown'
               PROVE  \E j \in {Key', lastKey'} \ {Nil} : cache'[j] # Nil /\ cache'[j].pages = 1
    OBVIOUS
  <2> DEFINE previous == IF bridge # Nil \/ lastKey = Nil THEN bridge ELSE cache'[lastKey]
             waiting == cache'[k] = Nil /\ k \notin f
  <2>1. /\ lastKey' = IF cache'[k] = Nil THEN lastKey ELSE k
        /\ known' = Known(IF waiting THEN previous ELSE cache'[k])
    BY <1>1 DEF Return
  <2>2. known > 1 /\ ~(known' > 1) /\ known # known'
    BY DEF PagerShown
  <2>3. \A x \in Lists : ~(x.pages > 1) => x.pages = 1
    BY DEF Lists
  <2>4. k # Nil
    BY <1>1, NilAssumption DEF Keys, Filters
  <2>5. CASE ~waiting
    <3>1. cache'[k] # Nil /\ known' = cache'[k].pages
      BY <2>1, <2>2, <2>5 DEF Known
    <3>2. cache'[k].pages = 1
      BY <3>1, <2>2, <2>3, <1>1
    <3> QED
      BY <3>1, <3>2, <2>4, <1>1
  <2>6. CASE waiting
    <3>1. previous # Nil /\ known' = previous.pages
      BY <2>1, <2>2, <2>6 DEF Known
    <3>2. bridge = Nil
      BY <3>1, <2>2, <1>1 DEF PagingInv, PagerInv, KnownInv
    <3>3. lastKey # Nil /\ lastKey' = lastKey /\ lastKey \in Keys
      BY <3>1, <3>2, <2>1, <2>6, <1>1 DEF PagingInv, PagerInv, PagerType
    <3>4. cache'[lastKey] # Nil /\ known' = cache'[lastKey].pages
      BY <3>1, <3>2, <3>3
    <3>5. cache'[lastKey].pages = 1
      BY <3>3, <3>4, <2>2, <2>3, <1>1
    <3> QED
      BY <3>3, <3>4, <3>5
  <2> QED
    BY <2>5, <2>6
<1>2. PagingInv /\ PagingInv' /\ [Next]_vars => Gone
  <2> SUFFICES ASSUME PagingInv, PagingInv', [Next]_vars PROVE Gone
    OBVIOUS
  <2> USE DEF PagingInv
  <2>1. Key \in Keys /\ Key' \in Keys /\ cache' \in [Keys -> Lists \cup {Nil}]
    BY DEF PagerInv, PagerType, Key, Keys
  <2>2. ASSUME UNCHANGED known PROVE Gone
    BY <2>2 DEF PagerShown
  <2>3. ASSUME NEW k \in Keys, NEW st, NEW a, Render(k, cache, st, a), Key' = k
        PROVE  Gone
    <3>1. cache' = cache /\ \E f : Return(k, cache', f)
      BY <2>3 DEF Render
    <3> QED
      BY <2>1, <2>3, <3>1, <1>1
  <2>4. CASE Previous \/ NextPage
    <3>1. PICK p : page' = p /\ Render(<<filter, p>>, cache, stale, asked) /\ UNCHANGED filter
      BY <2>4 DEF Previous, NextPage, Goto
    <3>2. Key' = <<filter, p>>
      BY <3>1 DEF Key
    <3> QED
      BY <2>1, <2>3, <3>1, <3>2
  <2>5. CASE Debounced
    <3>1. Render(<<typed, 1>>, cache, stale, asked) /\ Key' = <<typed, 1>>
      BY <2>5 DEF Debounced, Key
    <3> QED
      BY <2>1, <2>3, <3>1
  <2>6. CASE RetryList
    <3>1. Render(Key, cache, stale \cup {Key}, asked) /\ Key' = Key
      BY <2>6 DEF RetryList, Key
    <3> QED
      BY <2>1, <2>3, <3>1
  <2>7. CASE RemoveAnswered
    <3>1. (\E st, a : Render(Key, cache, st, a)) /\ Key' = Key
      BY <2>7 DEF RemoveAnswered, Key
    <3> QED
      BY <2>1, <2>3, <3>1
  <2>8. ASSUME NEW k \in Keys, ListArrives(k) \/ ListFails(k) PROVE Gone
    <3>1. (\E f : Return(Key, cache', f)) /\ Key' = Key
      BY <2>8 DEF ListArrives, ListFails, Key
    <3> QED
      BY <2>1, <3>1, <1>1
  <2>9. CASE \/ ReadPage \/ PageArrives \/ RequestFails \/ LoadMore \/ Reload
             \/ Post \/ PostCommits \/ PostAnswered
             \/ RemoveCommits \/ \E r \in Rows : RemoveRow(r) \/ PeerCreates(r) \/ PeerDeletes(r)
             \/ Rest \/ UNCHANGED vars
    <3>1. UNCHANGED known
      BY <2>9 DEF ReadPage, PageArrives, RequestFails, LoadMore, Reload, Post, PostCommits,
                  PostAnswered, RemoveCommits, RemoveRow, PeerCreates, PeerDeletes, Rest, vars,
                  pager
    <3> QED
      BY <2>2, <3>1
  <2>10. CASE \/ \E f \in Filters : Type(f)
              \/ \E k \in Keys : ReadList(k)
    <3>1. UNCHANGED known
      BY <2>10 DEF Type, ReadList
    <3> QED
      BY <2>2, <3>1
  <2> QED
    BY <2>4, <2>5, <2>6, <2>7, <2>8, <2>9, <2>10 DEF Next
<1> HIDE DEF Gone
<1>3. PagingInv /\ PagingInv' /\ [Next]_vars => [Gone]_vars
  BY <1>2
<1>4. [][Gone]_vars => PagerSurvivesErrors
  BY PTL DEF PagerSurvivesErrors, Gone
<1> QED
  BY <1>3, <1>4, PagingInvariance, PTL DEF Spec
=============================================================================
