---------------------------- MODULE AccessProofs ----------------------------
(***************************************************************************)
(* Proofs about Access for every set of users, workspaces, invites, names  *)
(* and requests, with and without faults.  IInv, the inductive invariant,  *)
(* is defined in Access; it is preserved because                           *)
(*   - most steps change one request slot and leave the tables alone       *)
(*     (SlotStep), and                                                     *)
(*   - each statement on the tables keeps the tables' own invariants       *)
(*     and what the other handlers read of their rows (the *Step lemmas).  *)
(*                                                                         *)
(* The second half is about the pages in Redis, with Redis up and no read  *)
(* side by side with a write: each page is right, or a request under way   *)
(* has still to delete it (PagesInv).                                      *)
(***************************************************************************)
EXTENDS Access, TLAPS

\* The parts of IInv about the tables alone, and about one request record.
DbInv == DbTypeOK /\ OnePendingInvite /\ OneOwner /\ NoOrphans
           /\ MembersWereInvited /\ RowsOK
SlotOK(q) == HandlerOK(q) /\ OwnerChecked(q)
CacheOK == cache \in [Key -> (SUBSET Rows) \cup {Nil}]

\* The invariant as tables, cache, fresh ids and one condition per request slot.
LEMMA IInvParts ==
  IInv <=> /\ DbInv /\ CacheOK /\ FreshIds
           /\ req \in [Requests -> RequestRecord]
           /\ \A r \in Requests : SlotOK(req[r])
BY DEF IInv, TypeOK, DbInv, CacheOK, SlotOK, WritesStayAuthorized

\* A slot that has answered satisfies its condition.
LEMMA FreeSlot ==
  ASSUME NEW a \in Replies
  PROVE  Free(a) \in RequestRecord /\ SlotOK(Free(a))
BY DEF Free, RequestRecord, SlotOK, HandlerOK, OwnerChecked, OwnerWrites,
       Inserting, ListOps, PCs, BeforeInsert

\* A step that leaves the tables alone keeps their part.
LEMMA TablesKept ==
  ASSUME DbInv, UNCHANGED <<ws, role, invite>> PROVE DbInv'
<1>1. ws' = ws /\ role' = role /\ invite' = invite
  OBVIOUS
<1>2. DbTypeOK' BY <1>1 DEF DbInv, DbTypeOK
<1>3. OnePendingInvite' BY <1>1 DEF DbInv, OnePendingInvite
<1>4. OneOwner' BY <1>1 DEF DbInv, OneOwner, WorkspaceExists
<1>5. NoOrphans'
  BY <1>1 DEF DbInv, NoOrphans, InviteExists, WorkspaceExists, IsMember
<1>6. MembersWereInvited' BY <1>1 DEF DbInv, MembersWereInvited
<1>7. RowsOK'
  BY <1>1 DEF DbInv, RowsOK, WorkspaceExists, KnownInvite, KnownWorkspace
<1>. QED BY <1>2, <1>3, <1>4, <1>5, <1>6, <1>7 DEF DbInv

-----------------------------------------------------------------------------
(* Steps that leave the tables alone and give slot r the record q.         *)
LEMMA SlotStep ==
  ASSUME IInv, NEW r \in Requests, NEW q \in RequestRecord,
         UNCHANGED <<ws, role, invite>>, CacheOK',
         req' = [req EXCEPT ![r] = q], SlotOK(q),
         \A p \in Requests \ {r} :
           /\ q.pc = "insertWorkspace" /\ At(p, "insertWorkspace") => req[p].ws # q.ws
           /\ Inserting(q) /\ Inserting(req[p]) => req[p].inv # q.inv
  PROVE  IInv'
<1>1. DbInv'
  BY IInvParts, TablesKept
<1>2. req' \in [Requests -> RequestRecord]
  BY IInvParts
<1>3. \A p \in Requests : SlotOK(req[p])'
  <2>1. SUFFICES ASSUME NEW p \in Requests PROVE SlotOK(req[p])'
    OBVIOUS
  <2>2. req'[p] = IF p = r THEN q ELSE req[p]
    BY IInvParts
  <2>3. SlotOK(req[p])
    BY IInvParts
  <2>4. ws' = ws /\ role' = role /\ invite' = invite
    OBVIOUS
  <2>. DEFINE x == IF p = r THEN q ELSE req[p]
  <2>5. HandlerOK(x) /\ OwnerChecked(x)
    BY <2>3 DEF SlotOK
  <2>6. req'[p] = x
    BY <2>2
  <2>. HIDE DEF x
  <2>7. HandlerOK(req[p])'
    BY <2>4, <2>5, <2>6 DEF HandlerOK, Inserting, KnownWorkspace, KnownInvite
  <2>8. OwnerChecked(req[p])'
    BY <2>4, <2>5, <2>6 DEF OwnerChecked, WorkspaceExists, IsOwner
  <2>. QED BY <2>7, <2>8 DEF SlotOK
<1>4. FreshIds'
  BY IInvParts DEF FreshIds, At, Inserting
<1>. QED
  <2>1. IInv' <=> /\ DbInv' /\ CacheOK' /\ FreshIds'
                  /\ req' \in [Requests -> RequestRecord]
                  /\ \A p \in Requests : SlotOK(req[p])'
    BY DEF IInv, TypeOK, DbInv, CacheOK, SlotOK, WritesStayAuthorized
  <2>. QED BY <1>1, <1>2, <1>3, <1>4, <2>1

\* A step that only answers request r.
LEMMA AnswerStep ==
  ASSUME IInv, NEW r \in Requests, NEW a \in Replies, Answer(r, a),
         UNCHANGED <<ws, role, invite>>, CacheOK'
  PROVE  IInv'
<1>1. Free(a) \in RequestRecord /\ SlotOK(Free(a))
  BY FreeSlot
<1>2. Free(a).pc = "replied" /\ ~Inserting(Free(a))
  BY DEF Free, Inserting
<1>3. req' = [req EXCEPT ![r] = Free(a)]
  BY DEF Answer
<1>. QED BY <1>1, <1>2, <1>3, SlotStep

\* A handler goes on with what it holds: nothing about its ids changes, so
\* they stay its own.
LEMMA GoOnStep ==
  ASSUME IInv, NEW r \in Requests, NEW q \in RequestRecord,
         UNCHANGED <<ws, role, invite>>, CacheOK',
         req' = [req EXCEPT ![r] = q], SlotOK(q),
         q.pc # "insertWorkspace",
         Inserting(q) => Inserting(req[r]) /\ q.inv = req[r].inv
  PROVE  IInv'
<1>1. \A p \in Requests \ {r} :
        Inserting(q) /\ Inserting(req[p]) => req[p].inv # q.inv
  BY IInvParts DEF FreshIds
<1>. QED BY <1>1, SlotStep

\* A step that only moves request r to its next await.
LEMMA GotoStep ==
  ASSUME IInv, NEW r \in Requests, NEW pc \in PCs,
         UNCHANGED <<ws, role, invite>>, CacheOK', Goto(r, pc),
         SlotOK([req[r] EXCEPT !.pc = pc]),
         pc # "insertWorkspace",
         pc \in BeforeInsert => req[r].pc \in BeforeInsert
  PROVE  IInv'
<1>. DEFINE q == [req[r] EXCEPT !.pc = pc]
<1>1. req[r] \in RequestRecord
  BY IInvParts
<1>2. q \in RequestRecord /\ q.pc = pc /\ q.op = req[r].op /\ q.inv = req[r].inv
  BY <1>1 DEF RequestRecord
<1>3. req' = [req EXCEPT ![r] = q]
  BY DEF Goto
<1>4. Inserting(q) => Inserting(req[r]) /\ q.inv = req[r].inv
  BY <1>2 DEF Inserting
<1>. HIDE DEF q
<1>5. SlotOK(q)
  BY DEF q
<1>. QED BY <1>2, <1>3, <1>4, <1>5, GoOnStep

\* The record of a handler that only moves on to another await.
LEMMA Moved ==
  ASSUME IInv, NEW r \in Requests, NEW pc \in PCs
  PROVE  LET q == [req[r] EXCEPT !.pc = pc] IN
         /\ q \in RequestRecord
         /\ q.pc = pc /\ q.op = req[r].op /\ q.actor = req[r].actor
         /\ q.ws = req[r].ws /\ q.user = req[r].user /\ q.inv = req[r].inv
<1>1. req[r] \in RequestRecord
  BY IInvParts
<1>. QED BY <1>1 DEF RequestRecord

\* What IInv says of one slot.
LEMMA SlotFacts ==
  ASSUME IInv, NEW r \in Requests
  PROVE  req[r] \in RequestRecord /\ HandlerOK(req[r]) /\ OwnerChecked(req[r])
BY IInvParts DEF SlotOK

\* The cache's part is kept with the cache.
LEMMA CacheKept == CacheOK /\ UNCHANGED cache => CacheOK'
BY DEF CacheOK

-----------------------------------------------------------------------------
(* The steps that only read the tables.                                    *)
LEMMA AssertOwnerStep ==
  ASSUME IInv, NEW r \in Requests, AssertOwner(r) PROVE IInv'
<1>. DEFINE pc == AfterAssertOwner(req[r].op)
            q == [req[r] EXCEPT !.pc = pc]
<1>1. CacheOK' /\ UNCHANGED <<ws, role, invite>>
  BY IInvParts, CacheKept DEF AssertOwner
<1>2. CASE Goto(r, pc) /\ IsOwner(req[r].ws, req[r].actor)
  <2>1. pc \in {"findInvitee", "findTarget", "findMemberIds", "update"}
    BY DEF AfterAssertOwner
  <2>2. pc \in PCs /\ pc # "insertWorkspace"
    BY <2>1 DEF PCs
  <2>3. HandlerOK(q)
    BY <2>1, <2>2, Moved, SlotFacts DEF HandlerOK, Inserting, BeforeInsert,
       AfterAssertOwner, AllOps, ListOps, AssertOwner, At
  <2>4. OwnerChecked(q)
    BY <1>2, <2>1, <2>2, Moved DEF OwnerChecked
  <2>. QED
    BY <1>1, <1>2, <2>2, <2>3, <2>4, GotoStep DEF SlotOK, BeforeInsert, AssertOwner, At
<1>3. CASE Answer(r, "NotAMember") \/ Answer(r, "OwnerOnly")
  BY <1>1, <1>3, AnswerStep DEF Replies
<1>. QED BY <1>2, <1>3 DEF AssertOwner

\* assertMember, on the way to the cache or to the answer.
LEMMA AssertMemberStep ==
  ASSUME IInv, NEW r \in Requests, AssertMember(r) PROVE IInv'
<1>. DEFINE pc == IF Doing(r, "findOne") THEN "cacheSet" ELSE "cacheGet"
            q == [req[r] EXCEPT !.pc = pc]
<1>1. CacheOK' /\ UNCHANGED <<ws, role, invite>>
  BY IInvParts, CacheKept DEF AssertMember
<1>2. CASE Goto(r, pc)
  <2>1. pc \in {"cacheSet", "cacheGet"}
    OBVIOUS
  <2>2. pc \in PCs /\ pc # "insertWorkspace" /\ pc \notin BeforeInsert
    BY <2>1 DEF PCs, BeforeInsert
  <2>. HIDE DEF pc
  <2>3. HandlerOK(q)
    BY <2>1, <2>2, Moved, SlotFacts DEF HandlerOK, Inserting, ListOps, AssertMember, At
  <2>4. OwnerChecked(q)
    BY <2>1, <2>2, Moved DEF OwnerChecked, OwnerWrites
  <2>. QED BY <1>1, <1>2, <2>2, <2>3, <2>4, GotoStep DEF SlotOK
<1>3. CASE Answer(r, "NotAMember")
  BY <1>1, <1>3, AnswerStep DEF Replies
<1>. QED BY <1>2, <1>3 DEF AssertMember

\* assertMember on findOne's cached branch.
LEMMA AssertMemberOfCachedStep ==
  ASSUME IInv, NEW r \in Requests, AssertMemberOfCached(r) PROVE IInv'
<1>1. CacheOK' /\ UNCHANGED <<ws, role, invite>>
  BY IInvParts, CacheKept DEF AssertMemberOfCached
<1>2. Answer(r, "Ok") \/ Answer(r, "NotAMember")
  BY DEF AssertMemberOfCached
<1>. QED BY <1>1, <1>2, AnswerStep DEF Replies

\* removeMember's target is a member and not the owner when it goes on.
LEMMA FindTargetStep ==
  ASSUME IInv, NEW r \in Requests, FindTarget(r) PROVE IInv'
<1>. DEFINE q == [req[r] EXCEPT !.pc = "deleteMembership"]
<1>1. CacheOK' /\ UNCHANGED <<ws, role, invite>>
  BY IInvParts, CacheKept DEF FindTarget
<1>2. CASE Goto(r, "deleteMembership") /\ req[r].user # ws[req[r].ws].owner
  <2>1. "deleteMembership" \in PCs /\ "deleteMembership" \notin BeforeInsert
    BY DEF PCs, BeforeInsert
  <2>2. HandlerOK(q)
    BY <2>1, Moved, SlotFacts DEF HandlerOK, Inserting, ListOps, FindTarget, At
  <2>3. OwnerChecked(q)
    BY <1>2, <2>1, Moved, SlotFacts DEF OwnerChecked, OwnerWrites, FindTarget, At
  <2>. QED BY <1>1, <1>2, <2>1, <2>2, <2>3, GotoStep DEF SlotOK
<1>3. CASE Answer(r, "BadRequest") \/ Answer(r, "NotFound")
  BY <1>1, <1>3, AnswerStep DEF Replies
<1>. QED BY <1>2, <1>3 DEF FindTarget

\* create's invitee is a user other than the actor when it goes on.
LEMMA FindInviteeStep ==
  ASSUME IInv, NEW r \in Requests, FindInvitee(r) PROVE IInv'
<1>. DEFINE q == [req[r] EXCEPT !.pc = "findPending"]
<1>1. CacheOK' /\ UNCHANGED <<ws, role, invite>>
  BY IInvParts, CacheKept DEF FindInvitee
<1>2. CASE Goto(r, "findPending") /\ req[r].user \in Users \ {req[r].actor}
  <2>1. "findPending" \in PCs /\ req[r].pc \in BeforeInsert
    BY DEF PCs, BeforeInsert, FindInvitee, At
  <2>2. HandlerOK(q)
    BY <1>2, <2>1, Moved, SlotFacts
    DEF HandlerOK, Inserting, BeforeInsert, ListOps, FindInvitee, At
  <2>3. OwnerChecked(q)
    BY <1>2, <2>1, Moved, SlotFacts DEF OwnerChecked, OwnerWrites, FindInvitee, At
  <2>. QED BY <1>1, <1>2, <2>1, <2>2, <2>3, GotoStep DEF SlotOK
<1>3. CASE \/ Answer(r, "BadRequest") \/ Answer(r, "NotFound")
           \/ Answer(r, "AlreadyMember")
  BY <1>1, <1>3, AnswerStep DEF Replies
<1>. QED BY <1>2, <1>3 DEF FindInvitee

\* create's look for a pending invite.
LEMMA FindPendingStep ==
  ASSUME IInv, NEW r \in Requests, FindPending(r) PROVE IInv'
<1>. DEFINE q == [req[r] EXCEPT !.pc = "insertInvite"]
<1>1. CacheOK' /\ UNCHANGED <<ws, role, invite>>
  BY IInvParts, CacheKept DEF FindPending
<1>2. CASE Goto(r, "insertInvite")
  <2>1. "insertInvite" \in PCs /\ req[r].pc \in BeforeInsert
    BY DEF PCs, BeforeInsert, FindPending, At
  <2>2. HandlerOK(q)
    BY <1>2, <2>1, Moved, SlotFacts
    DEF HandlerOK, Inserting, BeforeInsert, ListOps, FindPending, At
  <2>3. OwnerChecked(q)
    BY <1>2, <2>1, Moved, SlotFacts DEF OwnerChecked, OwnerWrites, FindPending, At
  <2>. QED BY <1>1, <1>2, <2>1, <2>2, <2>3, GotoStep DEF SlotOK
<1>3. CASE Answer(r, "AlreadyInvited")
  BY <1>1, <1>3, AnswerStep DEF Replies
<1>. QED BY <1>2, <1>3 DEF FindPending

\* The invite belongs to the actor when accept or decline goes on.
LEMMA FindInviteStep ==
  ASSUME IInv, NEW r \in Requests, FindInvite(r) PROVE IInv'
<1>. DEFINE pc == IF Doing(r, "accept") THEN "acceptTx" ELSE "declineUpdate"
            q == [req[r] EXCEPT !.pc = pc]
<1>1. CacheOK' /\ UNCHANGED <<ws, role, invite>>
  BY IInvParts, CacheKept DEF FindInvite
<1>2. CASE Goto(r, pc) /\ invite[req[r].inv].user = req[r].actor
  <2>1. pc \in {"acceptTx", "declineUpdate"}
    OBVIOUS
  <2>2. pc \in PCs /\ pc # "insertWorkspace" /\ pc \notin BeforeInsert
    BY <2>1 DEF PCs, BeforeInsert
  <2>. HIDE DEF pc
  <2>3. HandlerOK(q)
    BY <1>2, <2>1, <2>2, Moved, SlotFacts
    DEF HandlerOK, Inserting, ListOps, FindInvite, At
  <2>4. OwnerChecked(q)
    BY <2>1, <2>2, Moved DEF OwnerChecked, OwnerWrites
  <2>. QED BY <1>1, <1>2, <2>2, <2>3, <2>4, GotoStep DEF SlotOK
<1>3. CASE \/ Answer(r, "NotFound") \/ Answer(r, "NotYours")
           \/ Answer(r, "AlreadyActioned")
  BY <1>1, <1>3, AnswerStep DEF Replies
<1>. QED BY <1>2, <1>3 DEF FindInvite


\* A response read from the tables can be cached.
LEMMA QueryType ==
  ASSUME IInv, NEW k \in Key PROVE Query(k) \in SUBSET Rows
<1>1. DbTypeOK
  BY IInvParts DEF DbInv
<1>2. CASE k[1] = "detail"
  <2>1. k[2] \in Workspaces
    BY <1>2 DEF Key
  <2>2. ws[k[2]].name \in Names \cup {Nil}
    BY <1>1, <2>1 DEF DbTypeOK
  <2>. QED BY <1>2, <2>1, <2>2 DEF Query, Rows
<1>3. CASE k[1] = "members"
  <2>1. k[2] \in Workspaces
    BY <1>3 DEF Key
  <2>2. \A u \in Users : role[<<k[2], u>>] \in Roles
    BY <1>1, <2>1 DEF DbTypeOK
  <2>3. Query(k) = {<<u, role[<<k[2], u>>]>> : u \in MembersOf(k[2])}
    BY <1>3 DEF Query
  <2>4. MembersOf(k[2]) \subseteq Users
    BY DEF MembersOf
  <2>5. ASSUME NEW row \in Query(k) PROVE row \in Users \X Roles
    <3>1. PICK u \in MembersOf(k[2]) : row = <<u, role[<<k[2], u>>]>>
      BY <2>3
    <3>2. u \in Users /\ role[<<k[2], u>>] \in Roles
      BY <2>2, <2>4
    <3>. QED BY <3>1, <3>2
  <2>. QED BY <2>5 DEF Rows
<1>4. CASE k[1] = "list"
  <2>1. \A w \in Workspaces : ws[w].name \in Names \cup {Nil}
    BY <1>1 DEF DbTypeOK
  <2>. QED BY <1>4, <2>1 DEF Query, Rows
<1>5. CASE k[1] = "invites"
  <2>1. ASSUME NEW i \in Invites, InviteExists(i)
        PROVE  /\ invite[i].status \in Statuses
               /\ ws[invite[i].ws].name \in Names \cup {Nil}
    <3>1. invite[i].status \in Statuses /\ KnownInvite(i)
      BY <1>1, <2>1 DEF DbTypeOK, InviteExists, KnownInvite
    <3>2. invite[i].ws \in Workspaces
      BY <3>1, IInvParts DEF DbInv, RowsOK
    <3>. QED BY <1>1, <3>1, <3>2 DEF DbTypeOK
  <2>. QED BY <1>5, <2>1 DEF Query, Rows
<1>. QED BY <1>2, <1>3, <1>4, <1>5 DEF Key

\* getWorkspaceOrThrow, with the row findOne keeps.
LEMMA GetWorkspaceStep ==
  ASSUME IInv, NEW r \in Requests, GetWorkspace(r) PROVE IInv'
<1>. DEFINE pc == AfterGetWorkspace(req[r].op)
            x == IF Doing(r, "findOne") THEN Query(<<"detail", req[r].ws>>) ELSE {}
            q == [req[r] EXCEPT !.pc = pc, !.seen = x]
<1>1. CacheOK' /\ UNCHANGED <<ws, role, invite>>
  BY IInvParts, CacheKept DEF GetWorkspace
<1>2. CASE req' = [req EXCEPT ![r].pc = pc, ![r].seen = x] /\ WorkspaceExists(req[r].ws)
  <2>1. pc \in {"assertMember", "assertOwner"}
    BY DEF AfterGetWorkspace
  <2>2. req[r] \in RequestRecord /\ HandlerOK(req[r]) /\ req[r].pc = "getWorkspace"
    BY SlotFacts DEF GetWorkspace, At
  <2>3. x \in SUBSET Rows
    <3>1. CASE Doing(r, "findOne")
      <4>1. <<"detail", req[r].ws>> \in Key
        BY <2>2, <3>1 DEF HandlerOK, Key, Doing, ListOps
      <4>2. Query(<<"detail", req[r].ws>>) \in SUBSET Rows
        BY <4>1, QueryType
      <4>. QED BY <3>1, <4>2
    <3>2. CASE ~Doing(r, "findOne")
      <4>1. x = {}
        BY <3>2
      <4>. QED BY <4>1
    <3>. QED BY <3>1, <3>2
  <2>. HIDE DEF pc, x
  <2>4. /\ q \in RequestRecord
        /\ q.pc = pc /\ q.op = req[r].op /\ q.actor = req[r].actor
        /\ q.ws = req[r].ws /\ q.user = req[r].user /\ q.inv = req[r].inv
    BY <2>1, <2>2, <2>3 DEF RequestRecord, PCs
  <2>5. req' = [req EXCEPT ![r] = q]
    BY <1>2
  <2>. HIDE DEF q
  <2>6. HandlerOK(q)
    BY <2>1, <2>2, <2>4 DEF HandlerOK, Inserting, BeforeInsert, ListOps
  <2>7. OwnerChecked(q)
    BY <2>1, <2>4 DEF OwnerChecked, OwnerWrites
  <2>8. Inserting(q) => Inserting(req[r]) /\ q.inv = req[r].inv
    BY <2>2, <2>4 DEF Inserting, BeforeInsert
  <2>9. q.pc # "insertWorkspace"
    BY <2>1, <2>4
  <2>. QED BY <1>1, <2>4, <2>5, <2>6, <2>7, <2>8, <2>9, GoOnStep DEF SlotOK
<1>3. CASE Answer(r, "NotFound")
  BY <1>1, <1>3, AnswerStep DEF Replies
<1>. QED BY <1>2, <1>3 DEF GetWorkspace

\* A handler of no list that goes on to delete keys; the record it then has.
LEMMA Purging ==
  ASSUME IInv, NEW r \in Requests, NEW s \in Seq(SUBSET Key),
         ~IsFree(r), req[r].op \notin ListOps
  PROVE  LET q == [req[r] EXCEPT !.pc = "purge", !.purge = s] IN
         /\ q \in RequestRecord /\ q.pc = "purge" /\ ~Inserting(q)
         /\ q.op = req[r].op /\ q.ws = req[r].ws /\ q.inv = req[r].inv
         /\ SlotOK(q)
<1>. DEFINE q == [req[r] EXCEPT !.pc = "purge", !.purge = s]
<1>1. /\ q \in RequestRecord
      /\ q.pc = "purge" /\ q.op = req[r].op /\ q.actor = req[r].actor
      /\ q.ws = req[r].ws /\ q.user = req[r].user /\ q.inv = req[r].inv
  BY SlotFacts DEF RequestRecord, PCs
<1>2. ~Inserting(q)
  BY <1>1 DEF Inserting, BeforeInsert
<1>3. OwnerChecked(q)
  BY <1>1 DEF OwnerChecked, OwnerWrites
<1>4. HandlerOK(q)
  BY <1>1, <1>2, SlotFacts DEF HandlerOK, ListOps, IsFree
<1>. QED BY <1>1, <1>2, <1>3, <1>4 DEF SlotOK

\* A step that only puts request r before its deletions.
LEMMA PurgeStep ==
  ASSUME IInv, NEW r \in Requests, NEW s \in Seq(SUBSET Key),
         ~IsFree(r), req[r].op \notin ListOps,
         req' = [req EXCEPT ![r].pc = "purge", ![r].purge = s],
         UNCHANGED <<ws, role, invite>>, CacheOK'
  PROVE  IInv'
<1>. DEFINE q == [req[r] EXCEPT !.pc = "purge", !.purge = s]
<1>1. q \in RequestRecord /\ q.pc = "purge" /\ ~Inserting(q) /\ SlotOK(q)
  BY Purging
<1>2. req' = [req EXCEPT ![r] = q]
  OBVIOUS
<1>. HIDE DEF q
<1>. QED BY <1>1, <1>2, GoOnStep

\* The members' list keys become the keys to delete.
LEMMA FindMemberIdsStep ==
  ASSUME IInv, NEW r \in Requests, FindMemberIds(r) PROVE IInv'
<1>. DEFINE w == req[r].ws
            lists == {"list"} \X MembersOf(w)
            keys == <<{<<"detail", w>>}, {<<"members", w>>}, lists>>
            q == [req[r] EXCEPT !.pc = "delete", !.purge = keys]
<1>1. CacheOK' /\ UNCHANGED <<ws, role, invite>>
  BY IInvParts, CacheKept DEF FindMemberIds
<1>2. /\ req[r] \in RequestRecord /\ HandlerOK(req[r]) /\ OwnerChecked(req[r])
      /\ req[r].pc = "findMemberIds"
  BY SlotFacts DEF FindMemberIds, At
<1>3. req[r].op \notin ListOps /\ w \in Workspaces /\ ~IsFree(r)
  BY <1>2 DEF HandlerOK, IsFree
<1>4. lists \in SUBSET Key
  BY DEF MembersOf, Key
<1>5. CASE Doing(r, "removeWorkspace") /\ req' = [req EXCEPT ![r].pc = "delete", ![r].purge = keys]
  <2>1. keys \in Seq(SUBSET Key)
    <3>1. {<<"detail", w>>} \in SUBSET Key /\ {<<"members", w>>} \in SUBSET Key
      BY <1>3 DEF Key
    <3>. HIDE DEF lists
    <3>. QED BY <1>4, <3>1
  <2>. HIDE DEF keys
  <2>2. /\ q \in RequestRecord
        /\ q.pc = "delete" /\ q.op = req[r].op /\ q.actor = req[r].actor
        /\ q.ws = req[r].ws /\ q.user = req[r].user /\ q.inv = req[r].inv
    BY <1>2, <2>1 DEF RequestRecord, PCs
  <2>3. req' = [req EXCEPT ![r] = q]
    BY <1>5
  <2>. HIDE DEF q
  <2>4. ~Inserting(q)
    BY <2>2 DEF Inserting, BeforeInsert
  <2>5. HandlerOK(q)
    BY <1>2, <1>5, <2>2, <2>4 DEF HandlerOK, Doing, ListOps
  <2>6. OwnerChecked(q)
    BY <1>2, <2>2 DEF OwnerChecked, OwnerWrites
  <2>. QED BY <1>1, <2>2, <2>3, <2>4, <2>5, <2>6, GoOnStep DEF SlotOK
<1>6. CASE PurgeThenOk(r, <<lists>>)
  <2>1. <<lists>> \in Seq(SUBSET Key)
    <3>. HIDE DEF lists
    <3>. QED BY <1>4
  <2>. QED BY <1>1, <1>3, <1>6, <2>1, PurgeStep DEF PurgeThenOk
<1>. QED BY <1>5, <1>6 DEF FindMemberIds

\* decline reads its row back.
LEMMA ReloadInviteStep ==
  ASSUME IInv, NEW r \in Requests, ReloadInvite(r) PROVE IInv'
<1>1. CacheOK' /\ UNCHANGED <<ws, role, invite>>
  BY IInvParts, CacheKept DEF ReloadInvite
<1>2. req[r].actor \in Users /\ req[r].op \notin ListOps /\ ~IsFree(r)
  BY SlotFacts DEF ReloadInvite, At, HandlerOK, IsFree
<1>3. CASE PurgeThenOk(r, <<{<<"invites", req[r].actor>>}>>)
  <2>1. {<<"invites", req[r].actor>>} \in SUBSET Key
    BY <1>2 DEF Key
  <2>2. <<{<<"invites", req[r].actor>>}>> \in Seq(SUBSET Key)
    BY <2>1
  <2>. QED BY <1>1, <1>2, <1>3, <2>2, PurgeStep DEF PurgeThenOk
<1>4. CASE Answer(r, "NotFound")
  BY <1>1, <1>4, AnswerStep DEF Replies
<1>. QED BY <1>3, <1>4 DEF ReloadInvite


-----------------------------------------------------------------------------
(* The steps on Redis.                                                     *)
LEMMA DropType ==
  ASSUME CacheOK, NEW k, Drop(k) PROVE CacheOK'
<1>1. CASE UNCHANGED cache
  BY <1>1, CacheKept
<1>2. CASE cache' = [cache EXCEPT ![k] = Nil]
  BY <1>2 DEF CacheOK
<1>. QED BY <1>1, <1>2 DEF Drop

\* One DEL, lost or not.
LEMMA DelKeyStep ==
  ASSUME IInv, NEW r \in Requests, DelKey(r) PROVE IInv'
<1>. DEFINE p == req[r].purge
<1>1. PICK k \in Head(p) :
        Drop(k) /\ req' = [req EXCEPT ![r].purge = <<Head(@) \ {k}>> \o Tail(@)]
  BY DEF DelKey
<1>. DEFINE s == <<Head(p) \ {k}>> \o Tail(p)
            q == [req[r] EXCEPT !.pc = "purge", !.purge = s]
<1>2. CacheOK' /\ UNCHANGED <<ws, role, invite>>
  BY <1>1, IInvParts, DropType DEF DelKey
<1>3. req[r] \in RequestRecord /\ HandlerOK(req[r]) /\ req[r].pc = "purge"
  BY SlotFacts DEF DelKey, At
<1>4. s \in Seq(SUBSET Key)
  <2>1. p \in Seq(SUBSET Key) /\ p # <<>>
    BY <1>3 DEF RequestRecord, DelKey
  <2>2. Head(p) \in SUBSET Key /\ Tail(p) \in Seq(SUBSET Key)
    BY <2>1
  <2>3. <<Head(p) \ {k}>> \in Seq(SUBSET Key)
    BY <2>2
  <2>. QED BY <2>2, <2>3
<1>5. req' = [req EXCEPT ![r].pc = "purge", ![r].purge = s]
  <2>1. req' = [req EXCEPT ![r] = [req[r] EXCEPT !.purge = s]]
    BY <1>1
  <2>. HIDE DEF s
  <2>2. [req[r] EXCEPT !.purge = s] = [req[r] EXCEPT !.pc = "purge", !.purge = s]
    BY <1>3 DEF RequestRecord
  <2>. QED BY <2>1, <2>2
<1>6. req[r].op \notin ListOps /\ ~IsFree(r)
  BY <1>3 DEF HandlerOK, IsFree
<1>. QED BY <1>2, <1>4, <1>5, <1>6, PurgeStep

\* A group of deletions is done.
LEMMA PurgeAwaitedStep ==
  ASSUME IInv, NEW r \in Requests, PurgeAwaited(r) PROVE IInv'
<1>. DEFINE s == Tail(req[r].purge)
<1>1. CacheOK' /\ UNCHANGED <<ws, role, invite>>
  BY IInvParts, CacheKept DEF PurgeAwaited
<1>2. req[r] \in RequestRecord /\ HandlerOK(req[r]) /\ req[r].pc = "purge"
  BY SlotFacts DEF PurgeAwaited, At
<1>3. CASE req' = [req EXCEPT ![r].purge = Tail(@)]
  <2>1. s \in Seq(SUBSET Key)
    <3>1. req[r].purge \in Seq(SUBSET Key) /\ req[r].purge # <<>>
      BY <1>2 DEF RequestRecord, PurgeAwaited
    <3>. QED BY <3>1
  <2>2. req' = [req EXCEPT ![r].pc = "purge", ![r].purge = s]
    <3>1. req' = [req EXCEPT ![r] = [req[r] EXCEPT !.purge = s]]
      BY <1>3
    <3>. HIDE DEF s
    <3>2. [req[r] EXCEPT !.purge = s] = [req[r] EXCEPT !.pc = "purge", !.purge = s]
      BY <1>2 DEF RequestRecord
    <3>. QED BY <3>1, <3>2
  <2>3. req[r].op \notin ListOps /\ ~IsFree(r)
    BY <1>2 DEF HandlerOK, IsFree
  <2>. QED BY <1>1, <2>1, <2>2, <2>3, PurgeStep
<1>4. CASE Answer(r, "Ok")
  BY <1>1, <1>4, AnswerStep DEF Replies
<1>. QED BY <1>3, <1>4 DEF PurgeAwaited

\* update deletes the detail page.
LEMMA PurgeDetailStep ==
  ASSUME IInv, NEW r \in Requests, PurgeDetail(r) PROVE IInv'
<1>. DEFINE q == [req[r] EXCEPT !.pc = "findMemberIds"]
<1>1. CacheOK' /\ UNCHANGED <<ws, role, invite>>
  BY IInvParts, DropType DEF PurgeDetail
<1>2. "findMemberIds" \in PCs /\ "findMemberIds" \notin BeforeInsert
  BY DEF PCs, BeforeInsert
<1>3. HandlerOK(q)
  BY <1>2, Moved, SlotFacts DEF HandlerOK, Inserting, ListOps, PurgeDetail, At
<1>4. OwnerChecked(q)
  BY <1>2, Moved, SlotFacts DEF OwnerChecked, OwnerWrites, PurgeDetail, At
<1>. QED BY <1>1, <1>2, <1>3, <1>4, GotoStep DEF SlotOK, PurgeDetail

\* A hit or a miss.
LEMMA CacheGetStep ==
  ASSUME IInv, NEW r \in Requests, CacheGet(r) PROVE IInv'
<1>1. CacheOK' /\ UNCHANGED <<ws, role, invite>>
  BY IInvParts, CacheKept DEF CacheGet
<1>2. ASSUME NEW pc \in PCs, Goto(r, pc),
             \/ pc \in {"assertMemberOfCached", "getWorkspace"} /\ Doing(r, "findOne")
             \/ pc = "query"
      PROVE  IInv'
  <2>. DEFINE q == [req[r] EXCEPT !.pc = pc]
  <2>1. pc # "insertWorkspace"
    BY <1>2
  <2>2. /\ q.pc = pc /\ q.op = req[r].op /\ q.actor = req[r].actor
        /\ q.ws = req[r].ws /\ q.user = req[r].user /\ q.inv = req[r].inv
        /\ q \in RequestRecord
    BY Moved
  <2>3. req' = [req EXCEPT ![r] = q]
    BY <1>2 DEF Goto
  <2>. HIDE DEF q
  <2>4. ~Inserting(q)
    BY <1>2, <2>2 DEF Inserting, BeforeInsert, Doing
  <2>5. HandlerOK(q)
    BY <1>2, <2>2, <2>4, SlotFacts DEF HandlerOK, ListOps, CacheGet, At, Doing
  <2>6. OwnerChecked(q)
    BY <1>2, <2>2 DEF OwnerChecked, OwnerWrites
  <2>. QED BY <1>1, <2>1, <2>2, <2>3, <2>4, <2>5, <2>6, GoOnStep DEF SlotOK
<1>3. CASE Answer(r, "Ok")
  BY <1>1, <1>3, AnswerStep DEF Replies
<1>4. {"assertMemberOfCached", "getWorkspace", "query"} \subseteq PCs
  BY DEF PCs
<1>. QED BY <1>2, <1>3, <1>4 DEF CacheGet

\* Every read handler has a key.
LEMMA KeyOfType ==
  ASSUME IInv, NEW r \in Requests, ~IsFree(r) PROVE KeyOf(r) \in Key
BY SlotFacts DEF KeyOf, Key, HandlerOK, IsFree, Doing, ListOps

\* A read handler keeps what its query returned.
LEMMA RunQueryStep ==
  ASSUME IInv, NEW r \in Requests, RunQuery(r) PROVE IInv'
<1>. DEFINE x == Query(KeyOf(r))
            q == [req[r] EXCEPT !.pc = "cacheSet", !.seen = x]
<1>1. CacheOK' /\ UNCHANGED <<ws, role, invite>>
  BY IInvParts, CacheKept DEF RunQuery
<1>2. req[r] \in RequestRecord /\ HandlerOK(req[r]) /\ req[r].pc = "query"
  BY SlotFacts DEF RunQuery, At
<1>3. x \in SUBSET Rows
  BY <1>2, KeyOfType, QueryType DEF IsFree
<1>4. req' = [req EXCEPT ![r] = q]
  BY DEF RunQuery
<1>. HIDE DEF x
<1>5. /\ q \in RequestRecord
      /\ q.pc = "cacheSet" /\ q.op = req[r].op /\ q.actor = req[r].actor
      /\ q.ws = req[r].ws /\ q.user = req[r].user /\ q.inv = req[r].inv
  BY <1>2, <1>3 DEF RequestRecord, PCs
<1>. HIDE DEF q
<1>6. ~Inserting(q)
  BY <1>5 DEF Inserting, BeforeInsert
<1>7. HandlerOK(q)
  BY <1>2, <1>5, <1>6 DEF HandlerOK, ListOps
<1>8. OwnerChecked(q)
  BY <1>5 DEF OwnerChecked, OwnerWrites
<1>. QED BY <1>1, <1>4, <1>5, <1>6, <1>7, <1>8, GoOnStep DEF SlotOK

\* The page is stored, or the SET is lost.
LEMMA CacheSetStep ==
  ASSUME IInv, NEW r \in Requests, CacheSet(r) PROVE IInv'
<1>1. req[r].seen \in SUBSET Rows
  BY SlotFacts DEF RequestRecord
<1>2. CacheOK'
  BY <1>1, IInvParts DEF CacheOK, CacheSet
<1>. QED BY <1>2, AnswerStep DEF CacheSet, Replies

\* A handler that fails leaves the tables as they are.
LEMMA FailStep ==
  ASSUME IInv, NEW r \in Requests, Fail(r) PROVE IInv'
<1>1. CacheOK'
  BY IInvParts, CacheKept DEF Fail
<1>. QED BY <1>1, AnswerStep DEF Fail, Replies

\* What IInv says of anything but the cache.
LEMMA CacheStep ==
  ASSUME IInv, UNCHANGED <<ws, role, invite, req>>, CacheOK' PROVE IInv'
<1>1. CASE \E r \in Requests : TRUE
  <2>1. PICK r \in Requests : TRUE
    BY <1>1
  <2>2. req' = [req EXCEPT ![r] = req[r]]
    BY IInvParts
  <2>3. req[r] \in RequestRecord /\ SlotOK(req[r])
    BY IInvParts
  <2>4. \A p \in Requests \ {r} :
          /\ req[r].pc = "insertWorkspace" /\ At(p, "insertWorkspace")
               => req[p].ws # req[r].ws
          /\ Inserting(req[r]) /\ Inserting(req[p]) => req[p].inv # req[r].inv
    BY IInvParts DEF FreshIds, At
  <2>. QED BY <2>2, <2>3, <2>4, SlotStep
<1>2. CASE Requests = {}
  <2>1. DbInv'
    BY IInvParts, TablesKept
  <2>2. req' \in [Requests -> RequestRecord]
    BY IInvParts
  <2>. QED
    BY <1>2, <2>1, <2>2 DEF IInv, TypeOK, DbInv, CacheOK, FreshIds, WritesStayAuthorized
<1>. QED BY <1>1, <1>2

\* An entry's TTL ends.
LEMMA ExpireStep ==
  ASSUME IInv, NEW k \in Key, Expire(k) PROVE IInv'
<1>0. CacheOK
  BY IInvParts
<1>1. CacheOK'
  BY <1>0 DEF CacheOK, Expire
<1>. QED BY <1>1, CacheStep DEF Expire


-----------------------------------------------------------------------------
(* A request arrives.                                                      *)
LEMMA StartedFields ==
  ASSUME NEW op \in AllOps, NEW pc \in PCs, NEW actor \in Users,
         NEW w \in Workspaces \cup {Nil}, NEW u \in Users \cup {Nil},
         NEW i \in Invites \cup {Nil}
  PROVE  LET q == Started(op, pc, actor, w, u, i) IN
         /\ q \in RequestRecord
         /\ q.op = op /\ q.pc = pc /\ q.actor = actor /\ q.ws = w
         /\ q.user = u /\ q.inv = i
<1>1. Started(op, pc, actor, w, u, i) \in RequestRecord
  <2>1. <<>> \in Seq(SUBSET Key) /\ {} \in SUBSET Rows /\ "none" \in Replies
    BY DEF Replies
  <2>. QED BY <2>1 DEF Started, RequestRecord
<1>. QED BY <1>1 DEF Started

\* A client sends a request whose parameters satisfy the slot's condition
\* and whose new id, if any, no other request holds.
LEMMA StartStep ==
  ASSUME IInv, NEW r \in Requests, NEW op \in AllOps, NEW pc \in PCs,
         NEW actor \in Users, NEW w \in Workspaces \cup {Nil},
         NEW u \in Users \cup {Nil}, NEW i \in Invites \cup {Nil},
         Start(r, op, pc, actor, w, u, i),
         SlotOK(Started(op, pc, actor, w, u, i)),
         \A p \in Requests :
           /\ pc = "insertWorkspace" /\ At(p, "insertWorkspace") => req[p].ws # w
           /\ op = "createInvite" => req[p].inv # i
  PROVE  IInv'
<1>. DEFINE q == Started(op, pc, actor, w, u, i)
<1>1. CacheOK' /\ UNCHANGED <<ws, role, invite>>
  BY IInvParts, CacheKept DEF Start
<1>2. req' = [req EXCEPT ![r] = q]
  BY DEF Start
<1>3. q \in RequestRecord /\ q.op = op /\ q.pc = pc /\ q.ws = w /\ q.inv = i
  BY StartedFields
<1>4. SlotOK(q)
  OBVIOUS
<1>. HIDE DEF q
<1>5. \A p \in Requests \ {r} :
        /\ q.pc = "insertWorkspace" /\ At(p, "insertWorkspace") => req[p].ws # q.ws
        /\ Inserting(q) /\ Inserting(req[p]) => req[p].inv # q.inv
  BY <1>3 DEF Inserting
<1>. QED BY <1>1, <1>2, <1>3, <1>4, <1>5, SlotStep

\* Requests about an existing workspace, an existing invite, or a user's lists.
LEMMA StartedOnWorkspace ==
  ASSUME NEW op \in AllOps \ (ListOps \cup {"createWorkspace", "createInvite",
                                           "accept", "decline"}),
         NEW pc \in {"getWorkspace", "cacheGet"}, NEW actor \in Users,
         NEW w \in Workspaces, KnownWorkspace(w), NEW u \in Users \cup {Nil},
         op = "removeMember" => u \in Users
  PROVE  SlotOK(Started(op, pc, actor, w, u, Nil))
<1>. DEFINE q == Started(op, pc, actor, w, u, Nil)
<1>1. pc \in PCs
  BY DEF PCs
<1>2. /\ q.op = op /\ q.pc = pc /\ q.actor = actor /\ q.ws = w
      /\ q.user = u /\ q.inv = Nil
  BY <1>1, StartedFields
<1>. HIDE DEF q
<1>3. HandlerOK(q)
  BY <1>2 DEF HandlerOK, ListOps, Inserting
<1>4. OwnerChecked(q)
  BY <1>2 DEF OwnerChecked, OwnerWrites
<1>. QED BY <1>3, <1>4 DEF SlotOK, q

\* The parameters of accept and decline.
LEMMA StartedOnInvite ==
  ASSUME NEW op \in {"accept", "decline"}, NEW actor \in Users,
         NEW i \in Invites, KnownInvite(i), invite[i].ws \in Workspaces,
         KnownWorkspace(invite[i].ws)
  PROVE  SlotOK(Started(op, "findInvite", actor, invite[i].ws, actor, i))
<1>. DEFINE q == Started(op, "findInvite", actor, invite[i].ws, actor, i)
<1>1. "findInvite" \in PCs /\ op \in AllOps
  BY DEF PCs, AllOps
<1>2. /\ q.op = op /\ q.pc = "findInvite" /\ q.actor = actor
      /\ q.ws = invite[i].ws /\ q.user = actor /\ q.inv = i
  BY <1>1, StartedFields
<1>. HIDE DEF q
<1>3. HandlerOK(q)
  BY <1>1, <1>2 DEF HandlerOK, ListOps, Inserting
<1>4. OwnerChecked(q)
  BY <1>2 DEF OwnerChecked, OwnerWrites
<1>. QED BY <1>3, <1>4 DEF SlotOK, q

\* The parameters of the two list reads.
LEMMA StartedOnList ==
  ASSUME NEW op \in ListOps, NEW actor \in Users
  PROVE  SlotOK(Started(op, "cacheGet", actor, Nil, Nil, Nil))
<1>. DEFINE q == Started(op, "cacheGet", actor, Nil, Nil, Nil)
<1>1. "cacheGet" \in PCs /\ op \in AllOps
  BY DEF PCs, AllOps, ListOps
<1>2. q.op = op /\ q.pc = "cacheGet" /\ q.actor = actor
  BY DEF Started
<1>. HIDE DEF q
<1>3. HandlerOK(q)
  BY <1>1, <1>2 DEF HandlerOK, ListOps, Inserting
<1>4. OwnerChecked(q)
  BY <1>2 DEF OwnerChecked, OwnerWrites
<1>. QED BY <1>3, <1>4 DEF SlotOK, q

\* The parameters of the two handlers that insert a row under a new id.
LEMMA StartedCreations ==
  ASSUME NEW actor \in Users, NEW w \in Workspaces
  PROVE  /\ ws[w].life = "unused" =>
               SlotOK(Started("createWorkspace", "insertWorkspace", actor, w, Nil, Nil))
         /\ \A u \in Users \cup {Nil}, i \in Invites :
               KnownWorkspace(w) /\ invite[i].status = "unused" =>
                 SlotOK(Started("createInvite", "getWorkspace", actor, w, u, i))
<1>1. /\ {"insertWorkspace", "getWorkspace"} \subseteq PCs
      /\ {"createWorkspace", "createInvite"} \subseteq AllOps
  BY DEF PCs, AllOps
<1>2. ASSUME ws[w].life = "unused"
      PROVE  SlotOK(Started("createWorkspace", "insertWorkspace", actor, w, Nil, Nil))
  <2>. DEFINE q == Started("createWorkspace", "insertWorkspace", actor, w, Nil, Nil)
  <2>1. /\ q.op = "createWorkspace" /\ q.pc = "insertWorkspace"
        /\ q.actor = actor /\ q.ws = w
    BY <1>1, StartedFields
  <2>. HIDE DEF q
  <2>2. HandlerOK(q)
    BY <1>1, <1>2, <2>1 DEF HandlerOK, ListOps, Inserting
  <2>3. OwnerChecked(q)
    BY <2>1 DEF OwnerChecked, OwnerWrites
  <2>. QED BY <2>2, <2>3 DEF SlotOK, q
<1>3. ASSUME NEW u \in Users \cup {Nil}, NEW i \in Invites,
             KnownWorkspace(w), invite[i].status = "unused"
      PROVE  SlotOK(Started("createInvite", "getWorkspace", actor, w, u, i))
  <2>. DEFINE q == Started("createInvite", "getWorkspace", actor, w, u, i)
  <2>1. /\ q.op = "createInvite" /\ q.pc = "getWorkspace"
        /\ q.actor = actor /\ q.ws = w /\ q.inv = i
    BY <1>1, StartedFields
  <2>. HIDE DEF q
  <2>2. HandlerOK(q)
    BY <1>1, <1>3, <2>1 DEF HandlerOK, ListOps, Inserting
  <2>3. OwnerChecked(q)
    BY <2>1 DEF OwnerChecked, OwnerWrites
  <2>. QED BY <2>2, <2>3 DEF SlotOK, q
<1>. QED BY <1>2, <1>3

\* Whatever request a client sends.
LEMMA SendStep ==
  ASSUME IInv, NEW r \in Requests, Send(r) PROVE IInv'
<1>0. {"insertWorkspace", "getWorkspace", "findInvite", "cacheGet"} \subseteq PCs
  BY DEF PCs
<1>. PICK actor \in Users :
       \/ StartListWorkspaces(r, actor)
       \/ StartListInvites(r, actor)
       \/ \E w \in Workspaces :
            \/ StartCreateWorkspace(r, actor, w)
            \/ StartRenameWorkspace(r, actor, w)
            \/ StartRemoveWorkspace(r, actor, w)
            \/ StartFindOne(r, actor, w)
            \/ StartListMembers(r, actor, w)
            \/ \E u \in Users : StartRemoveMember(r, actor, w, u)
            \/ \E u \in Users \cup {Nil}, i \in Invites :
                 StartCreateInvite(r, actor, w, u, i)
       \/ \E i \in Invites : StartAccept(r, actor, i) \/ StartDecline(r, actor, i)
  BY DEF Send
<1>1. CASE StartListWorkspaces(r, actor) \/ StartListInvites(r, actor)
  <2>1. PICK op \in ListOps : Start(r, op, "cacheGet", actor, Nil, Nil, Nil)
    BY <1>1 DEF StartListWorkspaces, StartListInvites, ListOps
  <2>2. op \in AllOps /\ op # "createInvite"
    BY DEF AllOps, ListOps
  <2>. QED BY <1>0, <2>1, <2>2, StartedOnList, StartStep
<1>2. ASSUME NEW w \in Workspaces, StartCreateWorkspace(r, actor, w) PROVE IInv'
  <2>1. /\ Start(r, "createWorkspace", "insertWorkspace", actor, w, Nil, Nil)
        /\ FreshWorkspace(w)
    BY <1>2 DEF StartCreateWorkspace
  <2>2. \A p \in Requests : At(p, "insertWorkspace") => req[p].ws # w
    BY <2>1, SlotFacts DEF FreshWorkspace, At, HandlerOK
  <2>3. SlotOK(Started("createWorkspace", "insertWorkspace", actor, w, Nil, Nil))
    BY <2>1, StartedCreations DEF FreshWorkspace
  <2>4. "createWorkspace" \in AllOps
    BY DEF AllOps
  <2>. QED BY <1>0, <2>1, <2>2, <2>3, <2>4, StartStep
<1>3. ASSUME NEW w \in Workspaces,
             \/ StartRenameWorkspace(r, actor, w) \/ StartRemoveWorkspace(r, actor, w)
             \/ StartFindOne(r, actor, w) \/ StartListMembers(r, actor, w)
             \/ \E u \in Users : StartRemoveMember(r, actor, w, u)
      PROVE  IInv'
  <2>. DEFINE WsOps == {"renameWorkspace", "removeWorkspace", "findOne",
                        "listMembers", "removeMember"}
  <2>1. KnownWorkspace(w)
    BY <1>3 DEF StartRenameWorkspace, StartRemoveWorkspace, StartFindOne,
       StartListMembers, StartRemoveMember
  <2>2. PICK op \in WsOps, pc \in {"getWorkspace", "cacheGet"}, u \in Users \cup {Nil} :
          Start(r, op, pc, actor, w, u, Nil) /\ (op = "removeMember" => u \in Users)
    BY <1>3 DEF StartRenameWorkspace, StartRemoveWorkspace, StartFindOne,
       StartListMembers, StartRemoveMember
  <2>3. op \in AllOps \ (ListOps \cup {"createWorkspace", "createInvite",
                                      "accept", "decline"})
    BY DEF AllOps, ListOps
  <2>4. SlotOK(Started(op, pc, actor, w, u, Nil))
    BY <2>1, <2>2, <2>3, StartedOnWorkspace
  <2>. QED BY <1>0, <2>2, <2>3, <2>4, StartStep
<1>4. ASSUME NEW w \in Workspaces, NEW u \in Users \cup {Nil}, NEW i \in Invites,
             StartCreateInvite(r, actor, w, u, i)
      PROVE  IInv'
  <2>1. /\ Start(r, "createInvite", "getWorkspace", actor, w, u, i)
        /\ KnownWorkspace(w) /\ FreshInvite(i)
    BY <1>4 DEF StartCreateInvite
  <2>2. SlotOK(Started("createInvite", "getWorkspace", actor, w, u, i))
    BY <2>1, StartedCreations DEF FreshInvite
  <2>3. "createInvite" \in AllOps
    BY DEF AllOps
  <2>4. \A p \in Requests : req[p].inv # i
    BY <2>1 DEF FreshInvite
  <2>5. "getWorkspace" \in PCs /\ w \in Workspaces \cup {Nil} /\ i \in Invites \cup {Nil}
    BY <1>0
  <2>. QED BY <2>1, <2>2, <2>3, <2>4, <2>5, StartStep
<1>5. ASSUME NEW i \in Invites, StartAccept(r, actor, i) \/ StartDecline(r, actor, i)
      PROVE  IInv'
  <2>1. PICK op \in {"accept", "decline"} :
          Start(r, op, "findInvite", actor, invite[i].ws, actor, i)
    BY <1>5 DEF StartAccept, StartDecline
  <2>2. KnownInvite(i)
    BY <1>5 DEF StartAccept, StartDecline
  <2>3. invite[i].ws \in Workspaces /\ KnownWorkspace(invite[i].ws)
    BY <2>2, IInvParts DEF DbInv, RowsOK
  <2>4. op \in AllOps /\ op # "createInvite"
    BY DEF AllOps
  <2>. QED BY <1>0, <2>1, <2>2, <2>3, <2>4, StartedOnInvite, StartStep
<1>. QED BY <1>1, <1>2, <1>3, <1>4, <1>5


-----------------------------------------------------------------------------
(* The steps that write a table.  What the other handlers rely on is kept: *)
(* rows stay known with the users they name, an owner of a workspace that  *)
(* still exists stays its owner, ids promised to another stay unused.      *)
RowsKept(r) ==
  /\ \A w \in Workspaces : KnownWorkspace(w) =>
       /\ KnownWorkspace(w)' /\ ws'[w].owner = ws[w].owner
       /\ WorkspaceExists(w)' =>
            WorkspaceExists(w) /\ \A u \in Users : IsOwner(w, u) => IsOwner(w, u)'
  /\ \A i \in Invites : KnownInvite(i) =>
       /\ KnownInvite(i)' /\ invite'[i].ws = invite[i].ws
       /\ invite'[i].user = invite[i].user
  /\ \A p \in Requests \ {r} :
       /\ At(p, "insertWorkspace") => ws'[req[p].ws].life = "unused"
       /\ Inserting(req[p]) => invite'[req[p].inv].status = "unused"

\* A write of request r that keeps rows' ids and their references keeps the
\* condition of every other slot.
LEMMA OthersKept ==
  ASSUME IInv, NEW r \in Requests, RowsKept(r),
         NEW p \in Requests \ {r}, req'[p] = req[p]
  PROVE  SlotOK(req[p])'
<1>1. HandlerOK(req[p]) /\ OwnerChecked(req[p])
  BY SlotFacts
<1>2. HandlerOK(req[p])'
  <2>1. req[p].op \in {"accept", "decline"} =>
          /\ req[p].inv \in Invites /\ KnownInvite(req[p].inv)'
          /\ req[p].ws = invite'[req[p].inv].ws
    BY <1>1 DEF HandlerOK, RowsKept
  <2>2. req[p].pc = "acceptTx" => invite'[req[p].inv].user = req[p].actor
    BY <1>1 DEF HandlerOK, RowsKept
  <2>3. /\ req[p].pc = "insertWorkspace" =>
             req[p].op = "createWorkspace" /\ ws'[req[p].ws].life = "unused"
        /\ Inserting(req[p]) =>
             req[p].inv \in Invites /\ invite'[req[p].inv].status = "unused"
    BY <1>1 DEF HandlerOK, RowsKept, At
  <2>4. req[p].pc # "replied" /\ req[p].op \notin ListOps \cup {"createWorkspace"}
          => KnownWorkspace(req[p].ws)'
    BY <1>1 DEF HandlerOK, RowsKept
  <2>5. Inserting(req[p])' <=> Inserting(req[p])
    BY DEF Inserting
  <2>6. KnownInvite(req[p].inv)' <=> invite'[req[p].inv].status # "unused"
    BY DEF KnownInvite
  <2>7. KnownWorkspace(req[p].ws)' <=> ws'[req[p].ws].life # "unused"
    BY DEF KnownWorkspace
  <2>. QED
    BY <1>1, <2>1, <2>2, <2>3, <2>4, <2>5, <2>6, <2>7
    DEF HandlerOK, KnownInvite, KnownWorkspace
<1>3. OwnerChecked(req[p])'
  <2>1. ASSUME req[p].pc \in OwnerWrites
        PROVE  /\ req[p].ws \in Workspaces /\ KnownWorkspace(req[p].ws)
               /\ req[p].actor \in Users
    BY <1>1, <2>1 DEF HandlerOK, OwnerWrites, ListOps
  <2>2. req[p].pc \in OwnerWrites /\ WorkspaceExists(req[p].ws)'
          => IsOwner(req[p].ws, req[p].actor)'
    BY <1>1, <2>1 DEF OwnerChecked, RowsKept, WorkspaceExists, IsOwner
  <2>3. req[p].pc = "deleteMembership" => req[p].user # ws'[req[p].ws].owner
    BY <1>1, <2>1 DEF OwnerChecked, OwnerWrites, RowsKept
  <2>. QED BY <2>2, <2>3 DEF OwnerChecked, WorkspaceExists, IsOwner
<1>. QED BY <1>2, <1>3 DEF SlotOK

\* A write of request r keeps the invariant if it keeps the tables' part.
LEMMA WriteStep ==
  ASSUME IInv, NEW r \in Requests, NEW q \in RequestRecord,
         DbInv', UNCHANGED cache, RowsKept(r),
         req' = [req EXCEPT ![r] = q], SlotOK(req[r])',
         ~Inserting(q), q.pc # "insertWorkspace"
  PROVE  IInv'
<1>1. CacheOK'
  BY IInvParts, CacheKept
<1>2. req' \in [Requests -> RequestRecord] /\ req'[r] = q
  BY IInvParts
<1>3. \A p \in Requests \ {r} : req'[p] = req[p]
  BY IInvParts
<1>4. \A p \in Requests : SlotOK(req[p])'
  BY <1>3, OthersKept
<1>5. FreshIds'
  <2>1. \A p \in Requests : Inserting(req[p])' => p # r /\ Inserting(req[p])
    BY <1>2, <1>3 DEF Inserting
  <2>2. \A p \in Requests : At(p, "insertWorkspace")' => p # r /\ At(p, "insertWorkspace")
    BY <1>2, <1>3 DEF At
  <2>. QED BY <1>3, <2>1, <2>2, IInvParts DEF FreshIds
<1>. QED
  BY <1>1, <1>2, <1>4, <1>5 DEF IInv, TypeOK, DbInv, CacheOK, SlotOK, WritesStayAuthorized

\* A write whose handler has nothing left but to delete keys.
LEMMA WriteAndPurge ==
  ASSUME IInv, NEW r \in Requests, NEW s \in Seq(SUBSET Key),
         ~IsFree(r), req[r].op \notin ListOps,
         DbInv', UNCHANGED cache, RowsKept(r), PurgeThenOk(r, s)
  PROVE  IInv'
<1>. DEFINE q == [req[r] EXCEPT !.pc = "purge", !.purge = s]
<1>1. /\ q \in RequestRecord
      /\ q.pc = "purge" /\ q.op = req[r].op /\ q.actor = req[r].actor
      /\ q.ws = req[r].ws /\ q.user = req[r].user /\ q.inv = req[r].inv
  BY SlotFacts DEF RequestRecord, PCs
<1>2. req' = [req EXCEPT ![r] = q] /\ req'[r] = q
  <2>1. req' = [req EXCEPT ![r] = q]
    BY DEF PurgeThenOk
  <2>. QED BY <2>1, IInvParts
<1>. HIDE DEF q
<1>3. ~Inserting(q) /\ q.pc # "insertWorkspace"
  BY <1>1 DEF Inserting, BeforeInsert
<1>4. HandlerOK(req[r])'
  <2>1. HandlerOK(req[r])
    BY SlotFacts
  <2>2. q.op \in {"accept", "decline"} =>
          /\ q.inv \in Invites /\ invite'[q.inv].status # "unused"
          /\ q.ws = invite'[q.inv].ws
    BY <1>1, <2>1 DEF HandlerOK, RowsKept, KnownInvite
  <2>3. ~Inserting(req[r])'
    BY <1>2, <1>3 DEF Inserting
  <2>4. q.op \notin ListOps \cup {"createWorkspace"} => ws'[q.ws].life # "unused"
    BY <1>1, <2>1 DEF HandlerOK, RowsKept, KnownWorkspace, IsFree
  <2>. QED
    BY <1>1, <1>2, <2>1, <2>2, <2>3, <2>4
    DEF HandlerOK, KnownInvite, KnownWorkspace, IsFree
<1>5. OwnerChecked(req[r])'
  BY <1>1, <1>2 DEF OwnerChecked, OwnerWrites
<1>. QED BY <1>1, <1>2, <1>3, <1>4, <1>5, WriteStep DEF SlotOK

-----------------------------------------------------------------------------
\* The statements of AccessDb, each on tables that satisfy their invariants.
LEMMA CreateWithOwnerKeeps ==
  ASSUME DbInv, NEW w \in Workspaces, NEW u \in Users, NEW n \in Names,
         ws[w].life = "unused", CreateWithOwner(w, u, n)
  PROVE  DbInv'
<1>1. /\ ws' = [ws EXCEPT ![w] = [life |-> "live", owner |-> u, name |-> n]]
      /\ role' = [role EXCEPT ![<<w, u>>] = "OWNER"]
      /\ invite' = invite
  BY DEF CreateWithOwner
<1>2. DbTypeOK'
  BY <1>1 DEF DbInv, DbTypeOK, Roles
<1>3. \A x \in Workspaces, v \in Users :
        /\ x = w /\ v = u => role'[<<x, v>>] = "OWNER"
        /\ x # w \/ v # u => role'[<<x, v>>] = role[<<x, v>>]
  BY <1>1 DEF DbInv, DbTypeOK
<1>4. \A x \in Workspaces :
        ws'[x] = IF x = w THEN [life |-> "live", owner |-> u, name |-> n] ELSE ws[x]
  BY <1>1 DEF DbInv, DbTypeOK
<1>5. \A v \in Users : role[<<w, v>>] = "none"
  BY DEF DbInv, NoOrphans, IsMember, WorkspaceExists
<1>6. OnePendingInvite'
  BY <1>1 DEF DbInv, OnePendingInvite
<1>7. OneOwner'
  <2>1. SUFFICES ASSUME NEW x \in Workspaces, NEW v \in Users
                 PROVE  role'[<<x, v>>] = "OWNER" <=> ws'[x].life = "live" /\ v = ws'[x].owner
    BY DEF OneOwner, WorkspaceExists
  <2>2. CASE x = w
    BY <1>3, <1>4, <1>5, <2>2
  <2>3. CASE x # w
    BY <1>3, <1>4, <2>3 DEF DbInv, OneOwner, WorkspaceExists
  <2>. QED BY <2>2, <2>3
<1>8. NoOrphans'
  BY <1>1, <1>3, <1>4 DEF DbInv, DbTypeOK, NoOrphans, RowsOK, InviteExists, KnownInvite,
     IsMember, WorkspaceExists
<1>9. MembersWereInvited'
  BY <1>1, <1>3 DEF DbInv, MembersWereInvited
<1>10. RowsOK'
  BY <1>1, <1>4 DEF DbInv, RowsOK, WorkspaceExists, KnownInvite, KnownWorkspace
<1>. QED BY <1>2, <1>6, <1>7, <1>8, <1>9, <1>10 DEF DbInv

\* update keeps the tables' part.
LEMMA RenameKeeps ==
  ASSUME DbInv, NEW w \in Workspaces, NEW n \in Names, Rename(w, n)
  PROVE  DbInv'
<1>1. /\ ws' = [ws EXCEPT ![w].name = n]
      /\ role' = role /\ invite' = invite
  BY DEF Rename
<1>2. DbTypeOK'
  BY <1>1 DEF DbInv, DbTypeOK
<1>3. \A x \in Workspaces : ws'[x].life = ws[x].life /\ ws'[x].owner = ws[x].owner
  BY <1>1 DEF DbInv, DbTypeOK
<1>4. OnePendingInvite' /\ MembersWereInvited'
  BY <1>1 DEF DbInv, OnePendingInvite, MembersWereInvited
<1>5. OneOwner'
  BY <1>1, <1>3 DEF DbInv, OneOwner, WorkspaceExists
<1>6. NoOrphans'
  BY <1>1, <1>3 DEF DbInv, NoOrphans, RowsOK, InviteExists, KnownInvite, IsMember, WorkspaceExists
<1>7. RowsOK'
  BY <1>1, <1>3 DEF DbInv, RowsOK, WorkspaceExists, KnownInvite, KnownWorkspace
<1>. QED BY <1>2, <1>4, <1>5, <1>6, <1>7 DEF DbInv

\* delete keeps the tables' part: the cascade leaves no orphan.
LEMMA DeleteCascadeKeeps ==
  ASSUME DbInv, NEW w \in Workspaces, DeleteCascade(w)
  PROVE  DbInv'
<1>1. \A x \in Workspaces :
        /\ ws'[x].owner = ws[x].owner
        /\ x = w => ws'[x].life = "deleted"
        /\ x # w => ws'[x].life = ws[x].life
  BY DEF DbInv, DbTypeOK, DeleteCascade
<1>2. \A x \in Workspaces, v \in Users :
        /\ x = w => role'[<<x, v>>] = "none"
        /\ x # w => role'[<<x, v>>] = role[<<x, v>>]
  BY DEF DeleteCascade
<1>3. \A i \in Invites :
        /\ invite'[i].ws = invite[i].ws /\ invite'[i].user = invite[i].user
        /\ invite'[i].status = IF invite[i].ws = w THEN "deleted" ELSE invite[i].status
        /\ invite[i].ws # w => invite'[i] = invite[i]
  BY DEF DbInv, DbTypeOK, DeleteCascade
<1>4. DbTypeOK'
  <2>1. ws' \in [Workspaces -> [life  : {"unused", "live", "deleted"},
                               owner : Users \cup {Nil},
                               name  : Names \cup {Nil}]]
    BY DEF DbInv, DbTypeOK, DeleteCascade
  <2>2. role' \in [Workspaces \X Users -> Roles]
    BY DEF DbInv, DbTypeOK, DeleteCascade, Roles
  <2>3. ASSUME NEW i \in Invites
        PROVE  (IF invite[i].ws = w THEN [invite[i] EXCEPT !.status = "deleted"]
                                    ELSE invite[i])
                 \in [ws : Workspaces \cup {Nil}, user : Users \cup {Nil},
                      status : Statuses]
    BY DEF DbInv, DbTypeOK, Statuses
  <2>4. invite' \in [Invites -> [ws     : Workspaces \cup {Nil},
                                user   : Users \cup {Nil},
                                status : Statuses]]
    BY <2>3 DEF DeleteCascade
  <2>. QED BY <2>1, <2>2, <2>4 DEF DbTypeOK
<1>5. OnePendingInvite'
  BY <1>3 DEF DbInv, OnePendingInvite
<1>6. OneOwner'
  <2>1. SUFFICES ASSUME NEW x \in Workspaces, NEW v \in Users
                 PROVE  role'[<<x, v>>] = "OWNER" <=> ws'[x].life = "live" /\ v = ws'[x].owner
    BY DEF OneOwner, WorkspaceExists
  <2>2. CASE x = w
    BY <1>1, <1>2, <2>2
  <2>3. CASE x # w
    BY <1>1, <1>2, <2>3 DEF DbInv, OneOwner, WorkspaceExists
  <2>. QED BY <2>2, <2>3
<1>7. NoOrphans'
  BY <1>1, <1>2, <1>3
  DEF DbInv, NoOrphans, RowsOK, InviteExists, KnownInvite, IsMember, WorkspaceExists
<1>8. MembersWereInvited'
  <2>1. SUFFICES ASSUME NEW x \in Workspaces, NEW v \in Users, role'[<<x, v>>] = "MEMBER"
                 PROVE  \E j \in Invites :
                          invite'[j] = [ws |-> x, user |-> v, status |-> "ACCEPTED"]
    BY DEF MembersWereInvited
  <2>2. PICK j \in Invites : invite[j] = [ws |-> x, user |-> v, status |-> "ACCEPTED"]
    BY <1>2, <2>1 DEF DbInv, MembersWereInvited
  <2>3. x # w
    BY <1>2, <2>1
  <2>. QED BY <1>3, <2>2, <2>3
<1>9. RowsOK'
  <2>1. \A i \in Invites : KnownInvite(i)' => KnownInvite(i)
    BY <1>3, NilAssumption DEF DbInv, RowsOK, KnownInvite
  <2>. QED BY <1>1, <1>3, <2>1 DEF DbInv, RowsOK, WorkspaceExists, KnownInvite, KnownWorkspace
<1>. QED BY <1>4, <1>5, <1>6, <1>7, <1>8, <1>9 DEF DbInv

\* deleteMembership keeps the tables' part if the user is not the owner.
LEMMA DeleteMembershipKeeps ==
  ASSUME DbInv, NEW w \in Workspaces, NEW u \in Users,
         u # ws[w].owner, DeleteMembership(w, u)
  PROVE  DbInv'
<1>1. /\ role' = [role EXCEPT ![<<w, u>>] = "none"]
      /\ ws' = ws /\ invite' = invite
  BY DEF DeleteMembership
<1>2. DbTypeOK'
  BY <1>1 DEF DbInv, DbTypeOK, Roles
<1>3. \A x \in Workspaces, v \in Users :
        /\ x = w /\ v = u => role'[<<x, v>>] = "none"
        /\ x # w \/ v # u => role'[<<x, v>>] = role[<<x, v>>]
  BY <1>1 DEF DbInv, DbTypeOK
<1>4. OnePendingInvite'
  BY <1>1 DEF DbInv, OnePendingInvite
<1>5. OneOwner'
  <2>1. SUFFICES ASSUME NEW x \in Workspaces, NEW v \in Users
                 PROVE  role'[<<x, v>>] = "OWNER" <=> ws[x].life = "live" /\ v = ws[x].owner
    BY <1>1 DEF OneOwner, WorkspaceExists
  <2>2. role[<<x, v>>] = "OWNER" <=> ws[x].life = "live" /\ v = ws[x].owner
    BY DEF DbInv, OneOwner, WorkspaceExists
  <2>. QED BY <1>3, <2>2
<1>6. NoOrphans'
  BY <1>1, <1>3 DEF DbInv, NoOrphans, InviteExists, IsMember, WorkspaceExists
<1>7. MembersWereInvited'
  <2>1. SUFFICES ASSUME NEW x \in Workspaces, NEW v \in Users, role'[<<x, v>>] = "MEMBER"
                 PROVE  \E j \in Invites :
                          invite'[j] = [ws |-> x, user |-> v, status |-> "ACCEPTED"]
    BY DEF MembersWereInvited
  <2>2. PICK j \in Invites : invite[j] = [ws |-> x, user |-> v, status |-> "ACCEPTED"]
    BY <1>3, <2>1 DEF DbInv, MembersWereInvited
  <2>. QED BY <1>1, <2>2
<1>8. RowsOK'
  BY <1>1 DEF DbInv, RowsOK, WorkspaceExists, KnownInvite, KnownWorkspace
<1>. QED BY <1>2, <1>4, <1>5, <1>6, <1>7, <1>8 DEF DbInv

\* createInvite keeps the tables' part where foreign key and index allow it.
LEMMA InsertInviteKeeps ==
  ASSUME DbInv, NEW i \in Invites, NEW w \in Workspaces, NEW u \in Users,
         invite[i].status = "unused", WorkspaceExists(w),
         PendingIndexAllows(w, u), InsertInvite(i, w, u)
  PROVE  DbInv'
<1>. DEFINE row == [ws |-> w, user |-> u, status |-> "PENDING"]
<1>1. invite' = [invite EXCEPT ![i] = row] /\ ws' = ws /\ role' = role
  BY DEF InsertInvite
<1>2. DbTypeOK'
  BY <1>1 DEF DbInv, DbTypeOK, Statuses
<1>3. \A j \in Invites : invite'[j] = IF j = i THEN row ELSE invite[j]
  BY <1>1 DEF DbInv, DbTypeOK
<1>4. \A j \in Invites :
        ~(invite[j].status = "PENDING" /\ invite[j].ws = w /\ invite[j].user = u)
  BY DEF DbInv, DbTypeOK, PendingIndexAllows, PendingInvites
<1>5. OnePendingInvite'
  BY <1>3, <1>4 DEF DbInv, OnePendingInvite
<1>6. OneOwner'
  BY <1>1 DEF DbInv, OneOwner, WorkspaceExists
<1>7. NoOrphans'
  BY <1>1, <1>3 DEF DbInv, NoOrphans, InviteExists, IsMember, WorkspaceExists
<1>8. MembersWereInvited'
  <2>1. SUFFICES ASSUME NEW x \in Workspaces, NEW v \in Users, role'[<<x, v>>] = "MEMBER"
                 PROVE  \E j \in Invites :
                          invite'[j] = [ws |-> x, user |-> v, status |-> "ACCEPTED"]
    BY DEF MembersWereInvited
  <2>2. PICK j \in Invites : invite[j] = [ws |-> x, user |-> v, status |-> "ACCEPTED"]
    BY <1>1, <2>1 DEF DbInv, MembersWereInvited
  <2>3. j # i
    BY <2>2
  <2>. QED BY <1>3, <2>2, <2>3
<1>9. RowsOK'
  BY <1>1, <1>3 DEF DbInv, RowsOK, WorkspaceExists, KnownInvite, KnownWorkspace
<1>. QED BY <1>2, <1>5, <1>6, <1>7, <1>8, <1>9 DEF DbInv

\* The accept transaction keeps the tables' part.
LEMMA AcceptAndJoinKeeps ==
  ASSUME DbInv, NEW i \in Invites, NEW w \in Workspaces, NEW u \in Users,
         invite[i].status = "PENDING", invite[i].ws = w, invite[i].user = u,
         ~IsMember(w, u), AcceptAndJoin(i, w, u)
  PROVE  DbInv'
<1>1. /\ invite' = [invite EXCEPT ![i].status = "ACCEPTED"]
      /\ role' = [role EXCEPT ![<<w, u>>] = "MEMBER"]
      /\ ws' = ws
  BY DEF AcceptAndJoin
<1>2. DbTypeOK'
  BY <1>1 DEF DbInv, DbTypeOK, Statuses, Roles
<1>3. \A j \in Invites :
        /\ invite'[j].ws = invite[j].ws /\ invite'[j].user = invite[j].user
        /\ invite'[j].status = IF j = i THEN "ACCEPTED" ELSE invite[j].status
        /\ j # i => invite'[j] = invite[j]
  BY <1>1 DEF DbInv, DbTypeOK
<1>4. \A x \in Workspaces, v \in Users :
        /\ x = w /\ v = u => role'[<<x, v>>] = "MEMBER"
        /\ x # w \/ v # u => role'[<<x, v>>] = role[<<x, v>>]
  BY <1>1 DEF DbInv, DbTypeOK
<1>5. invite'[i] = [ws |-> w, user |-> u, status |-> "ACCEPTED"]
  BY <1>1 DEF DbInv, DbTypeOK
<1>6. OnePendingInvite'
  BY <1>3 DEF DbInv, OnePendingInvite
<1>7. OneOwner'
  <2>1. SUFFICES ASSUME NEW x \in Workspaces, NEW v \in Users
                 PROVE  role'[<<x, v>>] = "OWNER" <=> ws[x].life = "live" /\ v = ws[x].owner
    BY <1>1 DEF OneOwner, WorkspaceExists
  <2>2. role[<<x, v>>] = "OWNER" <=> ws[x].life = "live" /\ v = ws[x].owner
    BY DEF DbInv, OneOwner, WorkspaceExists
  <2>. QED BY <1>4, <2>2 DEF IsMember
<1>8. NoOrphans'
  BY <1>1, <1>3, <1>4 DEF DbInv, NoOrphans, InviteExists, IsMember, WorkspaceExists
<1>9. MembersWereInvited'
  <2>1. SUFFICES ASSUME NEW x \in Workspaces, NEW v \in Users, role'[<<x, v>>] = "MEMBER"
                 PROVE  \E j \in Invites :
                          invite'[j] = [ws |-> x, user |-> v, status |-> "ACCEPTED"]
    BY DEF MembersWereInvited
  <2>2. CASE x = w /\ v = u
    BY <1>5, <2>2
  <2>3. CASE x # w \/ v # u
    <3>1. PICK j \in Invites : invite[j] = [ws |-> x, user |-> v, status |-> "ACCEPTED"]
      BY <1>4, <2>1, <2>3 DEF DbInv, MembersWereInvited
    <3>2. j # i
      BY <3>1
    <3>. QED BY <1>3, <3>1, <3>2
  <2>. QED BY <2>2, <2>3
<1>10. RowsOK'
  BY <1>1, <1>3 DEF DbInv, RowsOK, WorkspaceExists, KnownInvite, KnownWorkspace
<1>. QED BY <1>2, <1>6, <1>7, <1>8, <1>9, <1>10 DEF DbInv

\* decline keeps the tables' part.
LEMMA MarkDeclinedKeeps ==
  ASSUME DbInv, NEW i \in Invites, invite[i].status = "PENDING", MarkDeclined(i)
  PROVE  DbInv'
<1>1. /\ invite' = [invite EXCEPT ![i].status = "DECLINED"]
      /\ ws' = ws /\ role' = role
  BY DEF MarkDeclined
<1>2. DbTypeOK'
  BY <1>1 DEF DbInv, DbTypeOK, Statuses
<1>3. \A j \in Invites :
        /\ invite'[j].ws = invite[j].ws /\ invite'[j].user = invite[j].user
        /\ invite'[j].status = IF j = i THEN "DECLINED" ELSE invite[j].status
        /\ j # i => invite'[j] = invite[j]
  BY <1>1 DEF DbInv, DbTypeOK
<1>4. OnePendingInvite'
  BY <1>3 DEF DbInv, OnePendingInvite
<1>5. OneOwner'
  BY <1>1 DEF DbInv, OneOwner, WorkspaceExists
<1>6. NoOrphans'
  BY <1>1, <1>3 DEF DbInv, NoOrphans, InviteExists, IsMember, WorkspaceExists
<1>7. MembersWereInvited'
  <2>1. SUFFICES ASSUME NEW w \in Workspaces, NEW u \in Users, role[<<w, u>>] = "MEMBER"
                 PROVE  \E j \in Invites :
                          invite'[j] = [ws |-> w, user |-> u, status |-> "ACCEPTED"]
    BY <1>1 DEF MembersWereInvited
  <2>2. PICK j \in Invites : invite[j] = [ws |-> w, user |-> u, status |-> "ACCEPTED"]
    BY <2>1 DEF DbInv, MembersWereInvited
  <2>3. j # i
    BY <2>2
  <2>. QED BY <1>3, <2>2, <2>3
<1>8. RowsOK'
  BY <1>1, <1>3 DEF DbInv, RowsOK, WorkspaceExists, KnownInvite, KnownWorkspace
<1>. QED BY <1>2, <1>4, <1>5, <1>6, <1>7, <1>8 DEF DbInv

-----------------------------------------------------------------------------
\* A write whose handler has something left to read first.
LEMMA WriteAndGoto ==
  ASSUME IInv, NEW r \in Requests, NEW pc \in {"purgeDetail", "reloadInvite"},
         ~IsFree(r), req[r].op \notin ListOps \cup {"createWorkspace"},
         pc = "reloadInvite" => req[r].op \in {"accept", "decline"},
         pc = "purgeDetail" => IsOwner(req[r].ws, req[r].actor)',
         DbInv', UNCHANGED cache, RowsKept(r), Goto(r, pc)
  PROVE  IInv'
<1>. DEFINE q == [req[r] EXCEPT !.pc = pc]
<1>1. /\ q \in RequestRecord
      /\ q.pc = pc /\ q.op = req[r].op /\ q.actor = req[r].actor
      /\ q.ws = req[r].ws /\ q.user = req[r].user /\ q.inv = req[r].inv
  <2>1. pc \in PCs
    BY DEF PCs
  <2>. QED BY <2>1, Moved
<1>2. req' = [req EXCEPT ![r] = q] /\ req'[r] = q
  <2>1. req' = [req EXCEPT ![r] = q]
    BY DEF Goto
  <2>. QED BY <2>1, IInvParts
<1>. HIDE DEF q
<1>3. ~Inserting(q) /\ q.pc # "insertWorkspace"
  BY <1>1 DEF Inserting, BeforeInsert
<1>4. HandlerOK(req[r])'
  <2>1. HandlerOK(req[r])
    BY SlotFacts
  <2>2. q.op \in {"accept", "decline"} =>
          /\ q.inv \in Invites /\ invite'[q.inv].status # "unused"
          /\ q.ws = invite'[q.inv].ws
    BY <1>1, <2>1 DEF HandlerOK, RowsKept, KnownInvite
  <2>3. ~Inserting(req[r])'
    BY <1>2, <1>3 DEF Inserting
  <2>4. ws'[q.ws].life # "unused"
    BY <1>1, <2>1 DEF HandlerOK, RowsKept, KnownWorkspace, IsFree
  <2>. QED
    BY <1>1, <1>2, <2>1, <2>2, <2>3, <2>4
    DEF HandlerOK, KnownInvite, KnownWorkspace, IsFree, ListOps
<1>5. OwnerChecked(req[r])'
  BY <1>1, <1>2 DEF OwnerChecked, OwnerWrites, IsOwner
<1>. QED BY <1>1, <1>2, <1>3, <1>4, <1>5, WriteStep DEF SlotOK

\* create of a workspace: the row under a fresh id, and its owner.
LEMMA InsertWorkspaceStep ==
  ASSUME IInv, NEW r \in Requests, InsertWorkspace(r) PROVE IInv'
<1>. DEFINE w == req[r].ws
            u == req[r].actor
<1>1. /\ w \in Workspaces /\ u \in Users /\ ws[w].life = "unused"
      /\ req[r].op \notin ListOps /\ ~IsFree(r)
  BY SlotFacts DEF InsertWorkspace, At, HandlerOK, IsFree
<1>2. PICK n \in Names : CreateWithOwner(w, u, n)
  BY DEF InsertWorkspace
<1>3. DbInv'
  BY <1>1, <1>2, IInvParts, CreateWithOwnerKeeps
<1>4. RowsKept(r)
  <2>1. /\ \A x \in Workspaces \ {w} : ws'[x] = ws[x]
        /\ \A x \in Workspaces \ {w}, v \in Users : role'[<<x, v>>] = role[<<x, v>>]
        /\ invite' = invite
    BY <1>1, <1>2, IInvParts DEF CreateWithOwner, DbInv, DbTypeOK
  <2>2. \A p \in Requests \ {r} : At(p, "insertWorkspace") =>
          req[p].ws \in Workspaces \ {w} /\ ws[req[p].ws].life = "unused"
    BY SlotFacts, IInvParts DEF FreshIds, HandlerOK, At, ListOps, InsertWorkspace
  <2>3. \A p \in Requests \ {r} : Inserting(req[p]) => invite'[req[p].inv].status = "unused"
    BY <2>1, SlotFacts DEF HandlerOK
  <2>. QED
    BY <1>1, <2>1, <2>2, <2>3
    DEF RowsKept, KnownWorkspace, KnownInvite, WorkspaceExists, IsOwner
<1>5. <<{<<"list", u>>}>> \in Seq(SUBSET Key)
  <2>1. {<<"list", u>>} \in SUBSET Key
    BY <1>1 DEF Key
  <2>. QED BY <2>1
<1>. QED BY <1>1, <1>3, <1>4, <1>5, WriteAndPurge DEF InsertWorkspace

\* update, whether its row is still there or not.
LEMMA UpdateStep ==
  ASSUME IInv, NEW r \in Requests, Update(r) PROVE IInv'
<1>. DEFINE w == req[r].ws
<1>1. /\ w \in Workspaces /\ req[r].op \notin ListOps \cup {"createWorkspace"}
      /\ ~IsFree(r) /\ req[r].pc \in OwnerWrites
  BY SlotFacts DEF Update, At, HandlerOK, IsFree, OwnerWrites
<1>2. ASSUME WorkspaceExists(w), NEW n \in Names, Rename(w, n), Goto(r, "purgeDetail")
      PROVE  IInv'
  <2>1. DbInv'
    BY <1>1, <1>2, IInvParts, RenameKeeps
  <2>2. /\ \A x \in Workspaces : ws'[x].life = ws[x].life /\ ws'[x].owner = ws[x].owner
        /\ role' = role /\ invite' = invite
    BY <1>1, <1>2, IInvParts DEF Rename, DbInv, DbTypeOK
  <2>3. \A p \in Requests \ {r} :
          /\ At(p, "insertWorkspace") => req[p].ws \in Workspaces /\ ws[req[p].ws].life = "unused"
          /\ Inserting(req[p]) => invite[req[p].inv].status = "unused"
    BY SlotFacts DEF HandlerOK, At, ListOps
  <2>4. RowsKept(r)
    BY <2>2, <2>3 DEF RowsKept, KnownWorkspace, KnownInvite, WorkspaceExists, IsOwner
  <2>5. IsOwner(w, req[r].actor)
    BY <1>1, <1>2, SlotFacts DEF OwnerChecked
  <2>6. req'[r] = [req[r] EXCEPT !.pc = "purgeDetail"] /\ req[r] \in RequestRecord
    BY <1>2, IInvParts DEF Goto
  <2>7. UNCHANGED <<req[r].ws, req[r].actor>>
    BY <2>6 DEF RequestRecord
  <2>8. IsOwner(req[r].ws, req[r].actor)'
    BY <2>2, <2>5, <2>7 DEF IsOwner
  <2>9. UNCHANGED cache
    BY DEF Update
  <2>. QED BY <1>1, <1>2, <2>1, <2>4, <2>8, <2>9, WriteAndGoto
<1>3. CASE Answer(r, "NotFound") /\ UNCHANGED <<ws, role, invite>>
  BY <1>3, IInvParts, CacheKept, AnswerStep DEF Update, Replies
<1>. QED BY <1>2, <1>3 DEF Update

\* remove: the cascade, the row already gone, or the deadlock.
LEMMA DeleteStep ==
  ASSUME IInv, NEW r \in Requests, Delete(r) PROVE IInv'
<1>. DEFINE w == req[r].ws
<1>1. /\ w \in Workspaces /\ req[r].op \notin ListOps /\ ~IsFree(r)
      /\ req[r] \in RequestRecord /\ UNCHANGED cache
  BY SlotFacts DEF Delete, At, HandlerOK, IsFree
<1>2. CASE WorkspaceExists(w) /\ DeleteCascade(w) /\ Goto(r, "purge")
  <2>1. DbInv'
    BY <1>1, <1>2, IInvParts, DeleteCascadeKeeps
  <2>2. /\ \A x \in Workspaces :
             /\ ws'[x].owner = ws[x].owner
             /\ x = w => ws'[x].life = "deleted"
             /\ x # w => ws'[x].life = ws[x].life
        /\ \A x \in Workspaces, v \in Users : x # w => role'[<<x, v>>] = role[<<x, v>>]
        /\ \A i \in Invites :
             /\ invite'[i].ws = invite[i].ws /\ invite'[i].user = invite[i].user
             /\ invite[i].ws = w => invite'[i].status = "deleted"
             /\ invite[i].ws # w => invite'[i] = invite[i]
    BY <1>1, <1>2, IInvParts DEF DeleteCascade, DbInv, DbTypeOK
  <2>3. \A p \in Requests \ {r} : At(p, "insertWorkspace") =>
          req[p].ws \in Workspaces \ {w} /\ ws[req[p].ws].life = "unused"
    BY <1>2, SlotFacts DEF HandlerOK, At, ListOps, WorkspaceExists
  <2>4. \A p \in Requests \ {r} : Inserting(req[p]) =>
          req[p].inv \in Invites /\ invite[req[p].inv].status = "unused"
    BY SlotFacts DEF HandlerOK
  <2>5. \A i \in Invites : invite[i].status = "unused" => invite[i].ws # w
    BY <1>1, IInvParts, NilAssumption DEF DbInv, RowsOK, KnownInvite
  <2>6. RowsKept(r)
    <3>1. \A x \in Workspaces : KnownWorkspace(x) =>
            /\ KnownWorkspace(x)' /\ ws'[x].owner = ws[x].owner
            /\ WorkspaceExists(x)' =>
                 WorkspaceExists(x) /\ \A u \in Users : IsOwner(x, u) => IsOwner(x, u)'
      BY <2>2 DEF KnownWorkspace, WorkspaceExists, IsOwner
    <3>2. \A i \in Invites : KnownInvite(i) =>
            /\ KnownInvite(i)' /\ invite'[i].ws = invite[i].ws
            /\ invite'[i].user = invite[i].user
      BY <2>2 DEF KnownInvite
    <3>3. \A p \in Requests \ {r} :
            /\ At(p, "insertWorkspace") => ws'[req[p].ws].life = "unused"
            /\ Inserting(req[p]) => invite'[req[p].inv].status = "unused"
      BY <2>2, <2>3, <2>4, <2>5
    <3>. QED BY <3>1, <3>2, <3>3 DEF RowsKept
  <2>7. req[r].purge \in Seq(SUBSET Key)
    BY <1>1 DEF RequestRecord
  <2>8. PurgeThenOk(r, req[r].purge)
    <3>1. [req[r] EXCEPT !.pc = "purge"] = [req[r] EXCEPT !.pc = "purge", !.purge = req[r].purge]
      BY <1>1 DEF RequestRecord
    <3>2. req' = [req EXCEPT ![r] = [req[r] EXCEPT !.pc = "purge"]]
      BY <1>2 DEF Goto
    <3>. QED BY <3>1, <3>2 DEF PurgeThenOk
  <2>. QED BY <1>1, <2>1, <2>6, <2>7, <2>8, WriteAndPurge
<1>3. CASE /\ Answer(r, "NotFound") \/ Answer(r, "Error")
           /\ UNCHANGED <<ws, role, invite>>
  BY <1>1, <1>3, IInvParts, CacheKept, AnswerStep DEF Replies
<1>. QED BY <1>2, <1>3 DEF Delete

\* removeMember's delete, whether its row is still there or not.
LEMMA RemoveMembershipStep ==
  ASSUME IInv, NEW r \in Requests, RemoveMembership(r) PROVE IInv'
<1>. DEFINE w == req[r].ws
            u == req[r].user
            keys == <<{<<"members", w>>}, {<<"list", u>>}>>
<1>1. /\ w \in Workspaces /\ u \in Users /\ u # ws[w].owner
      /\ req[r].op \notin ListOps /\ ~IsFree(r) /\ UNCHANGED cache
  BY SlotFacts DEF RemoveMembership, At, HandlerOK, OwnerChecked, IsFree
<1>2. CASE DeleteMembership(w, u) /\ PurgeThenOk(r, keys)
  <2>1. DbInv'
    BY <1>1, <1>2, IInvParts, DeleteMembershipKeeps
  <2>2. /\ \A x \in Workspaces, v \in Users :
             x # w \/ v # u => role'[<<x, v>>] = role[<<x, v>>]
        /\ ws' = ws /\ invite' = invite
    BY <1>1, <1>2, IInvParts DEF DeleteMembership, DbInv, DbTypeOK
  <2>3. \A p \in Requests \ {r} :
          /\ At(p, "insertWorkspace") => ws[req[p].ws].life = "unused"
          /\ Inserting(req[p]) => invite[req[p].inv].status = "unused"
    BY SlotFacts DEF HandlerOK, At
  <2>4. ~IsOwner(w, u)
    BY <1>1, IInvParts DEF DbInv, OneOwner, IsOwner
  <2>5. \A x \in Workspaces, v \in Users : IsOwner(x, v) => IsOwner(x, v)'
    BY <2>2, <2>4 DEF IsOwner
  <2>6. RowsKept(r)
    BY <2>2, <2>3, <2>5 DEF RowsKept, KnownWorkspace, KnownInvite, WorkspaceExists
  <2>7. keys \in Seq(SUBSET Key)
    <3>1. {<<"members", w>>} \in SUBSET Key /\ {<<"list", u>>} \in SUBSET Key
      BY <1>1 DEF Key
    <3>. QED BY <3>1
  <2>. QED BY <1>1, <1>2, <2>1, <2>6, <2>7, WriteAndPurge
<1>3. CASE Answer(r, "NotFound") /\ UNCHANGED <<ws, role, invite>>
  BY <1>1, <1>3, IInvParts, CacheKept, AnswerStep DEF Replies
<1>. QED BY <1>2, <1>3 DEF RemoveMembership

\* create's insert: done, refused by the index, or by the foreign key.
LEMMA CreateInviteStep ==
  ASSUME IInv, NEW r \in Requests, CreateInvite(r) PROVE IInv'
<1>. DEFINE w == req[r].ws
            u == req[r].user
            i == req[r].inv
<1>1. /\ w \in Workspaces /\ u \in Users /\ i \in Invites
      /\ invite[i].status = "unused" /\ Inserting(req[r])
      /\ req[r].op \notin ListOps /\ ~IsFree(r) /\ UNCHANGED cache
  BY SlotFacts DEF CreateInvite, At, HandlerOK, IsFree, Inserting, BeforeInsert, ListOps
<1>2. CASE /\ WorkspaceExists(w) /\ PendingIndexAllows(w, u)
           /\ InsertInvite(i, w, u) /\ PurgeThenOk(r, <<{<<"invites", u>>}>>)
  <2>1. DbInv'
    BY <1>1, <1>2, IInvParts, InsertInviteKeeps
  <2>2. /\ \A j \in Invites \ {i} : invite'[j] = invite[j]
        /\ ws' = ws /\ role' = role
    BY <1>1, <1>2, IInvParts DEF InsertInvite, DbInv, DbTypeOK
  <2>3. \A p \in Requests \ {r} :
          /\ At(p, "insertWorkspace") => ws[req[p].ws].life = "unused"
          /\ Inserting(req[p]) =>
               req[p].inv \in Invites \ {i} /\ invite[req[p].inv].status = "unused"
    BY <1>1, SlotFacts, IInvParts DEF HandlerOK, At, FreshIds
  <2>4. RowsKept(r)
    BY <1>1, <2>2, <2>3 DEF RowsKept, KnownWorkspace, KnownInvite, WorkspaceExists, IsOwner
  <2>5. <<{<<"invites", u>>}>> \in Seq(SUBSET Key)
    <3>1. {<<"invites", u>>} \in SUBSET Key
      BY <1>1 DEF Key
    <3>. QED BY <3>1
  <2>. QED BY <1>1, <1>2, <2>1, <2>4, <2>5, WriteAndPurge
<1>3. CASE /\ Answer(r, "AlreadyInvited") \/ Answer(r, "Error")
           /\ UNCHANGED <<ws, role, invite>>
  BY <1>1, <1>3, IInvParts, CacheKept, AnswerStep DEF Replies
<1>. QED BY <1>2, <1>3 DEF CreateInvite

\* accept's transaction, committed or not.
LEMMA AcceptTxStep ==
  ASSUME IInv, NEW r \in Requests, AcceptTx(r) PROVE IInv'
<1>. DEFINE w == req[r].ws
            u == req[r].actor
            i == req[r].inv
            keys == <<{<<"invites", u>>, <<"list", u>>, <<"members", w>>}>>
<1>1. /\ w \in Workspaces /\ u \in Users /\ i \in Invites
      /\ invite[i].ws = w /\ invite[i].user = u
      /\ req[r].op \notin ListOps /\ ~IsFree(r) /\ UNCHANGED cache
  BY SlotFacts DEF AcceptTx, At, HandlerOK, IsFree, ListOps
<1>2. CASE /\ invite[i].status = "PENDING" /\ ~IsMember(w, u)
           /\ AcceptAndJoin(i, w, u) /\ PurgeThenOk(r, keys)
  <2>1. DbInv'
    BY <1>1, <1>2, IInvParts, AcceptAndJoinKeeps
  <2>2. /\ \A j \in Invites :
             /\ invite'[j].ws = invite[j].ws /\ invite'[j].user = invite[j].user
             /\ j = i => invite'[j].status = "ACCEPTED"
             /\ j # i => invite'[j] = invite[j]
        /\ \A x \in Workspaces, v \in Users :
             x # w \/ v # u => role'[<<x, v>>] = role[<<x, v>>]
        /\ ws' = ws
    BY <1>1, <1>2, IInvParts DEF AcceptAndJoin, DbInv, DbTypeOK
  <2>3. \A p \in Requests \ {r} :
          /\ At(p, "insertWorkspace") => ws[req[p].ws].life = "unused"
          /\ Inserting(req[p]) =>
               req[p].inv \in Invites \ {i} /\ invite[req[p].inv].status = "unused"
    BY <1>2, SlotFacts DEF HandlerOK, At
  <2>4. \A x \in Workspaces, v \in Users : IsOwner(x, v) => IsOwner(x, v)'
    BY <1>2, <2>2 DEF IsOwner, IsMember
  <2>5. \A j \in Invites : KnownInvite(j) => KnownInvite(j)'
    BY <2>2 DEF KnownInvite
  <2>6. RowsKept(r)
    BY <2>2, <2>3, <2>4, <2>5 DEF RowsKept, KnownWorkspace, WorkspaceExists
  <2>7. keys \in Seq(SUBSET Key)
    <3>1. {<<"invites", u>>, <<"list", u>>, <<"members", w>>} \in SUBSET Key
      BY <1>1 DEF Key
    <3>. QED BY <3>1
  <2>. QED BY <1>1, <1>2, <2>1, <2>6, <2>7, WriteAndPurge
<1>3. CASE /\ \/ Answer(r, "AlreadyActioned") \/ Answer(r, "JoinedMeanwhile")
              \/ Answer(r, "Error")
           /\ UNCHANGED <<ws, role, invite>>
  BY <1>1, <1>3, IInvParts, CacheKept, AnswerStep DEF Replies
<1>. QED BY <1>2, <1>3 DEF AcceptTx

\* decline's conditional update.
LEMMA DeclineUpdateStep ==
  ASSUME IInv, NEW r \in Requests, DeclineUpdate(r) PROVE IInv'
<1>. DEFINE i == req[r].inv
<1>1. /\ i \in Invites /\ req[r].op \in {"accept", "decline"}
      /\ req[r].op \notin ListOps \cup {"createWorkspace"}
      /\ ~IsFree(r) /\ UNCHANGED cache
  BY SlotFacts DEF DeclineUpdate, At, HandlerOK, IsFree, ListOps
<1>2. CASE /\ invite[i].status = "PENDING" /\ MarkDeclined(i)
           /\ Goto(r, "reloadInvite")
  <2>1. DbInv'
    BY <1>1, <1>2, IInvParts, MarkDeclinedKeeps
  <2>2. /\ \A j \in Invites :
             /\ invite'[j].ws = invite[j].ws /\ invite'[j].user = invite[j].user
             /\ j = i => invite'[j].status = "DECLINED"
             /\ j # i => invite'[j] = invite[j]
        /\ ws' = ws /\ role' = role
    BY <1>1, <1>2, IInvParts DEF MarkDeclined, DbInv, DbTypeOK
  <2>3. \A p \in Requests \ {r} :
          /\ At(p, "insertWorkspace") => ws[req[p].ws].life = "unused"
          /\ Inserting(req[p]) =>
               req[p].inv \in Invites \ {i} /\ invite[req[p].inv].status = "unused"
    BY <1>2, SlotFacts DEF HandlerOK, At
  <2>4. \A j \in Invites : KnownInvite(j) => KnownInvite(j)'
    BY <2>2 DEF KnownInvite
  <2>5. RowsKept(r)
    BY <2>2, <2>3, <2>4 DEF RowsKept, KnownWorkspace, WorkspaceExists, IsOwner
  <2>. QED BY <1>1, <1>2, <2>1, <2>5, WriteAndGoto
<1>3. CASE Answer(r, "AlreadyActioned") /\ UNCHANGED <<ws, role, invite>>
  BY <1>1, <1>3, IInvParts, CacheKept, AnswerStep DEF Replies
<1>. QED BY <1>2, <1>3 DEF DeclineUpdate

-----------------------------------------------------------------------------
\* The empty database satisfies the invariant.
LEMMA InitStep == Init => IInv
<1>. SUFFICES ASSUME Init PROVE IInv
  OBVIOUS
<1>1. /\ \A w \in Workspaces : ws[w] = [life |-> "unused", owner |-> Nil, name |-> Nil]
      /\ \A w \in Workspaces, u \in Users : role[<<w, u>>] = "none"
      /\ \A i \in Invites : invite[i] = [ws |-> Nil, user |-> Nil, status |-> "unused"]
  BY DEF Init, DbInit
<1>2. DbTypeOK
  BY DEF Init, DbInit, DbTypeOK, Roles, Statuses
<1>3. DbInv
  BY <1>1, <1>2 DEF DbInv, OnePendingInvite, OneOwner, NoOrphans, MembersWereInvited,
     RowsOK, WorkspaceExists, IsMember, InviteExists, KnownInvite
<1>4. CacheOK
  BY DEF CacheOK, Init
<1>5. Free("none") \in RequestRecord /\ SlotOK(Free("none"))
  BY FreeSlot DEF Replies
<1>6. /\ req \in [Requests -> RequestRecord]
      /\ \A r \in Requests : req[r] = Free("none")
  BY <1>5 DEF Init
<1>7. FreshIds
  BY <1>6 DEF FreshIds, At, Inserting, Free
<1>. QED BY <1>3, <1>4, <1>5, <1>6, <1>7, IInvParts

\* Every step of a handler keeps the invariant.
LEMMA HandleStep ==
  ASSUME IInv, NEW r \in Requests, Handle(r) PROVE IInv'
BY GetWorkspaceStep, AssertOwnerStep, AssertMemberStep, AssertMemberOfCachedStep,
   InsertWorkspaceStep, UpdateStep, FindMemberIdsStep, DeleteStep, FindTargetStep,
   RemoveMembershipStep, FindInviteeStep, FindPendingStep, CreateInviteStep,
   FindInviteStep, AcceptTxStep, DeclineUpdateStep, ReloadInviteStep, DelKeyStep,
   PurgeAwaitedStep, PurgeDetailStep, CacheGetStep, RunQueryStep, CacheSetStep
DEF Handle

\* Every step keeps the invariant.
LEMMA NextStep == IInv /\ [Next]_vars => IInv'
<1>. SUFFICES ASSUME IInv, [Next]_vars PROVE IInv'
  OBVIOUS
<1>1. ASSUME NEW r \in Requests, Send(r) \/ Handle(r) \/ Fail(r) PROVE IInv'
  BY <1>1, SendStep, HandleStep, FailStep
<1>2. ASSUME NEW k \in Key, Expire(k) PROVE IInv'
  BY <1>2, ExpireStep
<1>3. CASE UNCHANGED vars
  BY <1>3, CacheStep, CacheKept, IInvParts DEF vars
<1>. QED BY <1>1, <1>2, <1>3 DEF Next

-----------------------------------------------------------------------------
(* The inductive invariant holds in every reachable state.                 *)
THEOREM Invariance == Spec => []IInv
BY InitStep, NextStep, PTL DEF Spec

(* Every variable keeps its type: what a handler carries from one await to *)
(* the next always names rows and cache keys that exist.                   *)
THEOREM TypeCorrect == Spec => []TypeOK
<1>1. IInv => TypeOK
  BY DEF IInv
<1>. QED BY <1>1, Invariance, PTL

(* However many creates, accepts and declines overlap, at most one invite  *)
(* of a workspace to a user awaits an answer (partial unique index).       *)
THEOREM PendingInviteIsUnique == Spec => []OnePendingInvite
<1>1. IInv => OnePendingInvite
  BY DEF IInv
<1>. QED BY <1>1, Invariance, PTL

(* A live workspace always has one OWNER, the user of ownerId, whatever    *)
(* accepts and removals of members interleave.                             *)
THEOREM OwnerIsUnique == Spec => []OneOwner
<1>1. IInv => OneOwner
  BY DEF IInv
<1>. QED BY <1>1, Invariance, PTL

(* No membership and no invite outlives its workspace, also when the       *)
(* request that writes it overlaps the deletion.                           *)
THEOREM NothingOutlivesItsWorkspace == Spec => []NoOrphans
<1>1. IInv => NoOrphans
  BY DEF IInv
<1>. QED BY <1>1, Invariance, PTL

(* Whoever is a MEMBER accepted an invite of that workspace to them.       *)
THEOREM EntryByInvitation == Spec => []MembersWereInvited
<1>1. IInv => MembersWereInvited
  BY DEF IInv
<1>. QED BY <1>1, Invariance, PTL

(* The authorization a handler checked some awaits ago still holds when it *)
(* writes, although nothing locks the rows it was read from.               *)
THEOREM ChecksHoldAtTheWrite == Spec => []WritesStayAuthorized
<1>1. IInv => WritesStayAuthorized
  BY DEF IInv
<1>. QED BY <1>1, Invariance, PTL

-----------------------------------------------------------------------------
(* The pages in Redis, while every call of Redis succeeds and no request   *)
(* that reads runs side by side with one that writes (ReadsAlone); writers *)
(* overlap freely.  A page is right, or a request has still to delete it   *)
(* (Due).  Why a page is never left behind: the member ids are read when   *)
(* the pages of exactly those members are wrong, before the row goes in    *)
(* remove and after it changed in update; and who joins or leaves after    *)
(* that has a list page that the other request deletes.                    *)

\* The handlers that read, and the awaits they pass.
ReadOps == {"findOne", "listMembers"} \cup ListOps
ReadPCs == {"getWorkspace", "assertMember", "assertMemberOfCached", "cacheGet", "query",
            "cacheSet"}

\* While a request reads, all requests under way do.
ReadsAlone ==
  \A q, r \in Requests :
    ~IsFree(q) /\ ~IsFree(r) /\ req[q].op \in ReadOps => req[r].op \in ReadOps

\* A handler that reads passes no await of those that write.
Staged == \A r \in Requests : req[r].op \in ReadOps => req[r].pc \in ReadPCs

\* The pages that request record q has still to delete; first those whose keys
\* it has collected.
OfMember(w, k) == k[1] = "list" /\ IsMember(w, k[2])
ToPurge(q, k) == \E n \in DOMAIN q.purge : k \in q.purge[n]
Listed(q, k) == q.pc = "purge" /\ ToPurge(q, k)
Due(q, k) ==
  \/ Listed(q, k)
  \/ q.pc = "purgeDetail" /\ (k = <<"detail", q.ws>> \/ OfMember(q.ws, k))
  \/ q.pc = "findMemberIds" /\ q.op # "removeWorkspace" /\ OfMember(q.ws, k)
Held(k) == \E q \in Requests : Due(req[q], k)

\* There is no such page, or there will be none, whoever joins or leaves.
Going(k) == cache[k] = Nil \/ \E q \in Requests : Listed(req[q], k)

\* Invites that were declined by a request that has not read them back yet.
Reloading == {req[q].inv : q \in {s \in Requests : req[s].pc = "reloadInvite"}}
Settled(i) == InviteExists(i) /\ i \notin Reloading

\* An invites page has every invite of its user with the status it has; what
\* else is on it no longer exists.
AllShown(k) ==
  \A i \in Invites : Settled(i) /\ invite[i].user = k[2] =>
    \E row \in cache[k] : row[1] = i /\ row[2] = invite[i].status
ShownRight(k) ==
  \A row \in cache[k] :
    /\ row[1] \in Invites /\ KnownInvite(row[1])
    /\ InviteExists(row[1]) => invite[row[1]].user = k[2]
    /\ Settled(row[1]) => invite[row[1]].status = row[2]
Right(k) == IF k[1] = "invites" THEN AllShown(k) /\ ShownRight(k) ELSE Fresh(k)
PagesRight == \A k \in Key : cache[k] # Nil => Right(k) \/ Held(k)

\* What a handler knows before it fills a page, writes, or deletes keys.
Reading(q) ==
  /\ q.pc = "assertMember" => q.op \in {"findOne", "listMembers"}
  /\ q.pc \in {"cacheGet", "query", "cacheSet"} => q.op \in ReadOps
  /\ q.pc = "query" => q.op # "findOne"
  /\ q.op = "findOne" /\ q.pc \in {"assertMember", "cacheSet"} => WorkspaceExists(q.ws)
  /\ q.op = "listMembers" /\ q.pc \in {"assertMember", "cacheGet", "query", "cacheSet"}
       => WorkspaceExists(q.ws)
  /\ q.op = "findOne" /\ q.pc = "assertMember" => q.seen = Query(<<"detail", q.ws>>)
Filling(r) == req[r].pc = "cacheSet" => req[r].seen = Query(KeyOf(r))
Collected(q) ==
  q.pc = "delete" =>
    /\ ToPurge(q, <<"detail", q.ws>>) /\ ToPurge(q, <<"members", q.ws>>)
    /\ \A k \in Key : OfMember(q.ws, k) => ToPurge(q, k) \/ Going(k)
Writing(q) ==
  /\ Collected(q)
  /\ q.pc \in {"update", "purgeDetail"} => q.op # "removeWorkspace"
  /\ q.pc \in {"declineUpdate", "reloadInvite"} => invite[q.inv].user = q.actor
Knows(r) == Reading(req[r]) /\ Filling(r) /\ Writing(req[r])
PagesInv == PagesRight /\ \A r \in Requests : Knows(r)

-----------------------------------------------------------------------------
(* Keys, queries, and what keeps a page right.                             *)

\* What a key is made of.
LEMMA KeyParts ==
  ASSUME NEW k \in Key
  PROVE  /\ k = <<k[1], k[2]>>
         /\ \/ k[1] \in {"detail", "members"} /\ k[2] \in Workspaces
            \/ k[1] \in {"list", "invites"} /\ k[2] \in Users
BY DEF Key

\* A detail page shows the row of its workspace.
LEMMA DetailKept ==
  ASSUME NEW k \in Key, k[1] = "detail", Right(k), cache'[k] = cache[k],
         ws'[k[2]] = ws[k[2]]
  PROVE  Right(k)'
BY DEF Right, Fresh, Query, WorkspaceExists

\* A members page shows the memberships of its workspace.
LEMMA MembersKept ==
  ASSUME NEW k \in Key, k[1] = "members", Right(k), cache'[k] = cache[k],
         ws'[k[2]].life = ws[k[2]].life,
         \A u \in Users : role'[<<k[2], u>>] = role[<<k[2], u>>]
  PROVE  Right(k)'
<1>1. MembersOf(k[2])' = MembersOf(k[2])
  BY DEF MembersOf, IsMember
<1>2. Query(k) = {<<u, role[<<k[2], u>>]>> : u \in MembersOf(k[2])}
  BY DEF Query
<1>3. Query(k)' = {<<u, role'[<<k[2], u>>]>> : u \in MembersOf(k[2])'}
  BY DEF Query
<1>4. \A u \in MembersOf(k[2]) : role'[<<k[2], u>>] = role[<<k[2], u>>]
  BY DEF MembersOf
<1>. DEFINE M == MembersOf(k[2])
<1>5. Query(k)' = {<<u, role'[<<k[2], u>>]>> : u \in M}
  BY <1>1, <1>3
<1>. HIDE DEF M
<1>6. {<<u, role'[<<k[2], u>>]>> : u \in M} = {<<u, role[<<k[2], u>>]>> : u \in M}
  BY <1>4 DEF M
<1>7. Query(k)' = Query(k)
  BY <1>2, <1>5, <1>6 DEF M
<1>. QED BY <1>7 DEF Right, Fresh, WorkspaceExists

\* A list page shows the workspaces of its user, with their names.
LEMMA ListKept ==
  ASSUME NEW k \in Key, k[1] = "list", Right(k), cache'[k] = cache[k],
         \A w \in Workspaces :
           /\ IsMember(w, k[2])' <=> IsMember(w, k[2])
           /\ IsMember(w, k[2]) => ws'[w].name = ws[w].name
  PROVE  Right(k)'
<1>1. Query(k) = {<<w, ws[w].name>> : w \in {x \in Workspaces : IsMember(x, k[2])}}
  BY DEF Query
<1>2. Query(k)' = {<<w, ws'[w].name>> : w \in {x \in Workspaces : IsMember(x, k[2])'}}
  BY DEF Query
<1>3. {x \in Workspaces : IsMember(x, k[2])'} = {x \in Workspaces : IsMember(x, k[2])}
  OBVIOUS
<1>4. Query(k)' = Query(k)
  BY <1>1, <1>2, <1>3
<1>. QED BY <1>4 DEF Right, Fresh

\* An invites page stays right while the invites of its user keep their
\* status or vanish; ids are not used again.
LEMMA InvitesKept ==
  ASSUME NEW k \in Key, k[1] = "invites", Right(k), cache'[k] = cache[k],
         \A i \in Invites :
           /\ KnownInvite(i) => KnownInvite(i)' /\ invite'[i].user = invite[i].user
           /\ KnownInvite(i) /\ InviteExists(i)' => InviteExists(i)
           /\ Settled(i)' /\ invite'[i].user = k[2] =>
                Settled(i) /\ invite'[i].status = invite[i].status
  PROVE  Right(k)'
<1>1. AllShown(k) /\ ShownRight(k)
  BY DEF Right
<1>2. \A i \in Invites : /\ InviteExists(i) => KnownInvite(i)
                         /\ Settled(i) => InviteExists(i)
                         /\ Settled(i)' => InviteExists(i)'
  BY DEF Settled, InviteExists, KnownInvite
<1>3. AllShown(k)'
  <2>1. ASSUME NEW i \in Invites, Settled(i)', invite'[i].user = k[2]
        PROVE  \E row \in cache'[k] : row[1] = i /\ row[2] = invite'[i].status
    BY <1>1, <1>2, <2>1 DEF AllShown
  <2>. QED BY <2>1 DEF AllShown
<1>4. ShownRight(k)'
  <2>1. ASSUME NEW row \in cache'[k]
        PROVE  /\ row[1] \in Invites /\ KnownInvite(row[1])'
               /\ InviteExists(row[1])' => invite'[row[1]].user = k[2]
               /\ Settled(row[1])' => invite'[row[1]].status = row[2]
    BY <1>1, <1>2, <2>1 DEF ShownRight
  <2>. QED BY <2>1 DEF ShownRight
<1>. QED BY <1>3, <1>4 DEF Right

\* A step that leaves the tables and a page alone keeps it right.
LEMMA RightKept ==
  ASSUME NEW k \in Key, Right(k), cache'[k] = cache[k], UNCHANGED <<ws, role, invite>>,
         \A i \in Invites : Settled(i)' => Settled(i)
  PROVE  Right(k)'
<1>1. CASE k[1] \in {"detail", "members", "list"}
  BY <1>1, KeyParts, DetailKept, MembersKept, ListKept DEF IsMember
<1>2. CASE k[1] = "invites"
  <2>1. \A i \in Invites : /\ KnownInvite(i)' <=> KnownInvite(i)
                           /\ InviteExists(i)' <=> InviteExists(i)
                           /\ invite'[i] = invite[i]
    BY DEF KnownInvite, InviteExists
  <2>. QED BY <1>2, <2>1, InvitesKept
<1>. QED BY <1>1, <1>2, KeyParts

\* A query returns what it returned while the tables do not change.
LEMMA QuerySame ==
  ASSUME NEW k, UNCHANGED <<ws, role, invite>> PROVE Query(k)' = Query(k)
BY DEF Query, MembersOf, IsMember, InviteExists

\* The page a query fills is right while the tables do not change.
LEMMA FilledRight ==
  ASSUME NEW k \in Key, cache'[k] = Query(k), UNCHANGED <<ws, role, invite>>,
         k[1] \in {"detail", "members"} => WorkspaceExists(k[2])
  PROVE  Right(k)'
<1>1. CASE k[1] # "invites"
  BY <1>1, QuerySame DEF Right, Fresh, WorkspaceExists
<1>2. CASE k[1] = "invites"
  <2>1. cache'[k] = {<<i, invite[i].status, ws[invite[i].ws].name>> : i \in
                       {j \in Invites : InviteExists(j) /\ invite[j].user = k[2]}}
    BY <1>2 DEF Query
  <2>2. AllShown(k)'
    <3>1. ASSUME NEW i \in Invites, InviteExists(i), invite[i].user = k[2]
          PROVE  <<i, invite[i].status, ws[invite[i].ws].name>> \in cache'[k]
      BY <2>1, <3>1
    <3>2. \A i \in Invites : Settled(i)' => InviteExists(i)
      BY DEF Settled, InviteExists
    <3>. QED BY <3>1, <3>2 DEF AllShown
  <2>3. ShownRight(k)'
    <3>1. ASSUME NEW row \in cache'[k]
          PROVE  /\ row[1] \in Invites /\ InviteExists(row[1])
                 /\ invite[row[1]].user = k[2] /\ invite[row[1]].status = row[2]
      BY <2>1
    <3>. QED BY <3>1 DEF ShownRight, KnownInvite, InviteExists
  <2>. QED BY <1>2, <2>2, <2>3 DEF Right
<1>. QED BY <1>1, <1>2

-----------------------------------------------------------------------------
(* What a step of one request leaves to the others.                        *)

\* Their records stay.
Acts(r) == \A q \in Requests \ {r} : req'[q] = req[q]

\* Every step of a request leaves the others' records alone.
LEMMA OneActs ==
  ASSUME IInv, NEW r \in Requests, Send(r) \/ Handle(r) PROVE Acts(r)
<1>1. req \in [Requests -> RequestRecord]
  BY IInvParts
<1>2. ASSUME NEW x, req' = [req EXCEPT ![r] = x] PROVE Acts(r)
  BY <1>1, <1>2 DEF Acts
<1>3. \A op, pc, a, w, u, i : Start(r, op, pc, a, w, u, i) => Acts(r)
  BY <1>2 DEF Start
<1>4. ASSUME Send(r) PROVE Acts(r)
  BY <1>3, <1>4 DEF Send, StartListWorkspaces, StartListInvites, StartCreateWorkspace,
     StartRenameWorkspace, StartRemoveWorkspace, StartFindOne, StartListMembers,
     StartRemoveMember, StartCreateInvite, StartAccept, StartDecline
<1>5. /\ \A pc : Goto(r, pc) => Acts(r)
      /\ \A a : Answer(r, a) => Acts(r)
      /\ \A s : PurgeThenOk(r, s) => Acts(r)
  BY <1>2 DEF Goto, Answer, PurgeThenOk
<1>6. ASSUME \/ AssertOwner(r) \/ AssertMember(r) \/ AssertMemberOfCached(r)
             \/ InsertWorkspace(r) \/ Update(r) \/ Delete(r) \/ FindTarget(r)
             \/ RemoveMembership(r) \/ FindInvitee(r) \/ FindPending(r) \/ CreateInvite(r)
             \/ FindInvite(r) \/ AcceptTx(r) \/ DeclineUpdate(r) \/ ReloadInvite(r)
             \/ PurgeDetail(r) \/ CacheGet(r) \/ CacheSet(r)
      PROVE  Acts(r)
  BY <1>5, <1>6 DEF AssertOwner, AssertMember, AssertMemberOfCached, InsertWorkspace,
     Update, Delete, FindTarget, RemoveMembership, FindInvitee, FindPending, CreateInvite,
     FindInvite, AcceptTx, DeclineUpdate, ReloadInvite, PurgeDetail, CacheGet, CacheSet
<1>7. ASSUME GetWorkspace(r) \/ FindMemberIds(r) \/ DelKey(r) \/ PurgeAwaited(r) \/ RunQuery(r)
      PROVE  Acts(r)
  BY <1>1, <1>5, <1>7 DEF Acts, GetWorkspace, FindMemberIds, DelKey, PurgeAwaited, RunQuery
<1>. QED BY <1>4, <1>6, <1>7 DEF Handle

\* Who reads goes on reading.
LEMMA StagedStep == IInv /\ Staged /\ [Next]_vars => Staged'
<1>. SUFFICES ASSUME IInv, Staged, [Next]_vars PROVE Staged'
  OBVIOUS
<1>1. ASSUME NEW r \in Requests, Acts(r),
             req'[r].op \in ReadOps => req'[r].pc \in ReadPCs
      PROVE  Staged'
  BY <1>1 DEF Staged, Acts
<1>2. ASSUME NEW r \in Requests, Send(r) PROVE Staged'
  <2>1. \A op, pc, a, w, u, i : Start(r, op, pc, a, w, u, i) =>
          req'[r].op = op /\ req'[r].pc = pc
    BY IInvParts DEF Start, Started
  <2>2. req'[r].op \in ReadOps => req'[r].pc \in ReadPCs
    BY <1>2, <2>1 DEF Send, StartListWorkspaces, StartListInvites, StartCreateWorkspace,
       StartRenameWorkspace, StartRemoveWorkspace, StartFindOne, StartListMembers,
       StartRemoveMember, StartCreateInvite, StartAccept, StartDecline, ReadOps, ReadPCs,
       ListOps
  <2>. QED BY <1>1, <1>2, <2>2, OneActs
<1>3. ASSUME NEW r \in Requests, Handle(r) PROVE Staged'
  <2>1. req \in [Requests -> RequestRecord] /\ req[r] \in RequestRecord
    BY IInvParts
  <2>2. /\ \A pc : Goto(r, pc) => req'[r].pc = pc /\ req'[r].op = req[r].op
        /\ \A a : Answer(r, a) => req'[r].op = "none"
        /\ \A s : PurgeThenOk(r, s) => req'[r].op = req[r].op
    BY <2>1 DEF Goto, Answer, PurgeThenOk, Free, RequestRecord
  <2>3. CASE req[r].op \in ReadOps
    <3>1. req[r].pc \in ReadPCs
      BY <2>3 DEF Staged
    <3>2. CASE GetWorkspace(r)
      <4>1. req[r].op \in {"findOne", "listMembers"}
        BY <2>3, <3>2, SlotFacts DEF HandlerOK, ReadOps, GetWorkspace, At
      <4>. DEFINE x == IF Doing(r, "findOne") THEN Query(<<"detail", req[r].ws>>) ELSE {}
                  y == [req[r] EXCEPT !.pc = AfterGetWorkspace(req[r].op), !.seen = x]
      <4>2. CASE req' = [req EXCEPT ![r] = y]
        <5>1. req'[r] = y
          BY <2>1, <4>2
        <5>2. y.pc = AfterGetWorkspace(req[r].op)
          BY <2>1 DEF RequestRecord
        <5>. QED BY <1>1, <1>3, <4>1, <5>1, <5>2, OneActs DEF AfterGetWorkspace, ReadPCs
      <4>3. CASE Answer(r, "NotFound")
        BY <1>1, <1>3, <2>2, <4>3, OneActs DEF ReadOps, ListOps
      <4>. QED BY <3>2, <4>2, <4>3 DEF GetWorkspace
    <3>3. CASE \/ AssertMember(r) \/ AssertMemberOfCached(r) \/ CacheGet(r) \/ CacheSet(r)
      <4>1. \/ req'[r].op = "none"
            \/ req'[r].pc \in ReadPCs
        BY <2>2, <3>3 DEF AssertMember, AssertMemberOfCached, CacheGet, CacheSet, ReadPCs
      <4>. QED BY <1>1, <1>3, <4>1, OneActs DEF ReadOps, ListOps
    <3>4. CASE RunQuery(r)
      <4>. DEFINE y == [req[r] EXCEPT !.pc = "cacheSet", !.seen = Query(KeyOf(r))]
      <4>1. req' = [req EXCEPT ![r] = y]
        BY <3>4 DEF RunQuery
      <4>2. req'[r] = y
        BY <2>1, <4>1
      <4>3. y.pc = "cacheSet"
        BY <2>1 DEF RequestRecord
      <4>. QED BY <1>1, <1>3, <4>2, <4>3, OneActs DEF ReadPCs
    <3>. QED
      BY <1>3, <3>1, <3>2, <3>3, <3>4
      DEF Handle, ReadPCs, At, AssertOwner, InsertWorkspace, Update, FindMemberIds, Delete,
          FindTarget, RemoveMembership, FindInvitee, FindPending, CreateInvite, FindInvite,
          AcceptTx, DeclineUpdate, ReloadInvite, DelKey, PurgeAwaited, PurgeDetail
  <2>4. CASE req[r].op \notin ReadOps
    <3>1. req'[r].op \in {req[r].op, "none"}
      <4>1. CASE GetWorkspace(r) \/ FindMemberIds(r) \/ DelKey(r) \/ PurgeAwaited(r)
                 \/ RunQuery(r)
        BY <2>1, <2>2, <4>1
        DEF GetWorkspace, FindMemberIds, DelKey, PurgeAwaited, RunQuery, RequestRecord
      <4>2. CASE \/ AssertOwner(r) \/ AssertMember(r) \/ AssertMemberOfCached(r)
                 \/ InsertWorkspace(r) \/ Update(r) \/ Delete(r) \/ FindTarget(r)
                 \/ RemoveMembership(r) \/ FindInvitee(r) \/ FindPending(r)
                 \/ CreateInvite(r) \/ FindInvite(r) \/ AcceptTx(r) \/ DeclineUpdate(r)
                 \/ ReloadInvite(r) \/ PurgeDetail(r) \/ CacheGet(r) \/ CacheSet(r)
        BY <2>2, <4>2 DEF AssertOwner, AssertMember, AssertMemberOfCached,
           InsertWorkspace, Update, Delete, FindTarget, RemoveMembership, FindInvitee,
           FindPending, CreateInvite, FindInvite, AcceptTx, DeclineUpdate, ReloadInvite,
           PurgeDetail, CacheGet, CacheSet
      <4>. QED BY <1>3, <4>1, <4>2 DEF Handle
    <3>. QED BY <1>1, <1>3, <2>4, <3>1, OneActs DEF ReadOps, ListOps
  <2>. QED BY <2>3, <2>4
<1>4. ASSUME NEW r \in Requests, Fail(r) PROVE Staged'
  <2>1. req' = [req EXCEPT ![r] = Free("Error")]
    BY <1>4 DEF Fail, Answer
  <2>2. Acts(r) /\ req'[r].op = "none"
    BY <2>1, IInvParts DEF Acts, Free
  <2>. QED BY <1>1, <2>2 DEF ReadOps, ListOps
<1>5. CASE UNCHANGED req
  BY <1>5 DEF Staged
<1>. QED BY <1>2, <1>3, <1>4, <1>5 DEF Next, Expire, vars

-----------------------------------------------------------------------------
(* The record of the request that acts.                                    *)

\* A handler that moves on to another await.
LEMMA GotoRecord ==
  ASSUME IInv, NEW r \in Requests, NEW pc, Goto(r, pc)
  PROVE  /\ req'[r].pc = pc /\ req'[r].op = req[r].op /\ req'[r].ws = req[r].ws
         /\ req'[r].actor = req[r].actor /\ req'[r].inv = req[r].inv
         /\ req'[r].purge = req[r].purge /\ req'[r].seen = req[r].seen
<1>1. req \in [Requests -> RequestRecord] /\ req[r] \in RequestRecord
  BY IInvParts
<1>. QED BY <1>1 DEF Goto, RequestRecord

\* A handler that answers.
LEMMA AnswerRecord ==
  ASSUME IInv, NEW r \in Requests, NEW a, Answer(r, a) PROVE req'[r] = Free(a)
BY IInvParts DEF Answer

\* A handler that has committed its write.
LEMMA PurgeRecord ==
  ASSUME IInv, NEW r \in Requests, NEW s, PurgeThenOk(r, s)
  PROVE  req'[r].pc = "purge" /\ req'[r].purge = s
<1>1. req \in [Requests -> RequestRecord] /\ req[r] \in RequestRecord
  BY IInvParts
<1>. QED BY <1>1 DEF PurgeThenOk, RequestRecord

\* A handler that has answered, or only has keys to delete, knows nothing.
LEMMA NothingToKnow ==
  ASSUME NEW r \in Requests, req'[r].pc \in {"replied", "purge", "insertWorkspace",
           "findMemberIds", "findTarget", "deleteMembership", "findInvitee",
           "findPending", "insertInvite", "findInvite", "acceptTx", "assertOwner",
           "getWorkspace", "assertMemberOfCached"}
  PROVE  Knows(r)'
<1>1. Reading(req[r])'
  BY DEF Reading
<1>2. Filling(r)'
  BY DEF Filling
<1>3. Writing(req[r])'
  BY DEF Writing, Collected
<1>. QED BY <1>1, <1>2, <1>3 DEF Knows

\* Before these awaits a handler may have keys to delete or an invite to settle; before
\* those it writes.
DelPCs == {"purge", "purgeDetail", "findMemberIds", "reloadInvite"}
WritePCs == {"insertWorkspace", "update", "delete", "deleteMembership", "insertInvite",
             "acceptTx", "declineUpdate"}

\* Nothing is due elsewhere.
LEMMA NothingDue ==
  ASSUME NEW q, q.pc \notin DelPCs, NEW k PROVE ~Due(q, k)
BY DEF Due, Listed, DelPCs

\* Only the reload of an invite settles it.
LEMMA SettledKept ==
  ASSUME NEW r \in Requests, Acts(r), req[r].pc # "reloadInvite", NEW i,
         InviteExists(i)' => InviteExists(i), Settled(i)'
  PROVE  Settled(i)
<1>1. ASSUME NEW q \in Requests, req[q].pc = "reloadInvite"
      PROVE  req'[q].pc = "reloadInvite" /\ req'[q].inv = req[q].inv
  BY <1>1 DEF Acts
<1>2. Reloading \subseteq Reloading'
  BY <1>1 DEF Reloading
<1>. QED BY <1>2 DEF Settled

-----------------------------------------------------------------------------
(* What the other requests know, and what they have to delete.             *)

\* A page that is going is still going after a step that fills none.
LEMMA StillGoing ==
  ASSUME NEW r \in Requests, Acts(r), NEW k \in Key, cache'[k] \in {Nil, cache[k]},
         Listed(req[r], k) => cache'[k] = Nil \/ Listed(req[r], k)',
         Going(k)
  PROVE  Going(k)'
<1>1. CASE cache[k] = Nil
  BY <1>1 DEF Going
<1>2. CASE \E q \in Requests : Listed(req[q], k)
  <2>1. PICK q \in Requests : Listed(req[q], k)
    BY <1>2
  <2>2. q # r => Listed(req[q], k)'
    BY <2>1 DEF Acts, Listed, ToPurge
  <2>. QED BY <2>1, <2>2 DEF Going
<1>. QED BY <1>1, <1>2 DEF Going

\* A page that is going and still there is held.
LEMMA GoingIsHeld ==
  ASSUME NEW k, Going(k)', cache'[k] # Nil PROVE Held(k)'
BY DEF Going, Held, Due

\* A request that does not act knows what it knew, if the tables stay.
LEMMA KnowsKept ==
  ASSUME NEW q \in Requests, req'[q] = req[q], UNCHANGED <<ws, role, invite>>, Knows(q),
         req[q].pc # "delete" \/ \A k \in Key : Going(k) => Going(k)'
  PROVE  Knows(q)'
<1>1. PICK k : k = KeyOf(q)
  OBVIOUS
<1>2. KeyOf(q)' = k
  BY <1>1 DEF KeyOf, Doing
<1>3. Filling(q)'
  BY <1>1, <1>2, QuerySame DEF Knows, Filling
<1>4. Reading(req[q])'
  <2>1. PICK w : w = req[q].ws
    OBVIOUS
  <2>2. Query(<<"detail", w>>)' = Query(<<"detail", w>>)
    BY QuerySame
  <2>3. Query(<<"detail", req[q].ws>>)' = Query(<<"detail", w>>)'
    BY <2>1
  <2>. QED BY <2>1, <2>2, <2>3 DEF Knows, Reading, WorkspaceExists
<1>5. Collected(req[q])'
  <2>1. CASE req[q].pc # "delete"
    BY <2>1 DEF Collected
  <2>2. CASE \A j \in Key : Going(j) => Going(j)'
    <3>1. Collected(req[q])
      BY DEF Knows, Writing
    <3>2. \A j : ToPurge(req[q], j)' <=> ToPurge(req[q], j)
      BY DEF ToPurge
    <3>3. \A j : OfMember(req[q].ws, j)' <=> OfMember(req[q].ws, j)
      BY DEF OfMember, IsMember
    <3>. QED BY <2>2, <3>1, <3>2, <3>3 DEF Collected
  <2>. QED BY <2>1, <2>2
<1>6. Writing(req[q])'
  BY <1>5 DEF Knows, Writing
<1>. QED BY <1>3, <1>4, <1>6 DEF Knows

\* So does a request that writes, if the tables change but invites keep their
\* users, and whoever joins has a list page that is going.
LEMMA WriterKnows ==
  ASSUME IInv, NEW q \in Requests, req'[q] = req[q], Knows(q),
         IsFree(q) \/ req[q].op \notin ReadOps,
         \A i \in Invites : KnownInvite(i) => invite'[i].user = invite[i].user,
         \A k \in Key : Going(k) => Going(k)',
         \A w \in Workspaces, u \in Users :
           IsMember(w, u)' /\ ~IsMember(w, u) => Going(<<"list", u>>)'
  PROVE  Knows(q)'
<1>1. Reading(req[q])' /\ Filling(q)'
  BY DEF Knows, Reading, Filling, ReadOps, ListOps, IsFree
<1>2. Collected(req[q])'
  <2>1. SUFFICES ASSUME req[q].pc = "delete" PROVE Collected(req[q])'
    BY DEF Collected
  <2>2. Collected(req[q]) /\ req[q].ws \in Workspaces
    BY <2>1, SlotFacts DEF Knows, Writing, HandlerOK, ListOps
  <2>3. \A j : ToPurge(req[q], j)' <=> ToPurge(req[q], j)
    BY DEF ToPurge
  <2>4. ASSUME NEW k \in Key, OfMember(req[q].ws, k)'
        PROVE  ToPurge(req[q], k) \/ Going(k)'
    <3>1. k[1] = "list" /\ IsMember(req[q].ws, k[2])'
      BY <2>4 DEF OfMember, IsMember
    <3>2. k[2] \in Users /\ k = <<"list", k[2]>>
      BY <3>1, KeyParts
    <3>3. CASE IsMember(req[q].ws, k[2])
      BY <2>1, <2>2, <3>1, <3>3 DEF Collected, OfMember
    <3>4. CASE ~IsMember(req[q].ws, k[2])
      BY <2>2, <3>1, <3>2, <3>4
    <3>. QED BY <3>3, <3>4
  <2>. QED BY <2>1, <2>2, <2>3, <2>4 DEF Collected
<1>3. Writing(req[q])'
  <2>1. req[q].pc \in {"declineUpdate", "reloadInvite"} =>
          req[q].inv \in Invites /\ KnownInvite(req[q].inv)
    BY SlotFacts DEF HandlerOK
  <2>. QED BY <1>2, <2>1 DEF Knows, Writing
<1>. QED BY <1>1, <1>3 DEF Knows

\* What a request that does not act has to delete, it has to delete still, or
\* the page belongs to a member who left and is going.
LEMMA StillDue ==
  ASSUME IInv, NEW q \in Requests, req'[q] = req[q], Knows(q), NEW k \in Key, Due(req[q], k),
         cache'[k] # Nil,
         \A w \in Workspaces, u \in Users :
           IsMember(w, u) /\ ~IsMember(w, u)' => Going(<<"list", u>>)'
  PROVE  Held(k)'
<1>1. CASE \/ Listed(req[q], k)
           \/ req[q].pc = "purgeDetail" /\ k = <<"detail", req[q].ws>>
  BY <1>1 DEF Held, Due, Listed, ToPurge
<1>2. CASE /\ OfMember(req[q].ws, k)
           /\ \/ req[q].pc = "purgeDetail"
              \/ req[q].pc = "findMemberIds" /\ req[q].op # "removeWorkspace"
  <2>1. req[q].ws \in Workspaces
    BY <1>2, SlotFacts DEF HandlerOK, ListOps, Knows, Writing
  <2>2. k[1] = "list" /\ k[2] \in Users /\ k = <<"list", k[2]>> /\ IsMember(req[q].ws, k[2])
    BY <1>2, KeyParts DEF OfMember
  <2>3. CASE IsMember(req[q].ws, k[2])'
    BY <1>2, <2>2, <2>3 DEF Held, Due, OfMember, IsMember
  <2>4. CASE ~IsMember(req[q].ws, k[2])'
    BY <2>1, <2>2, <2>4, GoingIsHeld
  <2>. QED BY <2>3, <2>4
<1>. QED BY <1>1, <1>2 DEF Due

-----------------------------------------------------------------------------
(* The steps by their effect on the pages.                                 *)

\* A step that leaves tables and pages alone, and no key less to delete.
LEMMA PagesKept ==
  ASSUME IInv, NEW r \in Requests, PagesInv, Acts(r), UNCHANGED <<ws, role, invite, cache>>,
         \A k \in Key : Due(req[r], k) => Due(req[r], k)',
         \A k \in Key : Listed(req[r], k) => Listed(req[r], k)',
         req[r].pc # "reloadInvite", Knows(r)'
  PROVE  PagesInv'
<1>1. \A k \in Key : Going(k) => Going(k)'
  BY StillGoing
<1>2. ASSUME NEW q \in Requests PROVE Knows(q)'
  BY <1>1, KnowsKept DEF PagesInv, Acts
<1>3. \A w \in Workspaces, u \in Users : IsMember(w, u)' <=> IsMember(w, u)
  BY DEF IsMember
<1>4. \A i : InviteExists(i)' => InviteExists(i)
  BY DEF InviteExists
<1>5. ASSUME NEW k \in Key, cache'[k] # Nil PROVE Right(k)' \/ Held(k)'
  <2>1. CASE Right(k)
    BY <1>4, <2>1, RightKept, SettledKept
  <2>2. CASE Held(k)
    <3>1. PICK q \in Requests : Due(req[q], k)
      BY <2>2 DEF Held
    <3>2. CASE q = r
      BY <3>1, <3>2 DEF Held
    <3>3. CASE q # r
      <4>1. req'[q] = req[q] /\ Knows(q)
        BY <3>3 DEF Acts, PagesInv
      <4>. QED BY <1>3, <1>5, <3>1, <4>1, StillDue
    <3>. QED BY <3>2, <3>3
  <2>. QED BY <1>5, <2>1, <2>2 DEF PagesInv, PagesRight
<1>. QED BY <1>2, <1>5 DEF PagesInv, PagesRight

\* The handler looks something up.
LEMMA LookedUp ==
  ASSUME IInv, NEW r \in Requests, PagesInv, Acts(r), UNCHANGED <<ws, role, invite, cache>>,
         req[r].pc \notin DelPCs, Knows(r)'
  PROVE  PagesInv'
<1>1. \A k \in Key : ~Due(req[r], k) /\ ~Listed(req[r], k)
  BY NothingDue DEF Listed, DelPCs
<1>2. req[r].pc # "reloadInvite"
  BY DEF DelPCs
<1>. QED BY <1>1, <1>2, PagesKept

\* The handler answers.
LEMMA AnswerPages ==
  ASSUME IInv, NEW r \in Requests, PagesInv, Acts(r), NEW a, Answer(r, a),
         UNCHANGED <<ws, role, invite, cache>>,
         req[r].pc \notin DelPCs
  PROVE  PagesInv'
<1>1. req'[r] = Free(a)
  BY AnswerRecord
<1>2. req'[r].pc = "replied"
  BY <1>1 DEF Free
<1>. QED BY <1>2, NothingToKnow, LookedUp

\* A handler writes.  Nobody reads meanwhile.
LEMMA WritePages ==
  ASSUME IInv, Staged, ReadsAlone, NEW r \in Requests, PagesInv, Acts(r), UNCHANGED cache,
         req[r].pc \in WritePCs, Knows(r)',
         \A i \in Invites : KnownInvite(i) => invite'[i].user = invite[i].user,
         \A w \in Workspaces, u \in Users :
           ~(IsMember(w, u)' <=> IsMember(w, u)) => Going(<<"list", u>>)',
         \A k \in Key : cache[k] # Nil /\ Right(k) => Right(k)' \/ Held(k)'
  PROVE  PagesInv'
<1>1. \A k \in Key : ~Due(req[r], k) /\ ~Listed(req[r], k)
  BY NothingDue DEF WritePCs, DelPCs, Listed
<1>2. \A k \in Key : Going(k) => Going(k)'
  BY <1>1, StillGoing
<1>3. ASSUME NEW q \in Requests \ {r} PROVE Knows(q)'
  <2>1. IsFree(q) \/ req[q].op \notin ReadOps
    BY DEF Staged, ReadsAlone, ReadPCs, WritePCs, IsFree
  <2>2. req'[q] = req[q] /\ Knows(q)
    BY DEF Acts, PagesInv
  <2>. QED BY <1>2, <2>1, <2>2, WriterKnows
<1>4. ASSUME NEW k \in Key, cache'[k] # Nil PROVE Right(k)' \/ Held(k)'
  <2>1. CASE Held(k)
    <3>1. PICK q \in Requests : Due(req[q], k)
      BY <2>1 DEF Held
    <3>2. q # r /\ req'[q] = req[q] /\ Knows(q)
      BY <1>1, <3>1 DEF Acts, PagesInv
    <3>. QED BY <1>4, <3>1, <3>2, StillDue
  <2>. QED BY <1>4, <2>1 DEF PagesInv, PagesRight
<1>. QED BY <1>3, <1>4 DEF PagesInv, PagesRight

\* The other pages, when one is deleted.
LEMMA DroppedPages ==
  ASSUME IInv, ~Faults, NEW r \in Requests, PagesInv, Acts(r), UNCHANGED <<ws, role, invite>>,
         NEW d \in Key, Drop(d), Knows(r)', req[r].pc # "reloadInvite",
         \A k \in Key \ {d} : Due(req[r], k) => Due(req[r], k)',
         \A k \in Key \ {d} : Listed(req[r], k) => Listed(req[r], k)'
  PROVE  PagesInv'
<1>1. cache'[d] = Nil /\ \A k \in Key \ {d} : cache'[k] = cache[k]
  BY IInvParts DEF CacheOK, Drop
<1>2. \A k \in Key : Going(k) => Going(k)'
  <2>1. ASSUME NEW k \in Key PROVE cache'[k] \in {Nil, cache[k]}
    BY <1>1
  <2>2. ASSUME NEW k \in Key, Listed(req[r], k)
        PROVE  cache'[k] = Nil \/ Listed(req[r], k)'
    BY <1>1, <2>2
  <2>. QED BY <2>1, <2>2, StillGoing
<1>3. ASSUME NEW q \in Requests PROVE Knows(q)'
  BY <1>2, KnowsKept DEF PagesInv, Acts
<1>4. \A w \in Workspaces, u \in Users : IsMember(w, u)' <=> IsMember(w, u)
  BY DEF IsMember
<1>5. \A i : InviteExists(i)' => InviteExists(i)
  BY DEF InviteExists
<1>6. ASSUME NEW k \in Key, cache'[k] # Nil PROVE Right(k)' \/ Held(k)'
  <2>1. k # d /\ cache'[k] = cache[k]
    BY <1>1, <1>6
  <2>2. CASE Right(k)
    BY <1>5, <2>1, <2>2, RightKept, SettledKept
  <2>3. CASE Held(k)
    <3>1. PICK q \in Requests : Due(req[q], k)
      BY <2>3 DEF Held
    <3>2. CASE q = r
      BY <2>1, <3>1, <3>2 DEF Held
    <3>3. CASE q # r
      <4>1. req'[q] = req[q] /\ Knows(q)
        BY <3>3 DEF Acts, PagesInv
      <4>. QED BY <1>4, <1>6, <3>1, <4>1, StillDue
    <3>. QED BY <3>2, <3>3
  <2>. QED BY <1>6, <2>1, <2>2, <2>3 DEF PagesInv, PagesRight
<1>. QED BY <1>3, <1>6 DEF PagesInv, PagesRight

\* A request arrives: nothing was left to delete.
LEMMA SendPages ==
  ASSUME IInv, NEW r \in Requests, PagesInv, Acts(r), Send(r) PROVE PagesInv'
<1>. DEFINE Begun == /\ UNCHANGED <<ws, role, invite, cache>>
                     /\ req[r].pc \notin DelPCs
                     /\ \/ req'[r].pc \in {"insertWorkspace", "getWorkspace", "findInvite"}
                        \/ req'[r].pc = "cacheGet" /\ req'[r].op \in {"findOne"} \cup ListOps
<1>1. ASSUME NEW op, NEW pc, NEW a, NEW w, NEW u, NEW i, Start(r, op, pc, a, w, u, i),
             \/ pc \in {"insertWorkspace", "getWorkspace", "findInvite"}
             \/ pc = "cacheGet" /\ op \in {"findOne"} \cup ListOps
      PROVE  Begun
  <2>1. req'[r] = Started(op, pc, a, w, u, i)
    BY <1>1, IInvParts DEF Start
  <2>. QED BY <1>1, <2>1 DEF Start, Started, IsFree, DelPCs
<1>. HIDE DEF Begun
<1>2. Begun
  BY <1>1 DEF Send, StartListWorkspaces, StartListInvites, StartCreateWorkspace,
     StartRenameWorkspace, StartRemoveWorkspace, StartFindOne, StartListMembers,
     StartRemoveMember, StartCreateInvite, StartAccept, StartDecline, ListOps
<1>. USE DEF Begun
<1>3. Knows(r)'
  <2>1. CASE req'[r].pc = "cacheGet"
    BY <1>2, <2>1 DEF Knows, Reading, Filling, Writing, Collected, ReadOps, ListOps
  <2>. QED BY <1>2, <2>1, NothingToKnow
<1>. QED BY <1>2, <1>3, LookedUp

-----------------------------------------------------------------------------
(* The steps that look something up.                                       *)

\* The checks whose outcome a page does not depend on.
LEMMA ChecksPages ==
  ASSUME IInv, NEW r \in Requests, PagesInv, Acts(r),
         AssertMemberOfCached(r) \/ FindTarget(r) \/ FindInvitee(r) \/ FindPending(r)
  PROVE  PagesInv'
<1>1. UNCHANGED <<ws, role, invite, cache>> /\ req[r].pc \notin DelPCs
  BY DEF AssertMemberOfCached, FindTarget, FindInvitee, FindPending, At, DelPCs
<1>2. \/ \E a : Answer(r, a)
      \/ \E pc \in {"deleteMembership", "findPending", "insertInvite"} : Goto(r, pc)
  BY DEF AssertMemberOfCached, FindTarget, FindInvitee, FindPending
<1>3. ASSUME NEW pc \in {"deleteMembership", "findPending", "insertInvite"}, Goto(r, pc)
      PROVE  PagesInv'
  BY <1>1, <1>3, GotoRecord, NothingToKnow, LookedUp
<1>. QED BY <1>1, <1>2, <1>3, AnswerPages

\* The workspace exists, and findOne has its row.
LEMMA GetWorkspacePages ==
  ASSUME IInv, NEW r \in Requests, PagesInv, Acts(r), GetWorkspace(r) PROVE PagesInv'
<1>1. UNCHANGED <<ws, role, invite, cache>> /\ req[r].pc \notin DelPCs
  BY DEF GetWorkspace, At, DelPCs
<1>. DEFINE k == <<"detail", req[r].ws>>
            pc == AfterGetWorkspace(req[r].op)
            x == IF Doing(r, "findOne") THEN Query(k) ELSE {}
<1>2. CASE /\ req' = [req EXCEPT ![r].pc = pc, ![r].seen = x]
           /\ WorkspaceExists(req[r].ws)
  <2>1. req \in [Requests -> RequestRecord] /\ req[r] \in RequestRecord
    BY IInvParts
  <2>. HIDE DEF pc, x
  <2>2. /\ req'[r].pc = pc /\ req'[r].seen = x
        /\ req'[r].op = req[r].op /\ req'[r].ws = req[r].ws
    BY <1>2, <2>1 DEF RequestRecord
  <2>3. \/ pc = "assertOwner"
        \/ pc = "assertMember" /\ req[r].op \in {"findOne", "listMembers"}
    BY DEF pc, AfterGetWorkspace
  <2>4. CASE pc = "assertOwner"
    BY <1>1, <2>2, <2>4, NothingToKnow, LookedUp
  <2>5. CASE pc = "assertMember" /\ req[r].op \in {"findOne", "listMembers"}
    <3>1. PICK w : w = req[r].ws
      OBVIOUS
    <3>2. Query(<<"detail", w>>)' = Query(<<"detail", w>>)
      BY <1>1, QuerySame
    <3>3. Query(<<"detail", req[r].ws>>)' = Query(<<"detail", w>>)'
      BY <2>2, <3>1
    <3>4. req[r].op = "findOne" => x = Query(<<"detail", w>>)
      BY <3>1 DEF x, Doing
    <3>5. WorkspaceExists(req[r].ws)'
      BY <1>1, <1>2, <2>2 DEF WorkspaceExists
    <3>6. Reading(req[r])'
      BY <2>2, <2>5, <3>2, <3>3, <3>4, <3>5 DEF Reading
    <3>7. Knows(r)'
      BY <2>2, <2>5, <3>6 DEF Knows, Filling, Writing, Collected
    <3>. QED BY <1>1, <3>7, LookedUp
  <2>. QED BY <2>3, <2>4, <2>5
<1>3. CASE Answer(r, "NotFound")
  BY <1>1, <1>3, AnswerPages
<1>. QED BY <1>2, <1>3 DEF GetWorkspace

\* Only remove goes on to the member ids, with the row still there.
LEMMA AssertOwnerPages ==
  ASSUME IInv, NEW r \in Requests, PagesInv, Acts(r), AssertOwner(r) PROVE PagesInv'
<1>1. UNCHANGED <<ws, role, invite, cache>> /\ req[r].pc \notin DelPCs
  BY DEF AssertOwner, At, DelPCs
<1>. DEFINE pc == AfterAssertOwner(req[r].op)
<1>2. CASE Goto(r, pc)
  <2>1. /\ pc \in {"findInvitee", "findTarget", "findMemberIds", "update"}
        /\ pc = "update" => req[r].op # "removeWorkspace"
    BY DEF AfterAssertOwner
  <2>. HIDE DEF pc
  <2>2. req'[r].pc = pc /\ req'[r].op = req[r].op
    BY <1>2, GotoRecord
  <2>3. Knows(r)'
    BY <2>1, <2>2 DEF Knows, Reading, Filling, Writing, Collected
  <2>. QED BY <1>1, <2>3, LookedUp
<1>3. CASE Answer(r, "NotAMember") \/ Answer(r, "OwnerOnly")
  BY <1>1, <1>3, AnswerPages
<1>. QED BY <1>2, <1>3 DEF AssertOwner

\* findOne goes on to cache the row it read, which is still the same.
LEMMA AssertMemberPages ==
  ASSUME IInv, NEW r \in Requests, PagesInv, Acts(r), AssertMember(r) PROVE PagesInv'
<1>1. /\ UNCHANGED <<ws, role, invite, cache>> /\ req[r].pc \notin DelPCs
      /\ req[r].pc = "assertMember"
  BY DEF AssertMember, At, DelPCs
<1>2. Reading(req[r]) /\ req[r].op \in {"findOne", "listMembers"} /\ WorkspaceExists(req[r].ws)
  BY <1>1 DEF PagesInv, Knows, Reading
<1>3. WorkspaceExists(req[r].ws)' <=> ws'[req'[r].ws].life = "live"
  BY DEF WorkspaceExists
<1>4. CASE Goto(r, "cacheSet") /\ Doing(r, "findOne")
  <2>1. /\ req'[r].pc = "cacheSet" /\ req'[r].op = "findOne"
        /\ req'[r].ws = req[r].ws /\ req'[r].seen = req[r].seen
    BY <1>4, GotoRecord DEF Doing
  <2>2. PICK k : k = <<"detail", req[r].ws>>
    OBVIOUS
  <2>3. KeyOf(r)' = k
    BY <2>1, <2>2 DEF KeyOf, Doing
  <2>4. Query(KeyOf(r))' = Query(k)'
    BY <2>3
  <2>5. req[r].seen = Query(k)
    BY <1>1, <1>2, <1>4, <2>2 DEF Reading, Doing
  <2>6. Filling(r)'
    BY <1>1, <2>1, <2>4, <2>5, QuerySame DEF Filling
  <2>7. Reading(req[r])'
    BY <1>1, <1>2, <1>3, <2>1 DEF Reading, ReadOps, WorkspaceExists
  <2>8. Writing(req[r])'
    BY <2>1 DEF Writing, Collected
  <2>. QED BY <1>1, <2>6, <2>7, <2>8, LookedUp DEF Knows
<1>5. CASE Goto(r, "cacheGet") /\ ~Doing(r, "findOne")
  <2>1. /\ req'[r].pc = "cacheGet" /\ req'[r].op = "listMembers" /\ req'[r].ws = req[r].ws
    BY <1>2, <1>5, GotoRecord DEF Doing
  <2>2. Knows(r)'
    BY <1>1, <1>2, <1>3, <2>1
    DEF Knows, Reading, Filling, Writing, Collected, ReadOps, WorkspaceExists
  <2>. QED BY <1>1, <2>2, LookedUp
<1>6. CASE Answer(r, "NotAMember")
  BY <1>1, <1>6, AnswerPages
<1>. QED BY <1>4, <1>5, <1>6 DEF AssertMember

\* decline goes on with an invite of its actor.
LEMMA FindInvitePages ==
  ASSUME IInv, NEW r \in Requests, PagesInv, Acts(r), FindInvite(r) PROVE PagesInv'
<1>1. UNCHANGED <<ws, role, invite, cache>> /\ req[r].pc \notin DelPCs
  BY DEF FindInvite, At, DelPCs
<1>2. CASE \E a : Answer(r, a)
  BY <1>1, <1>2, AnswerPages
<1>3. CASE /\ \E pc \in {"acceptTx", "declineUpdate"} : Goto(r, pc)
           /\ invite[req[r].inv].user = req[r].actor
  <2>1. PICK pc \in {"acceptTx", "declineUpdate"} : Goto(r, pc)
    BY <1>3
  <2>2. req'[r].pc = pc /\ req'[r].inv = req[r].inv /\ req'[r].actor = req[r].actor
    BY <2>1, GotoRecord
  <2>3. Knows(r)'
    BY <1>1, <1>3, <2>2 DEF Knows, Reading, Filling, Writing, Collected
  <2>. QED BY <1>1, <2>3, LookedUp
<1>. QED BY <1>2, <1>3 DEF FindInvite

\* A hit or a miss.
LEMMA CacheGetPages ==
  ASSUME IInv, NEW r \in Requests, PagesInv, Acts(r), CacheGet(r) PROVE PagesInv'
<1>1. /\ UNCHANGED <<ws, role, invite, cache>> /\ req[r].pc \notin DelPCs
      /\ req[r].pc = "cacheGet"
  BY DEF CacheGet, At, DelPCs
<1>2. CASE Answer(r, "Ok")
  BY <1>1, <1>2, AnswerPages
<1>3. CASE Goto(r, "assertMemberOfCached") \/ Goto(r, "getWorkspace")
  <2>1. req'[r].pc \in {"assertMemberOfCached", "getWorkspace"}
    BY <1>3, GotoRecord
  <2>. QED BY <1>1, <2>1, NothingToKnow, LookedUp
<1>4. CASE Goto(r, "query") /\ ~Doing(r, "findOne")
  <2>1. req'[r].pc = "query" /\ req'[r].op = req[r].op /\ req'[r].ws = req[r].ws
    BY <1>4, GotoRecord
  <2>2. Reading(req[r]) /\ req[r].op # "findOne"
    BY <1>4 DEF PagesInv, Knows, Doing
  <2>3. Reading(req[r])'
    BY <1>1, <2>1, <2>2 DEF Reading, WorkspaceExists
  <2>4. Knows(r)'
    BY <2>1, <2>3 DEF Knows, Filling, Writing, Collected
  <2>. QED BY <1>1, <2>4, LookedUp
<1>. QED BY <1>2, <1>3, <1>4 DEF CacheGet

\* What the query returned is what a page may be filled with.
LEMMA RunQueryPages ==
  ASSUME IInv, NEW r \in Requests, PagesInv, Acts(r), RunQuery(r) PROVE PagesInv'
<1>1. /\ UNCHANGED <<ws, role, invite, cache>> /\ req[r].pc \notin DelPCs
      /\ req[r].pc = "query"
  BY DEF RunQuery, At, DelPCs
<1>2. PICK k : k = KeyOf(r)
  OBVIOUS
<1>3. req \in [Requests -> RequestRecord] /\ req[r] \in RequestRecord
  BY IInvParts
<1>4. req' = [req EXCEPT ![r].pc = "cacheSet", ![r].seen = Query(k)]
  BY <1>2 DEF RunQuery
<1>5. PICK x : x = Query(k)
  OBVIOUS
<1>6. /\ req'[r].pc = "cacheSet" /\ req'[r].op = req[r].op /\ req'[r].ws = req[r].ws
      /\ req'[r].actor = req[r].actor /\ req'[r].seen = x
  BY <1>3, <1>4, <1>5 DEF RequestRecord
<1>7. KeyOf(r)' = k
  BY <1>2, <1>6 DEF KeyOf, Doing
<1>8. Filling(r)'
  BY <1>1, <1>5, <1>6, <1>7, QuerySame DEF Filling
<1>9. Reading(req[r]) /\ req[r].op # "findOne"
  BY <1>1 DEF PagesInv, Knows, Reading
<1>10. Reading(req[r])'
  BY <1>1, <1>6, <1>9 DEF Reading, WorkspaceExists
<1>11. Knows(r)'
  BY <1>6, <1>8, <1>10 DEF Knows, Writing, Collected
<1>. QED BY <1>1, <1>11, LookedUp

-----------------------------------------------------------------------------
(* The steps that delete or fill a page.                                   *)

\* A key that is going is listed by a request, or there is no such page.
LEMMA ListedIsGoing ==
  ASSUME NEW r \in Requests, NEW k, Listed(req[r], k)' PROVE Going(k)' /\ Held(k)'
BY DEF Going, Held, Due

\* The keys of the members' lists are to be deleted.
LEMMA FindMemberIdsPages ==
  ASSUME IInv, NEW r \in Requests, PagesInv, Acts(r), FindMemberIds(r) PROVE PagesInv'
<1>. DEFINE w == req[r].ws
            lists == {"list"} \X MembersOf(w)
            keys == <<{<<"detail", w>>}, {<<"members", w>>}, lists>>
<1>1. /\ UNCHANGED <<ws, role, invite, cache>> /\ req[r].pc = "findMemberIds"
  BY DEF FindMemberIds, At
<1>2. req \in [Requests -> RequestRecord] /\ req[r] \in RequestRecord
  BY IInvParts
<1>3. \A k \in Key : OfMember(w, k) => k \in lists
  BY KeyParts DEF OfMember, MembersOf
<1>4. CASE /\ Doing(r, "removeWorkspace")
           /\ req' = [req EXCEPT ![r].pc = "delete", ![r].purge = keys]
  <2>1. 1 \in DOMAIN keys /\ 2 \in DOMAIN keys /\ 3 \in DOMAIN keys /\ keys[1] = {<<"detail", w>>}
        /\ keys[2] = {<<"members", w>>} /\ keys[3] = lists
    OBVIOUS
  <2>. HIDE DEF keys
  <2>2. req'[r].pc = "delete" /\ req'[r].purge = keys /\ req'[r].ws = w
    BY <1>2, <1>4 DEF RequestRecord
  <2>3. \A k \in Key : OfMember(req[r].ws, k)' => OfMember(w, k)
    BY <1>1, <2>2 DEF OfMember, IsMember
  <2>. HIDE DEF w, lists
  <2>4. Collected(req[r])'
    BY <1>3, <2>1, <2>2, <2>3 DEF Collected, ToPurge
  <2>5. Knows(r)'
    BY <2>2, <2>4 DEF Knows, Reading, Filling, Writing
  <2>6. \A k \in Key : ~Due(req[r], k) /\ ~Listed(req[r], k)
    BY <1>1, <1>4 DEF Due, Listed, Doing
  <2>. QED BY <1>1, <2>5, <2>6, PagesKept
<1>5. CASE PurgeThenOk(r, <<lists>>)
  <2>1. req'[r].pc = "purge" /\ req'[r].purge = <<lists>>
    BY <1>5, PurgeRecord
  <2>2. ASSUME NEW k \in Key, Due(req[r], k) PROVE Due(req[r], k)'
    <3>1. k \in lists
      BY <1>1, <1>3, <2>2 DEF Due, Listed
    <3>. HIDE DEF lists
    <3>2. 1 \in DOMAIN req'[r].purge /\ k \in req'[r].purge[1]
      BY <2>1, <3>1
    <3>. QED BY <2>1, <3>2 DEF Due, Listed, ToPurge
  <2>3. \A k \in Key : ~Listed(req[r], k)
    BY <1>1 DEF Listed
  <2>. QED BY <1>1, <2>1, <2>2, <2>3, NothingToKnow, PagesKept
<1>. QED BY <1>4, <1>5 DEF FindMemberIds

\* The invites page is to be deleted, if the row is still there; if not,
\* nothing is on the page that still exists.
LEMMA ReloadInvitePages ==
  ASSUME IInv, NEW r \in Requests, PagesInv, Acts(r), ReloadInvite(r) PROVE PagesInv'
<1>0. PICK mine, i : mine = <<"invites", req[r].actor>> /\ i = req[r].inv
  OBVIOUS
<1>1. UNCHANGED <<ws, role, invite, cache>> /\ req[r].pc = "reloadInvite"
  BY DEF ReloadInvite, At
<1>2. \A k \in Key : ~Due(req[r], k) /\ ~Listed(req[r], k)
  BY <1>1 DEF Due, Listed
<1>3. \A k \in Key : Going(k) => Going(k)'
  BY <1>1, <1>2, StillGoing
<1>4. /\ Knows(r)'
      /\ InviteExists(i) => Listed(req[r], mine)'
  <2>1. CASE PurgeThenOk(r, <<{mine}>>)
    <3>1. req'[r].pc = "purge" /\ req'[r].purge = <<{mine}>>
      BY <2>1, PurgeRecord
    <3>2. 1 \in DOMAIN req'[r].purge /\ mine \in req'[r].purge[1]
      BY <3>1
    <3>. QED BY <3>1, <3>2, NothingToKnow DEF Listed, ToPurge
  <2>2. CASE Answer(r, "NotFound") /\ ~InviteExists(i)
    <3>1. req'[r] = Free("NotFound")
      BY <2>2, AnswerRecord
    <3>. QED BY <2>2, <3>1, NothingToKnow DEF Free
  <2>. QED BY <1>0, <2>1, <2>2 DEF ReloadInvite
<1>5. ASSUME NEW q \in Requests PROVE Knows(q)'
  BY <1>1, <1>3, <1>4, KnowsKept DEF PagesInv, Acts
<1>6. \A j \in Invites : Settled(j)' /\ j # i => Settled(j)
  <2>1. ASSUME NEW q \in Requests, req[q].pc = "reloadInvite", req[q].inv # i
        PROVE  req'[q].pc = "reloadInvite" /\ req'[q].inv = req[q].inv
    BY <1>0, <2>1 DEF Acts
  <2>2. \A j \in Invites : j # i /\ j \in Reloading => j \in Reloading'
    BY <2>1 DEF Reloading
  <2>. QED BY <1>1, <2>2 DEF Settled, InviteExists
<1>7. ASSUME NEW k \in Key, Right(k), k # mine PROVE Right(k)'
  <2>1. CASE k[1] \in {"detail", "members", "list"}
    BY <1>1, <1>7, <2>1, DetailKept, MembersKept, ListKept DEF IsMember
  <2>2. CASE k[1] = "invites"
    <3>1. k[2] # req[r].actor
      BY <1>0, <1>7, <2>2, KeyParts
    <3>2. invite[i].user = req[r].actor
      BY <1>0, <1>1 DEF PagesInv, Knows, Writing
    <3>3. \A j \in Invites : Settled(j)' /\ invite'[j].user = k[2] => Settled(j)
      BY <1>1, <1>6, <3>1, <3>2
    <3>4. \A j \in Invites : /\ KnownInvite(j)' <=> KnownInvite(j)
                             /\ InviteExists(j)' <=> InviteExists(j)
                             /\ invite'[j] = invite[j]
      BY <1>1 DEF KnownInvite, InviteExists
    <3>. QED BY <1>1, <1>7, <2>2, <3>3, <3>4, InvitesKept
  <2>. QED BY <2>1, <2>2, KeyParts
<1>8. ASSUME Right(mine), mine \in Key, ~InviteExists(i) PROVE Right(mine)'
  <2>1. ~Settled(i)'
    BY <1>1, <1>8 DEF Settled, InviteExists
  <2>2. \A j \in Invites : Settled(j)' => Settled(j)
    BY <1>6, <2>1
  <2>. QED BY <1>1, <1>8, <2>2, RightKept
<1>9. \A w \in Workspaces, u \in Users : IsMember(w, u)' <=> IsMember(w, u)
  BY <1>1 DEF IsMember
<1>10. ASSUME NEW k \in Key, cache'[k] # Nil PROVE Right(k)' \/ Held(k)'
  <2>1. CASE Right(k) /\ k # mine
    BY <1>7, <2>1
  <2>2. CASE Right(k) /\ k = mine
    BY <1>4, <1>8, <2>2, ListedIsGoing
  <2>3. CASE Held(k)
    <3>1. PICK q \in Requests : Due(req[q], k)
      BY <2>3 DEF Held
    <3>2. q # r /\ req'[q] = req[q] /\ Knows(q)
      BY <1>2, <3>1 DEF Acts, PagesInv
    <3>. QED BY <1>9, <1>10, <3>1, <3>2, StillDue
  <2>. QED BY <1>1, <1>10, <2>1, <2>2, <2>3 DEF PagesInv, PagesRight
<1>. QED BY <1>5, <1>10 DEF PagesInv, PagesRight

\* update deletes the detail page; the members' lists are still due.
LEMMA PurgeDetailPages ==
  ASSUME IInv, ~Faults, NEW r \in Requests, PagesInv, Acts(r), PurgeDetail(r) PROVE PagesInv'
<1>1. /\ UNCHANGED <<ws, role, invite>> /\ req[r].pc = "purgeDetail"
      /\ Goto(r, "findMemberIds") /\ Drop(<<"detail", req[r].ws>>)
  BY DEF PurgeDetail, At
<1>2. req'[r].pc = "findMemberIds" /\ req'[r].op = req[r].op /\ req'[r].ws = req[r].ws
  BY <1>1, GotoRecord
<1>3. req[r].op # "removeWorkspace" /\ req[r].ws \in Workspaces
  BY <1>1, SlotFacts DEF PagesInv, Knows, Writing, HandlerOK, OwnerWrites, ListOps
<1>4. PICK d \in Key : d = <<"detail", req[r].ws>>
  BY <1>3 DEF Key
<1>5. \A k \in Key \ {d} : Due(req[r], k) => Due(req[r], k)'
  BY <1>1, <1>2, <1>3, <1>4 DEF Due, Listed, OfMember, IsMember
<1>6. \A k \in Key : ~Listed(req[r], k)
  BY <1>1 DEF Listed
<1>. QED BY <1>1, <1>2, <1>4, <1>5, <1>6, NothingToKnow, DroppedPages


\* A sequence with one element put before it.
LEMMA FirstPut ==
  ASSUME NEW K, NEW h \in K, NEW t \in Seq(K)
  PROVE  /\ DOMAIN (<<h>> \o t) = 1..(1 + Len(t)) /\ (<<h>> \o t)[1] = h
         /\ \A n \in 2..(1 + Len(t)) : (<<h>> \o t)[n] = t[n - 1]
<1>1. <<h>> \o t \in Seq(K) /\ Len(<<h>> \o t) = 1 + Len(t)
  OBVIOUS
<1>2. DOMAIN (<<h>> \o t) = 1..(1 + Len(t))
  BY <1>1
<1>3. (<<h>> \o t)[1] = h
  OBVIOUS
<1>4. \A n \in 2..(1 + Len(t)) : (<<h>> \o t)[n] = t[n - 1]
  OBVIOUS
<1>. QED BY <1>2, <1>3, <1>4

\* A DEL leaves what is due but the one key.
LEMMA DelKeyPages ==
  ASSUME IInv, ~Faults, NEW r \in Requests, PagesInv, Acts(r), DelKey(r) PROVE PagesInv'
<1>. DEFINE p == req[r].purge
<1>1. PICK d \in Head(p) :
        Drop(d) /\ req' = [req EXCEPT ![r].purge = <<Head(@) \ {d}>> \o Tail(@)]
  BY DEF DelKey
<1>2. UNCHANGED <<ws, role, invite>> /\ req[r].pc = "purge" /\ p # <<>>
  BY DEF DelKey, At
<1>3. req \in [Requests -> RequestRecord] /\ req[r] \in RequestRecord
  BY IInvParts
<1>4. p \in Seq(SUBSET Key)
  BY <1>3 DEF RequestRecord
<1>. DEFINE s == <<Head(p) \ {d}>> \o Tail(p)
<1>5. /\ DOMAIN s = DOMAIN p /\ 1 \in DOMAIN p /\ Head(p) = p[1]
      /\ s[1] = p[1] \ {d} /\ \A n \in DOMAIN p \ {1} : s[n] = p[n]
  <2>. DEFINE h == Head(p) \ {d}
              t == Tail(p)
  <2>1. /\ Head(p) = p[1] /\ DOMAIN p = 1..Len(p) /\ Len(p) \in Nat \ {0}
        /\ t \in Seq(SUBSET Key) /\ Len(t) = Len(p) - 1
        /\ \A n \in 1..Len(t) : t[n] = p[n + 1]
    BY <1>2, <1>4
  <2>2. h \in SUBSET Key
    BY <1>2, <1>4
  <2>. HIDE DEF h, t, p
  <2>3. /\ DOMAIN (<<h>> \o t) = 1..(1 + Len(t)) /\ (<<h>> \o t)[1] = h
        /\ \A n \in 2..(1 + Len(t)) : (<<h>> \o t)[n] = t[n - 1]
    <3>1. PICK K : K = SUBSET Key
      OBVIOUS
    <3>2. h \in K /\ t \in Seq(K)
      BY <2>1, <2>2, <3>1
    <3>. QED BY <3>2, FirstPut
  <2>4. DOMAIN s = 1..(1 + Len(t)) /\ s[1] = h /\ \A n \in 2..(1 + Len(t)) : s[n] = t[n - 1]
    BY <2>3 DEF h, t
  <2>5. ASSUME NEW n \in DOMAIN p \ {1} PROVE s[n] = p[n]
    <3>1. n \in 2..(1 + Len(t)) /\ n - 1 \in 1..Len(t) /\ (n - 1) + 1 = n
      BY <2>1
    <3>2. s[n] = t[n - 1] /\ t[n - 1] = p[(n - 1) + 1]
      BY <2>1, <2>4, <3>1
    <3>. QED BY <3>1, <3>2
  <2>6. DOMAIN s = DOMAIN p /\ 1 \in DOMAIN p
    BY <2>1, <2>4
  <2>. QED BY <2>1, <2>4, <2>5, <2>6 DEF h
<1>6. d \in Key
  BY <1>1, <1>2, <1>4, <1>5
<1>. HIDE DEF p, s
<1>7. req'[r].pc = "purge" /\ req'[r].purge = s
  <2>1. req' = [req EXCEPT ![r] = [req[r] EXCEPT !.purge = s]]
    BY <1>1 DEF s, p
  <2>. QED BY <1>2, <1>3, <2>1 DEF RequestRecord
<1>8. ASSUME NEW k \in Key \ {d}, Due(req[r], k) PROVE Due(req[r], k)'
  <2>1. PICK n \in DOMAIN p : k \in p[n]
    BY <1>2, <1>8 DEF Due, Listed, ToPurge, p
  <2>2. n \in DOMAIN s /\ k \in s[n]
    BY <1>2, <1>4, <1>5, <2>1
  <2>. QED BY <1>7, <2>2 DEF Due, Listed, ToPurge
<1>9. \A k \in Key : Due(req[r], k) <=> Listed(req[r], k)
  BY <1>2 DEF Due
<1>10. \A k \in Key : Due(req[r], k)' <=> Listed(req[r], k)'
  BY <1>7 DEF Due
<1>. QED BY <1>1, <1>2, <1>6, <1>7, <1>8, <1>9, <1>10, NothingToKnow, DroppedPages

\* An empty group has nothing due.
LEMMA PurgeAwaitedPages ==
  ASSUME IInv, NEW r \in Requests, PagesInv, Acts(r), PurgeAwaited(r) PROVE PagesInv'
<1>. DEFINE p == req[r].purge
<1>1. /\ UNCHANGED <<ws, role, invite, cache>> /\ req[r].pc = "purge"
      /\ p # <<>> /\ Head(p) = {}
  BY DEF PurgeAwaited, At
<1>2. req \in [Requests -> RequestRecord] /\ req[r] \in RequestRecord
  BY IInvParts
<1>3. p \in Seq(SUBSET Key) /\ Len(p) \in Nat \ {0} /\ DOMAIN p = 1..Len(p) /\ p[1] = {}
  BY <1>1, <1>2 DEF RequestRecord
<1>4. CASE Len(p) = 1 /\ Answer(r, "Ok")
  <2>1. req'[r].pc = "replied"
    <3>1. req'[r] = Free("Ok")
      BY <1>4, AnswerRecord
    <3>. QED BY <3>1 DEF Free
  <2>2. \A k \in Key : ~Due(req[r], k)
    BY <1>1, <1>3, <1>4 DEF Due, Listed, ToPurge
  <2>3. \A k \in Key : ~Listed(req[r], k)
    BY <2>2 DEF Due
  <2>. QED BY <1>1, <2>1, <2>2, <2>3, NothingToKnow, PagesKept
<1>5. CASE Len(p) # 1 /\ req' = [req EXCEPT ![r].purge = Tail(@)]
  <2>. DEFINE s == Tail(p)
  <2>1. DOMAIN s = 1..(Len(p) - 1) /\ \A n \in 1..(Len(p) - 1) : s[n] = p[n + 1]
    BY <1>1, <1>3
  <2>. HIDE DEF s
  <2>2. req'[r].pc = "purge" /\ req'[r].purge = s
    <3>1. req' = [req EXCEPT ![r] = [req[r] EXCEPT !.purge = s]]
      BY <1>5 DEF s
    <3>. QED BY <1>1, <1>2, <3>1 DEF RequestRecord
  <2>3. ASSUME NEW k \in Key, Due(req[r], k) PROVE Due(req[r], k)'
    <3>1. PICK n \in DOMAIN p : k \in p[n]
      BY <1>1, <2>3 DEF Due, Listed, ToPurge
    <3>2. n \in Nat /\ n > 1 /\ n <= Len(p)
      BY <1>3, <3>1
    <3>3. n - 1 \in DOMAIN s /\ k \in s[n - 1]
      BY <1>3, <2>1, <3>1, <3>2
    <3>. QED BY <2>2, <3>3 DEF Due, Listed, ToPurge
  <2>4. \A k \in Key : Listed(req[r], k) => Listed(req[r], k)'
    BY <1>1, <2>2, <2>3 DEF Due
  <2>. QED BY <1>1, <2>2, <2>3, <2>4, NothingToKnow, PagesKept
<1>. QED BY <1>4, <1>5 DEF PurgeAwaited

\* The page filled is what the query would return now.
\* The page filled is what the query would return now.  Nobody writes
\* meanwhile, so nobody has collected keys and relies on there being no page.
LEMMA CacheSetPages ==
  ASSUME IInv, ~Faults, Staged, ReadsAlone, NEW r \in Requests, PagesInv, Acts(r), CacheSet(r)
  PROVE  PagesInv'
<1>1. /\ UNCHANGED <<ws, role, invite>> /\ req[r].pc = "cacheSet" /\ Answer(r, "Ok")
      /\ cache' = [cache EXCEPT ![KeyOf(r)] = req[r].seen]
  BY DEF CacheSet, At
<1>2. req'[r].pc = "replied"
  <2>1. req'[r] = Free("Ok")
    BY <1>1, AnswerRecord
  <2>. QED BY <2>1 DEF Free
<1>3. PICK d \in Key : d = KeyOf(r)
  BY <1>1, KeyOfType DEF IsFree
<1>4. /\ cache'[d] = Query(d) /\ \A k \in Key \ {d} : cache'[k] = cache[k]
  BY <1>1, <1>3, IInvParts DEF CacheOK, PagesInv, Knows, Filling
<1>5. d[1] \in {"detail", "members"} => WorkspaceExists(d[2])
  BY <1>1, <1>3 DEF PagesInv, Knows, Reading, KeyOf, Doing
<1>6. Right(d)'
  BY <1>1, <1>4, <1>5, FilledRight
<1>7. req[r].op \in ReadOps /\ ~IsFree(r)
  BY <1>1 DEF PagesInv, Knows, Reading, IsFree
<1>8. ASSUME NEW q \in Requests PROVE req[q].pc \notin {"delete", "reloadInvite"}
  BY <1>7 DEF Staged, ReadsAlone, ReadPCs, IsFree
<1>9. ASSUME NEW q \in Requests PROVE Knows(q)'
  BY <1>1, <1>2, <1>8, KnowsKept, NothingToKnow DEF PagesInv, Acts
<1>10. \A i \in Invites : Settled(i)' => Settled(i)
  <2>1. \A i : InviteExists(i)' => InviteExists(i)
    BY <1>1 DEF InviteExists
  <2>. QED BY <1>8, <2>1, SettledKept
<1>11. \A w \in Workspaces, u \in Users : IsMember(w, u)' <=> IsMember(w, u)
  BY <1>1 DEF IsMember
<1>12. ASSUME NEW k \in Key, k # d, cache'[k] # Nil PROVE Right(k)' \/ Held(k)'
  <2>1. cache'[k] = cache[k]
    BY <1>4, <1>12
  <2>2. CASE Right(k)
    BY <1>1, <1>10, <2>1, <2>2, RightKept
  <2>3. CASE Held(k)
    <3>1. PICK q \in Requests : Due(req[q], k)
      BY <2>3 DEF Held
    <3>2. q # r /\ req'[q] = req[q] /\ Knows(q)
      BY <1>1, <3>1 DEF Acts, PagesInv, Due, Listed
    <3>. QED BY <1>11, <1>12, <3>1, <3>2, StillDue
  <2>. QED BY <1>12, <2>1, <2>2, <2>3 DEF PagesInv, PagesRight
<1>. QED BY <1>6, <1>9, <1>12 DEF PagesInv, PagesRight

\* No request acts: the TTL of a page runs out, or nothing happens.
LEMMA IdlePages ==
  ASSUME IInv, PagesInv, UNCHANGED <<ws, role, invite, req>>,
         \A k \in Key : cache'[k] \in {Nil, cache[k]}
  PROVE  PagesInv'
<1>1. \A k \in Key : Going(k) => Going(k)'
  BY DEF Going, Listed, ToPurge
<1>2. ASSUME NEW q \in Requests PROVE Knows(q)'
  BY <1>1, KnowsKept DEF PagesInv
<1>3. \A i \in Invites : Settled(i)' => Settled(i)
  BY DEF Settled, InviteExists, Reloading
<1>4. \A w \in Workspaces, u \in Users : IsMember(w, u)' <=> IsMember(w, u)
  BY DEF IsMember
<1>5. ASSUME NEW k \in Key, cache'[k] # Nil PROVE Right(k)' \/ Held(k)'
  <2>1. cache'[k] = cache[k]
    BY <1>5
  <2>2. CASE Right(k)
    BY <1>3, <2>1, <2>2, RightKept
  <2>3. CASE Held(k)
    <3>1. PICK q \in Requests : Due(req[q], k)
      BY <2>3 DEF Held
    <3>2. req'[q] = req[q] /\ Knows(q)
      BY DEF PagesInv
    <3>. QED BY <1>4, <1>5, <3>1, <3>2, StillDue
  <2>. QED BY <1>5, <2>1, <2>2, <2>3 DEF PagesInv, PagesRight
<1>. QED BY <1>2, <1>5 DEF PagesInv, PagesRight

-----------------------------------------------------------------------------
(* The steps that write a table: each page that the write outdates is due. *)

\* What is due once a handler has the keys to delete.
LEMMA DuePurge ==
  ASSUME IInv, NEW r \in Requests, NEW s, PurgeThenOk(r, s)
  PROVE  /\ req'[r].pc = "purge"
         /\ \A k : (\E n \in DOMAIN s : k \in s[n]) => Going(k)' /\ Held(k)'
<1>1. req'[r].pc = "purge" /\ req'[r].purge = s
  BY PurgeRecord
<1>2. ASSUME NEW k, \E n \in DOMAIN s : k \in s[n] PROVE Listed(req[r], k)'
  BY <1>1, <1>2 DEF Listed, ToPurge
<1>. QED BY <1>1, <1>2, ListedIsGoing

\* What is due when there is one key.
LEMMA DueAlone ==
  ASSUME IInv, NEW r \in Requests, NEW one, PurgeThenOk(r, <<{one}>>)
  PROVE  req'[r].pc = "purge" /\ Going(one)' /\ Held(one)'
<1>. DEFINE s == <<{one}>>
<1>1. 1 \in DOMAIN s /\ one \in s[1]
  OBVIOUS
<1>. HIDE DEF s
<1>2. PurgeThenOk(r, s)
  BY DEF s
<1>. QED BY <1>1, <1>2, DuePurge

\* A step that leaves the invites alone keeps their pages.
LEMMA InvitesSame ==
  ASSUME NEW r \in Requests, Acts(r), req[r].pc \in WritePCs, UNCHANGED <<invite, cache>>,
         NEW k \in Key, k[1] = "invites", Right(k)
  PROVE  Right(k)'
<1>1. \A i \in Invites : /\ KnownInvite(i)' <=> KnownInvite(i)
                         /\ InviteExists(i)' <=> InviteExists(i)
                         /\ invite'[i] = invite[i]
  BY DEF KnownInvite, InviteExists
<1>2. \A i \in Invites : Settled(i)' => Settled(i)
  BY <1>1, SettledKept DEF WritePCs
<1>. QED BY <1>1, <1>2, InvitesKept

\* A new workspace is on its owner's list and was on no page before.
LEMMA InsertWorkspacePages ==
  ASSUME IInv, Staged, ReadsAlone, NEW r \in Requests, PagesInv, Acts(r), InsertWorkspace(r)
  PROVE  PagesInv'
<1>0. PICK w, u : w = req[r].ws /\ u = req[r].actor
  OBVIOUS
<1>1. /\ UNCHANGED cache /\ req[r].pc = "insertWorkspace" /\ req[r].pc \in WritePCs
      /\ PurgeThenOk(r, <<{<<"list", u>>}>>)
  BY <1>0 DEF InsertWorkspace, At, WritePCs
<1>2. PICK name \in Names : CreateWithOwner(w, u, name)
  BY <1>0 DEF InsertWorkspace
<1>3. w \in Workspaces /\ u \in Users /\ ws[w].life = "unused"
  BY <1>0, <1>1, SlotFacts DEF HandlerOK, ListOps
<1>4. /\ \A x \in Workspaces \ {w} : ws'[x] = ws[x]
      /\ \A x \in Workspaces, v \in Users :
           x # w \/ v # u => role'[<<x, v>>] = role[<<x, v>>]
      /\ invite' = invite
  BY <1>2, <1>3, IInvParts DEF CreateWithOwner, DbInv, DbTypeOK
<1>5. \A v \in Users : ~IsMember(w, v)
  BY <1>3, IInvParts DEF DbInv, NoOrphans, WorkspaceExists
<1>6. req'[r].pc = "purge" /\ Going(<<"list", u>>)' /\ Held(<<"list", u>>)'
  BY <1>1, DueAlone
<1>7. ASSUME NEW k \in Key, cache[k] # Nil, Right(k) PROVE Right(k)' \/ Held(k)'
  <2>1. CASE k[1] = "detail" \/ k[1] = "members"
    <3>1. k[2] \in Workspaces \ {w}
      BY <1>3, <1>7, <2>1, KeyParts DEF Right, Fresh, WorkspaceExists
    <3>. QED BY <1>1, <1>4, <1>7, <2>1, <3>1, DetailKept, MembersKept
  <2>2. CASE k = <<"list", u>>
    BY <1>6, <2>2
  <2>3. CASE k[1] = "list" /\ k # <<"list", u>>
    <3>1. k[2] \in Users \ {u}
      BY <2>3, KeyParts
    <3>2. ASSUME NEW x \in Workspaces
          PROVE  /\ IsMember(x, k[2])' <=> IsMember(x, k[2])
                 /\ IsMember(x, k[2]) => ws'[x].name = ws[x].name
      BY <1>4, <1>5, <3>1 DEF IsMember
    <3>. QED BY <1>1, <1>7, <2>3, <3>2, ListKept
  <2>4. CASE k[1] = "invites"
    BY <1>1, <1>4, <1>7, <2>4, InvitesSame
  <2>. QED BY <2>1, <2>2, <2>3, <2>4, KeyParts
<1>8. \A x \in Workspaces, v \in Users :
        ~(IsMember(x, v)' <=> IsMember(x, v)) => Going(<<"list", v>>)'
  BY <1>4, <1>6 DEF IsMember
<1>9. \A i \in Invites : invite'[i].user = invite[i].user
  BY <1>4
<1>. QED BY <1>1, <1>6, <1>7, <1>8, <1>9, NothingToKnow, WritePages

\* A new name is on the detail page and on the lists of the members.
LEMMA UpdatePages ==
  ASSUME IInv, Staged, ReadsAlone, NEW r \in Requests, PagesInv, Acts(r), Update(r)
  PROVE  PagesInv'
<1>0. PICK w : w = req[r].ws
  OBVIOUS
<1>1. /\ UNCHANGED cache /\ req[r].pc = "update" /\ req[r].pc \notin DelPCs
      /\ req[r].pc \in WritePCs
  BY DEF Update, At, DelPCs, WritePCs
<1>2. CASE Answer(r, "NotFound") /\ UNCHANGED <<ws, role, invite>>
  BY <1>1, <1>2, AnswerPages
<1>3. CASE (\E name \in Names : Rename(w, name)) /\ Goto(r, "purgeDetail")
  <2>1. PICK name \in Names : Rename(w, name)
    BY <1>3
  <2>2. w \in Workspaces /\ req[r].op # "removeWorkspace"
    BY <1>0, <1>1, SlotFacts DEF HandlerOK, ListOps, PagesInv, Knows, Writing
  <2>3. /\ \A x \in Workspaces \ {w} : ws'[x] = ws[x]
        /\ \A x \in Workspaces : ws'[x].life = ws[x].life
        /\ role' = role /\ invite' = invite
    BY <2>1, <2>2, IInvParts DEF Rename, DbInv, DbTypeOK
  <2>4. req'[r].pc = "purgeDetail" /\ req'[r].op = req[r].op /\ req'[r].ws = w
    BY <1>0, <1>3, GotoRecord
  <2>5. Knows(r)'
    BY <2>2, <2>4 DEF Knows, Reading, Filling, Writing, Collected
  <2>6. ASSUME NEW k \in Key, cache[k] # Nil, Right(k) PROVE Right(k)' \/ Held(k)'
    <3>1. CASE k[1] = "detail"
      <4>1. CASE k[2] = w
        BY <2>4, <3>1, <4>1, KeyParts DEF Held, Due
      <4>2. CASE k[2] # w
        BY <1>1, <2>3, <2>6, <3>1, <4>2, KeyParts, DetailKept
      <4>. QED BY <4>1, <4>2
    <3>2. CASE k[1] = "members"
      BY <1>1, <2>3, <2>6, <3>2, KeyParts, MembersKept
    <3>3. CASE k[1] = "list"
      <4>1. CASE IsMember(w, k[2])
        BY <2>3, <2>4, <3>3, <4>1 DEF Held, Due, OfMember, IsMember
      <4>2. CASE ~IsMember(w, k[2])
        <5>1. ASSUME NEW x \in Workspaces
              PROVE  /\ IsMember(x, k[2])' <=> IsMember(x, k[2])
                     /\ IsMember(x, k[2]) => ws'[x].name = ws[x].name
          BY <2>3, <4>2 DEF IsMember
        <5>. QED BY <1>1, <2>6, <3>3, <5>1, ListKept
      <4>. QED BY <4>1, <4>2
    <3>4. CASE k[1] = "invites"
      BY <1>1, <2>3, <2>6, <3>4, InvitesSame
    <3>. QED BY <3>1, <3>2, <3>3, <3>4, KeyParts
  <2>7. \A x \in Workspaces, v \in Users : IsMember(x, v)' <=> IsMember(x, v)
    BY <2>3 DEF IsMember
  <2>8. \A i \in Invites : invite'[i].user = invite[i].user
    BY <2>3
  <2>. QED BY <1>1, <2>5, <2>6, <2>7, <2>8, WritePages
<1>. QED BY <1>0, <1>2, <1>3 DEF Update

\* The pages of the workspace and its members' lists were collected before;
\* the list of who joined since is going.  The cascade takes invites off no
\* page, but those on it are deleted.
LEMMA DeletePages ==
  ASSUME IInv, Staged, ReadsAlone, NEW r \in Requests, PagesInv, Acts(r), Delete(r)
  PROVE  PagesInv'
<1>0. PICK w : w = req[r].ws
  OBVIOUS
<1>1. /\ UNCHANGED cache /\ req[r].pc = "delete" /\ req[r].pc \notin DelPCs
      /\ req[r].pc \in WritePCs
  BY DEF Delete, At, DelPCs, WritePCs
<1>2. CASE /\ Answer(r, "NotFound") \/ Answer(r, "Error")
           /\ UNCHANGED <<ws, role, invite>>
  BY <1>1, <1>2, AnswerPages
<1>3. CASE DeleteCascade(w) /\ Goto(r, "purge")
  <2>1. w \in Workspaces
    BY <1>0, <1>1, SlotFacts DEF HandlerOK, ListOps
  <2>2. /\ \A x \in Workspaces \ {w} : ws'[x] = ws[x]
        /\ \A x \in Workspaces : ws'[x].name = ws[x].name
        /\ \A x \in Workspaces, u \in Users :
             role'[<<x, u>>] = IF x = w THEN "none" ELSE role[<<x, u>>]
        /\ \A i \in Invites :
             /\ invite[i].ws # w => invite'[i] = invite[i]
             /\ invite[i].ws = w =>
                  invite'[i].status = "deleted" /\ invite'[i].user = invite[i].user
    BY <1>3, <2>1, IInvParts DEF DeleteCascade, DbInv, DbTypeOK
  <2>3. req'[r].pc = "purge" /\ \A k : ToPurge(req[r], k) => Listed(req[r], k)'
    BY <1>3, GotoRecord DEF Listed, ToPurge
  <2>4. ~\E k : Listed(req[r], k)
    BY <1>1 DEF Listed
  <2>5. \A k \in Key : Going(k) => Going(k)'
    BY <1>1, <2>4, StillGoing
  <2>6. /\ ToPurge(req[r], <<"detail", w>>) /\ ToPurge(req[r], <<"members", w>>)
        /\ \A k \in Key : OfMember(w, k) => ToPurge(req[r], k) \/ Going(k)
    BY <1>0, <1>1 DEF PagesInv, Knows, Writing, Collected
  <2>7. ASSUME NEW k \in Key, \/ k = <<"detail", w>> \/ k = <<"members", w>>
                              \/ OfMember(w, k)
        PROVE  Going(k)'
    BY <2>3, <2>5, <2>6, <2>7, ListedIsGoing
  <2>8. ASSUME NEW k \in Key, cache[k] # Nil, Right(k) PROVE Right(k)' \/ Held(k)'
    <3>1. CASE k[1] \in {"detail", "members"}
      <4>1. CASE k[2] = w
        BY <1>1, <2>7, <2>8, <3>1, <4>1, KeyParts, GoingIsHeld
      <4>2. CASE k[2] # w
        <5>1. k[2] \in Workspaces \ {w}
          BY <3>1, <4>2, KeyParts
        <5>. QED BY <1>1, <2>2, <2>8, <3>1, <5>1, DetailKept, MembersKept
      <4>. QED BY <4>1, <4>2
    <3>2. CASE k[1] = "list"
      <4>1. CASE IsMember(w, k[2])
        BY <1>1, <2>7, <2>8, <3>2, <4>1, GoingIsHeld DEF OfMember
      <4>2. CASE ~IsMember(w, k[2])
        <5>1. ASSUME NEW x \in Workspaces
              PROVE  /\ IsMember(x, k[2])' <=> IsMember(x, k[2])
                     /\ IsMember(x, k[2]) => ws'[x].name = ws[x].name
          BY <2>2, <3>2, <4>2, KeyParts DEF IsMember
        <5>. QED BY <1>1, <2>8, <3>2, <5>1, ListKept
      <4>. QED BY <4>1, <4>2
    <3>3. CASE k[1] = "invites"
      <4>1. ASSUME NEW i \in Invites
            PROVE  /\ KnownInvite(i) => KnownInvite(i)' /\ invite'[i].user = invite[i].user
                   /\ InviteExists(i)' => InviteExists(i) /\ invite'[i].status = invite[i].status
        BY <2>2 DEF KnownInvite, InviteExists
      <4>2. \A i \in Invites : Settled(i)' => Settled(i) /\ InviteExists(i)'
        BY <1>1, <4>1, SettledKept DEF Settled
      <4>. QED BY <1>1, <2>8, <3>3, <4>1, <4>2, InvitesKept
    <3>. QED BY <3>1, <3>2, <3>3, KeyParts
  <2>9. ASSUME NEW x \in Workspaces, NEW v \in Users, ~(IsMember(x, v)' <=> IsMember(x, v))
        PROVE  Going(<<"list", v>>)'
    <3>1. IsMember(w, v)
      BY <2>2, <2>9 DEF IsMember
    <3>2. PICK k \in Key : k = <<"list", v>>
      BY DEF Key
    <3>. QED BY <2>7, <3>1, <3>2 DEF OfMember
  <2>10. \A i \in Invites : invite'[i].user = invite[i].user
    BY <2>2
  <2>. QED BY <1>1, <2>3, <2>8, <2>9, <2>10, NothingToKnow, WritePages
<1>. QED BY <1>0, <1>2, <1>3 DEF Delete

\* A member who goes is on the members page and has the workspace on a list.
LEMMA RemoveMembershipPages ==
  ASSUME IInv, Staged, ReadsAlone, NEW r \in Requests, PagesInv, Acts(r), RemoveMembership(r)
  PROVE  PagesInv'
<1>0. PICK w, u : w = req[r].ws /\ u = req[r].user
  OBVIOUS
<1>1. /\ UNCHANGED cache /\ req[r].pc = "deleteMembership" /\ req[r].pc \notin DelPCs
      /\ req[r].pc \in WritePCs
  BY DEF RemoveMembership, At, DelPCs, WritePCs
<1>2. CASE Answer(r, "NotFound") /\ UNCHANGED <<ws, role, invite>>
  BY <1>1, <1>2, AnswerPages
<1>3. CASE /\ DeleteMembership(w, u)
           /\ PurgeThenOk(r, <<{<<"members", w>>}, {<<"list", u>>}>>)
  <2>1. w \in Workspaces /\ u \in Users
    BY <1>0, <1>1, SlotFacts DEF HandlerOK, ListOps
  <2>2. /\ \A x \in Workspaces, v \in Users :
             x # w \/ v # u => role'[<<x, v>>] = role[<<x, v>>]
        /\ ws' = ws /\ invite' = invite
    BY <1>3, <2>1, IInvParts DEF DeleteMembership, DbInv, DbTypeOK
  <2>3. /\ req'[r].pc = "purge"
        /\ \A k : k = <<"members", w>> \/ k = <<"list", u>> => Going(k)' /\ Held(k)'
    <3>. DEFINE p == <<{<<"members", w>>}, {<<"list", u>>}>>
    <3>1. 1 \in DOMAIN p /\ <<"members", w>> \in p[1] /\ 2 \in DOMAIN p /\ <<"list", u>> \in p[2]
      OBVIOUS
    <3>. HIDE DEF p
    <3>2. PurgeThenOk(r, p)
      BY <1>3 DEF p
    <3>. QED BY <3>1, <3>2, DuePurge
  <2>4. ASSUME NEW k \in Key, cache[k] # Nil, Right(k) PROVE Right(k)' \/ Held(k)'
    <3>1. CASE k = <<"members", w>> \/ k = <<"list", u>>
      BY <2>3, <3>1
    <3>2. CASE k[1] = "detail"
      BY <1>1, <2>2, <2>4, <3>2, DetailKept
    <3>3. CASE k[1] = "members" /\ k # <<"members", w>>
      <4>1. k[2] # w /\ k[2] \in Workspaces
        BY <3>3, KeyParts
      <4>. QED BY <1>1, <2>2, <2>4, <3>3, <4>1, MembersKept
    <3>4. CASE k[1] = "list" /\ k # <<"list", u>>
      <4>1. k[2] # u /\ k[2] \in Users
        BY <3>4, KeyParts
      <4>2. \A x \in Workspaces : IsMember(x, k[2])' <=> IsMember(x, k[2])
        BY <2>2, <4>1 DEF IsMember
      <4>. QED BY <1>1, <2>2, <2>4, <3>4, <4>2, ListKept
    <3>5. CASE k[1] = "invites"
      BY <1>1, <2>2, <2>4, <3>5, InvitesSame
    <3>. QED BY <3>1, <3>2, <3>3, <3>4, <3>5, KeyParts
  <2>5. \A x \in Workspaces, v \in Users :
          ~(IsMember(x, v)' <=> IsMember(x, v)) => Going(<<"list", v>>)'
    BY <2>2, <2>3 DEF IsMember
  <2>6. \A i \in Invites : invite'[i].user = invite[i].user
    BY <2>2
  <2>. QED BY <1>1, <2>3, <2>4, <2>5, <2>6, NothingToKnow, WritePages
<1>. QED BY <1>0, <1>2, <1>3 DEF RemoveMembership

\* A new invite has an id that is on no page, and is its invitee's.
LEMMA CreateInvitePages ==
  ASSUME IInv, Staged, ReadsAlone, NEW r \in Requests, PagesInv, Acts(r), CreateInvite(r)
  PROVE  PagesInv'
<1>0. PICK w, u, i : w = req[r].ws /\ u = req[r].user /\ i = req[r].inv
  OBVIOUS
<1>1. /\ UNCHANGED cache /\ req[r].pc = "insertInvite" /\ req[r].pc \notin DelPCs
      /\ req[r].pc \in WritePCs
  BY DEF CreateInvite, At, DelPCs, WritePCs
<1>2. CASE /\ Answer(r, "AlreadyInvited") \/ Answer(r, "Error")
           /\ UNCHANGED <<ws, role, invite>>
  BY <1>1, <1>2, AnswerPages
<1>3. CASE InsertInvite(i, w, u) /\ PurgeThenOk(r, <<{<<"invites", u>>}>>)
  <2>1. i \in Invites /\ invite[i].status = "unused"
    BY <1>0, <1>1, SlotFacts DEF HandlerOK, Inserting, BeforeInsert
  <2>2. /\ \A j \in Invites \ {i} : invite'[j] = invite[j]
        /\ invite'[i].user = u /\ ws' = ws /\ role' = role
    BY <1>3, <2>1, IInvParts DEF InsertInvite, DbInv, DbTypeOK
  <2>3. req'[r].pc = "purge" /\ Held(<<"invites", u>>)'
    BY <1>3, DueAlone
  <2>4. ASSUME NEW k \in Key, cache[k] # Nil, Right(k) PROVE Right(k)' \/ Held(k)'
    <3>1. CASE k[1] \in {"detail", "members", "list"}
      BY <1>1, <2>2, <2>4, <3>1, DetailKept, MembersKept, ListKept DEF IsMember
    <3>2. CASE k = <<"invites", u>>
      BY <2>3, <3>2
    <3>3. CASE k[1] = "invites" /\ k # <<"invites", u>>
      <4>1. k[2] # u
        BY <3>3, KeyParts
      <4>2. ASSUME NEW j \in Invites
            PROVE  /\ KnownInvite(j) => KnownInvite(j)' /\ invite'[j] = invite[j]
                   /\ KnownInvite(j) /\ InviteExists(j)' => InviteExists(j)
        BY <2>1, <2>2 DEF KnownInvite, InviteExists
      <4>3. ASSUME NEW j \in Invites, Settled(j)', invite'[j].user = k[2]
            PROVE  Settled(j) /\ invite'[j] = invite[j]
        <5>1. invite'[j] = invite[j]
          BY <2>2, <4>1, <4>3
        <5>2. InviteExists(j)' => InviteExists(j)
          BY <5>1 DEF InviteExists
        <5>. QED BY <1>1, <4>3, <5>1, <5>2, SettledKept
      <4>. QED BY <1>1, <2>4, <3>3, <4>2, <4>3, InvitesKept
    <3>. QED BY <3>1, <3>2, <3>3, KeyParts
  <2>5. \A x \in Workspaces, v \in Users : IsMember(x, v)' <=> IsMember(x, v)
    BY <2>2 DEF IsMember
  <2>6. \A j \in Invites : KnownInvite(j) => invite'[j].user = invite[j].user
    BY <2>1, <2>2 DEF KnownInvite
  <2>. QED BY <1>1, <2>3, <2>4, <2>5, <2>6, NothingToKnow, WritePages
<1>. QED BY <1>0, <1>2, <1>3 DEF CreateInvite

\* accept changes an invite, a membership and a list, of one user each.
LEMMA AcceptTxPages ==
  ASSUME IInv, Staged, ReadsAlone, NEW r \in Requests, PagesInv, Acts(r), AcceptTx(r)
  PROVE  PagesInv'
<1>0. PICK w, u, i : w = req[r].ws /\ u = req[r].actor /\ i = req[r].inv
  OBVIOUS
<1>. DEFINE keys == {<<"invites", u>>, <<"list", u>>, <<"members", w>>}
<1>1. /\ UNCHANGED cache /\ req[r].pc = "acceptTx" /\ req[r].pc \notin DelPCs
      /\ req[r].pc \in WritePCs
  BY DEF AcceptTx, At, DelPCs, WritePCs
<1>2. CASE /\ \E a : Answer(r, a)
           /\ UNCHANGED <<ws, role, invite>>
  BY <1>1, <1>2, AnswerPages
<1>3. CASE /\ invite[i].status = "PENDING"
           /\ AcceptAndJoin(i, w, u) /\ PurgeThenOk(r, <<keys>>)
  <2>1. w \in Workspaces /\ u \in Users /\ i \in Invites /\ invite[i].user = u
    BY <1>0, <1>1, SlotFacts DEF HandlerOK, ListOps
  <2>2. /\ \A j \in Invites \ {i} : invite'[j] = invite[j]
        /\ invite'[i].user = u /\ invite'[i].status = "ACCEPTED" /\ ws' = ws
        /\ \A x \in Workspaces, v \in Users :
             x # w \/ v # u => role'[<<x, v>>] = role[<<x, v>>]
    BY <1>3, <2>1, IInvParts DEF AcceptAndJoin, DbInv, DbTypeOK
  <2>3. req'[r].pc = "purge" /\ \A k \in keys : Going(k)' /\ Held(k)'
    <3>. HIDE DEF keys
    <3>. QED BY <1>3, DuePurge
  <2>4. ASSUME NEW k \in Key, cache[k] # Nil, Right(k) PROVE Right(k)' \/ Held(k)'
    <3>1. CASE k \in keys
      BY <2>3, <3>1
    <3>2. CASE k[1] = "detail"
      BY <1>1, <2>2, <2>4, <3>2, DetailKept
    <3>3. CASE k[1] = "members" /\ k \notin keys
      <4>1. k[2] # w /\ k[2] \in Workspaces
        BY <3>3, KeyParts
      <4>. QED BY <1>1, <2>2, <2>4, <3>3, <4>1, MembersKept
    <3>4. CASE k[1] = "list" /\ k \notin keys
      <4>1. k[2] # u /\ k[2] \in Users
        BY <3>4, KeyParts
      <4>2. \A x \in Workspaces : IsMember(x, k[2])' <=> IsMember(x, k[2])
        BY <2>2, <4>1 DEF IsMember
      <4>. QED BY <1>1, <2>2, <2>4, <3>4, <4>2, ListKept
    <3>5. CASE k[1] = "invites" /\ k \notin keys
      <4>1. k[2] # u
        BY <3>5, KeyParts
      <4>2. ASSUME NEW j \in Invites
            PROVE  /\ KnownInvite(j) => KnownInvite(j)' /\ invite'[j].user = invite[j].user
                   /\ InviteExists(j)' => InviteExists(j)
                   /\ invite'[j].user = k[2] => invite'[j].status = invite[j].status
        BY <1>3, <2>1, <2>2, <4>1 DEF KnownInvite, InviteExists
      <4>3. \A j \in Invites : Settled(j)' => Settled(j)
        BY <1>1, <4>2, SettledKept
      <4>. QED BY <1>1, <2>4, <3>5, <4>2, <4>3, InvitesKept
    <3>. QED BY <3>1, <3>2, <3>3, <3>4, <3>5, KeyParts
  <2>5. \A x \in Workspaces, v \in Users :
          ~(IsMember(x, v)' <=> IsMember(x, v)) => Going(<<"list", v>>)'
    BY <2>2, <2>3 DEF IsMember
  <2>6. \A j \in Invites : invite'[j].user = invite[j].user
    BY <2>1, <2>2
  <2>. QED BY <1>1, <2>3, <2>4, <2>5, <2>6, NothingToKnow, WritePages
<1>. QED BY <1>0, <1>2, <1>3 DEF AcceptTx

\* A declined invite is not settled until it is read back.
LEMMA DeclineUpdatePages ==
  ASSUME IInv, Staged, ReadsAlone, NEW r \in Requests, PagesInv, Acts(r), DeclineUpdate(r)
  PROVE  PagesInv'
<1>0. PICK u, i : u = req[r].actor /\ i = req[r].inv
  OBVIOUS
<1>1. /\ UNCHANGED cache /\ req[r].pc = "declineUpdate" /\ req[r].pc \notin DelPCs
      /\ req[r].pc \in WritePCs
  BY DEF DeclineUpdate, At, DelPCs, WritePCs
<1>2. CASE Answer(r, "AlreadyActioned") /\ UNCHANGED <<ws, role, invite>>
  BY <1>1, <1>2, AnswerPages
<1>3. CASE /\ invite[i].status = "PENDING" /\ MarkDeclined(i) /\ Goto(r, "reloadInvite")
  <2>1. i \in Invites /\ invite[i].user = u
    BY <1>0, <1>1, SlotFacts DEF HandlerOK, PagesInv, Knows, Writing
  <2>2. /\ \A j \in Invites \ {i} : invite'[j] = invite[j]
        /\ invite'[i].user = u /\ invite'[i].status = "DECLINED"
        /\ ws' = ws /\ role' = role
    BY <1>3, <2>1, IInvParts DEF MarkDeclined, DbInv, DbTypeOK
  <2>3. req'[r].pc = "reloadInvite" /\ req'[r].actor = u /\ req'[r].inv = i
    BY <1>0, <1>3, GotoRecord
  <2>4. Knows(r)'
    BY <2>2, <2>3 DEF Knows, Reading, Filling, Writing, Collected
  <2>5. ASSUME NEW j \in Invites
        PROVE  /\ KnownInvite(j) => KnownInvite(j)' /\ invite'[j].user = invite[j].user
               /\ InviteExists(j)' => InviteExists(j)
               /\ Settled(j)' => Settled(j) /\ invite'[j].status = invite[j].status
    <3>1. /\ KnownInvite(j) => KnownInvite(j)' /\ invite'[j].user = invite[j].user
          /\ InviteExists(j)' => InviteExists(j)
      BY <1>3, <2>1, <2>2 DEF KnownInvite, InviteExists
    <3>2. i \in Reloading'
      BY <2>3 DEF Reloading
    <3>3. Settled(j)' => j # i
      BY <3>2 DEF Settled
    <3>. QED BY <1>1, <2>2, <3>1, <3>3, SettledKept
  <2>6. ASSUME NEW k \in Key, cache[k] # Nil, Right(k) PROVE Right(k)'
    <3>1. CASE k[1] \in {"detail", "members", "list"}
      BY <1>1, <2>2, <2>6, <3>1, DetailKept, MembersKept, ListKept DEF IsMember
    <3>2. CASE k[1] = "invites"
      BY <1>1, <2>5, <2>6, <3>2, InvitesKept
    <3>. QED BY <3>1, <3>2, KeyParts
  <2>7. \A x \in Workspaces, v \in Users : IsMember(x, v)' <=> IsMember(x, v)
    BY <2>2 DEF IsMember
  <2>. QED BY <1>1, <2>4, <2>5, <2>6, <2>7, WritePages
<1>. QED BY <1>0, <1>2, <1>3 DEF DeclineUpdate

-----------------------------------------------------------------------------
\* Every step of a handler keeps the pages.
LEMMA HandlePages ==
  ASSUME IInv, ~Faults, Staged, ReadsAlone, NEW r \in Requests, PagesInv, Acts(r), Handle(r)
  PROVE  PagesInv'
BY GetWorkspacePages, AssertOwnerPages, AssertMemberPages, ChecksPages,
   InsertWorkspacePages, UpdatePages, FindMemberIdsPages, DeletePages,
   RemoveMembershipPages, CreateInvitePages, FindInvitePages, AcceptTxPages,
   DeclineUpdatePages, ReloadInvitePages, DelKeyPages, PurgeAwaitedPages,
   PurgeDetailPages, CacheGetPages, RunQueryPages, CacheSetPages
DEF Handle

\* Every step of the system does.
LEMMA PagesStep ==
  ASSUME IInv, ~Faults, Staged, ReadsAlone, PagesInv, [Next]_vars PROVE PagesInv'
<1>1. ASSUME NEW r \in Requests, Send(r) \/ Handle(r) \/ Fail(r) PROVE PagesInv'
  BY <1>1, OneActs, SendPages, HandlePages DEF Fail
<1>2. ASSUME NEW k \in Key, Expire(k) PROVE PagesInv'
  <2>1. \A d \in Key : cache'[d] \in {Nil, cache[d]}
    BY <1>2, IInvParts DEF CacheOK, Expire
  <2>. QED BY <1>2, <2>1, IdlePages DEF Expire
<1>3. CASE UNCHANGED vars
  BY <1>3, IdlePages DEF vars
<1>. QED BY <1>1, <1>2, <1>3 DEF Next

(* With Redis up, and no read side by side with a write, every page is     *)
(* right or about to be deleted, in every state and however many writers   *)
(* overlap.                                                                *)
THEOREM PagesInvariance == ASSUME ~Faults PROVE Spec /\ []ReadsAlone => []PagesInv
<1>1. Init => Staged /\ PagesInv
  <2>. SUFFICES ASSUME Init PROVE Staged /\ PagesInv
    OBVIOUS
  <2>1. \A r \in Requests : req[r].op = "none" /\ req[r].pc = "replied"
    BY DEF Init, Free
  <2>2. PagesRight
    BY DEF Init, PagesRight
  <2>. QED
    BY <2>1, <2>2 DEF PagesInv, Knows, Reading, Filling, Writing, Collected, Staged, ReadOps,
       ListOps
<1>2. IInv /\ Staged /\ ReadsAlone /\ PagesInv /\ [Next]_vars => PagesInv'
  BY PagesStep
<1>. QED BY <1>1, <1>2, StagedStep, Invariance, PTL DEF Spec

\* Once nobody is served, nothing is due and no invite waits to be read back.
LEMMA QuietPages ==
  ASSUME Quiet, PagesInv, NEW k \in Key, cache[k] # Nil PROVE Right(k) /\ Reloading = {}
BY NothingDue DEF Quiet, IsFree, DelPCs, PagesInv, PagesRight, Held, Reloading

(* Writes that overlap, or follow one another, never leave an outdated     *)
(* page of workspaces or members behind (PagesCurrent): each deletes every *)
(* key it touches, also those that were cached for other users.            *)
THEOREM PagesAreCurrent == ASSUME ~Faults PROVE Spec /\ []ReadsAlone => []PagesCurrent
<1>1. PagesInv => PagesCurrent
  BY QuietPages DEF PagesCurrent, Stale, Right
<1>. QED BY <1>1, PagesInvariance, PTL

(* An invite that still exists is on its invitee's cached page with the    *)
(* status it has, although remove and update of a workspace leave these    *)
(* pages alone (InvitePagesCurrent).                                       *)
THEOREM InvitePagesAreCurrent ==
  ASSUME ~Faults PROVE Spec /\ []ReadsAlone => []InvitePagesCurrent
<1>1. PagesInv => InvitePagesCurrent
  <2>. SUFFICES ASSUME PagesInv, Quiet, NEW u \in Users, cache[<<"invites", u>>] # Nil
                PROVE  LET k == <<"invites", u>>
                           shown == {<<row[1], row[2]>> : row \in cache[k]}
                           true == {<<row[1], row[2]>> : row \in Query(k)}
                       IN  true \subseteq shown /\ \A s \in shown \ true : ~InviteExists(s[1])
    BY DEF InvitePagesCurrent
  <2>. DEFINE k == <<"invites", u>>
              shown == {<<row[1], row[2]>> : row \in cache[k]}
              true == {<<row[1], row[2]>> : row \in Query(k)}
  <2>1. k \in Key /\ k[1] = "invites" /\ k[2] = u
    BY DEF Key
  <2>2. AllShown(k) /\ ShownRight(k) /\ \A i : InviteExists(i) => Settled(i)
    BY <2>1, QuietPages DEF Right, Settled
  <2>3. Query(k) = {<<i, invite[i].status, ws[invite[i].ws].name>> : i \in
                      {j \in Invites : InviteExists(j) /\ invite[j].user = u}}
    BY <2>1 DEF Query
  <2>. HIDE DEF k
  <2>4. ASSUME NEW s \in true PROVE s \in shown
    <3>1. PICK row \in Query(k) : s = <<row[1], row[2]>>
      BY <2>4
    <3>2. PICK i \in Invites : /\ InviteExists(i) /\ invite[i].user = u
                               /\ row = <<i, invite[i].status, ws[invite[i].ws].name>>
      BY <2>3, <3>1
    <3>3. PICK x \in cache[k] : x[1] = i /\ x[2] = invite[i].status
      BY <2>1, <2>2, <3>2 DEF AllShown
    <3>. QED BY <3>1, <3>2, <3>3
  <2>5. ASSUME NEW s \in shown, InviteExists(s[1]) PROVE s \in true
    <3>1. PICK x \in cache[k] : s = <<x[1], x[2]>>
      BY <2>5
    <3>2. /\ x[1] \in Invites /\ InviteExists(x[1])
          /\ invite[x[1]].user = u /\ invite[x[1]].status = x[2]
      BY <2>1, <2>2, <2>5, <3>1 DEF ShownRight
    <3>. DEFINE i == x[1]
                row == <<i, invite[i].status, ws[invite[i].ws].name>>
    <3>3. row \in Query(k) /\ row[1] = x[1] /\ row[2] = x[2]
      BY <2>3, <3>2
    <3>. QED BY <3>1, <3>3
  <2>. QED BY <2>4, <2>5 DEF k
<1>. QED BY <1>1, PagesInvariance, PTL
=============================================================================
