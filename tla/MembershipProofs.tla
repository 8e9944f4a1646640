-------------------------- MODULE MembershipProofs --------------------------
(***************************************************************************)
(* What a step of Access may do to the tables, for every value of the      *)
(* constants: the two action properties, and that Access implements        *)
(* Membership.  Everything follows from one fact (TableStep): under the    *)
(* inductive invariant a step leaves the tables alone or is one statement  *)
(* of AccessDb whose precondition holds when it runs.                      *)
(***************************************************************************)
EXTENDS AccessProofs

Founds(w, u) ==
  ws[w].life = "unused" /\ \E n \in Names : CreateWithOwner(w, u, n)
Renames(w) == \E n \in Names : Rename(w, n)
Deletes(w) == WorkspaceExists(w) /\ DeleteCascade(w)
Removes(w, u) == IsMember(w, u) /\ u # ws[w].owner /\ DeleteMembership(w, u)
Asks(i, w, u) ==
  /\ invite[i].status = "unused" /\ WorkspaceExists(w) /\ PendingIndexAllows(w, u)
  /\ ~IsOwner(w, u) /\ InsertInvite(i, w, u)
Joins(i, w, u) ==
  /\ invite[i].status = "PENDING" /\ invite[i].ws = w /\ invite[i].user = u
  /\ ~IsMember(w, u) /\ AcceptAndJoin(i, w, u)
Declines(i) == invite[i].status = "PENDING" /\ MarkDeclined(i)

Statement ==
  \/ \E w \in Workspaces :
       \/ Renames(w) \/ Deletes(w)
       \/ \E u \in Users :
            \/ Founds(w, u) \/ Removes(w, u)
            \/ \E i \in Invites : Asks(i, w, u) \/ Joins(i, w, u)
  \/ \E i \in Invites : Declines(i)

\* A handler's step is one of the statements, or leaves the tables alone.
LEMMA HandlerStatement ==
  ASSUME IInv, NEW r \in Requests, Handle(r)
  PROVE  Statement \/ UNCHANGED <<ws, role, invite>>
<1>. DEFINE w == req[r].ws
            a == req[r].actor
<1>0. HandlerOK(req[r]) /\ OwnerChecked(req[r])
  BY SlotFacts
<1>1. CASE InsertWorkspace(r)
  <2>1. w \in Workspaces /\ a \in Users /\ ws[w].life = "unused"
    BY <1>0, <1>1 DEF InsertWorkspace, At, HandlerOK, ListOps
  <2>2. Founds(w, a)
    BY <1>1, <2>1 DEF InsertWorkspace, Founds
  <2>. QED BY <2>1, <2>2 DEF Statement
<1>2. CASE Update(r)
  <2>1. w \in Workspaces
    BY <1>0, <1>2 DEF Update, At, HandlerOK, ListOps
  <2>. QED BY <1>2, <2>1 DEF Update, Renames, Statement
<1>3. CASE Delete(r)
  <2>1. w \in Workspaces
    BY <1>0, <1>3 DEF Delete, At, HandlerOK, ListOps
  <2>. QED BY <1>3, <2>1 DEF Delete, Deletes, Statement
<1>4. CASE RemoveMembership(r)
  <2>1. w \in Workspaces /\ req[r].user \in Users /\ req[r].user # ws[w].owner
    BY <1>0, <1>4 DEF RemoveMembership, At, HandlerOK, ListOps, OwnerChecked
  <2>. QED BY <1>4, <2>1 DEF RemoveMembership, Removes, Statement
<1>5. CASE CreateInvite(r)
  <2>1. /\ w \in Workspaces /\ req[r].user \in Users \ {a} /\ req[r].inv \in Invites
        /\ invite[req[r].inv].status = "unused" /\ a \in Users
    BY <1>0, <1>5 DEF CreateInvite, At, HandlerOK, ListOps, Inserting, BeforeInsert
  <2>2. WorkspaceExists(w) => ~IsOwner(w, req[r].user)
    <3>1. WorkspaceExists(w) => IsOwner(w, a)
      BY <1>0, <1>5 DEF CreateInvite, At, OwnerChecked, OwnerWrites
    <3>. QED BY <2>1, <3>1, IInvParts DEF DbInv, OneOwner, IsOwner
  <2>. QED BY <1>5, <2>1, <2>2 DEF CreateInvite, Asks, Statement
<1>6. CASE AcceptTx(r)
  <2>1. /\ w \in Workspaces /\ a \in Users /\ req[r].inv \in Invites
        /\ invite[req[r].inv].ws = w /\ invite[req[r].inv].user = a
    BY <1>0, <1>6 DEF AcceptTx, At, HandlerOK, ListOps
  <2>. QED BY <1>6, <2>1 DEF AcceptTx, Joins, Statement
<1>7. CASE DeclineUpdate(r)
  <2>1. req[r].inv \in Invites
    BY <1>0, <1>7 DEF DeclineUpdate, At, HandlerOK
  <2>. QED BY <1>7, <2>1 DEF DeclineUpdate, Declines, Statement
<1>8. CASE UNCHANGED <<ws, role, invite>>
  BY <1>8
<1>. QED
  BY <1>1, <1>2, <1>3, <1>4, <1>5, <1>6, <1>7, <1>8
  DEF Handle, GetWorkspace, AssertOwner, AssertMember, AssertMemberOfCached,
      FindMemberIds, FindTarget, FindInvitee, FindPending, FindInvite, ReloadInvite,
      DelKey, PurgeAwaited, PurgeDetail, CacheGet, RunQuery, CacheSet

\* So is every step.
LEMMA TableStep ==
  ASSUME IInv, [Next]_vars
  PROVE  Statement \/ UNCHANGED <<ws, role, invite>>
<1>1. ASSUME NEW r \in Requests, Send(r) PROVE UNCHANGED <<ws, role, invite>>
  BY <1>1 DEF Send, Start, StartListWorkspaces, StartListInvites, StartCreateWorkspace,
     StartRenameWorkspace, StartRemoveWorkspace, StartFindOne, StartListMembers,
     StartRemoveMember, StartCreateInvite, StartAccept, StartDecline
<1>2. ASSUME NEW r \in Requests, Fail(r) PROVE UNCHANGED <<ws, role, invite>>
  BY <1>2 DEF Fail
<1>3. ASSUME NEW k \in Key, Expire(k) PROVE UNCHANGED <<ws, role, invite>>
  BY <1>3 DEF Expire
<1>. QED BY <1>1, <1>2, <1>3, HandlerStatement DEF Next, vars

-----------------------------------------------------------------------------
\* What each statement does to the rows one looks at.
LEMMA FoundsEffect ==
  ASSUME IInv, NEW w \in Workspaces, NEW u \in Users, Founds(w, u)
  PROVE  /\ ws[w].life = "unused" /\ invite' = invite
         /\ \A x \in Workspaces : x # w => ws'[x] = ws[x]
         /\ ws'[w].life = "live"
         /\ role' = [role EXCEPT ![<<w, u>>] = "OWNER"]
         /\ \A m \in Workspaces \X Users :
              role'[m] = role[m] \/ (m = <<w, u>> /\ role'[m] = "OWNER")
BY IInvParts DEF Founds, CreateWithOwner, DbInv, DbTypeOK

\* What a delete does to the rows: the workspace's own and no others.
LEMMA DeletesEffect ==
  ASSUME IInv, NEW w \in Workspaces, Deletes(w)
  PROVE  /\ \A x \in Workspaces : x # w => ws'[x].life = ws[x].life
         /\ ws[w].life = "live" /\ ws'[w].life = "deleted"
         /\ role' = [m \in Workspaces \X Users |-> IF m[1] = w THEN "none" ELSE role[m]]
         /\ \A m \in Workspaces \X Users : role'[m] \in {role[m], "none"}
         /\ \A i \in Invites :
              /\ invite[i].ws = w => invite'[i] = [invite[i] EXCEPT !.status = "deleted"]
              /\ invite[i].ws = w => invite'[i].status = "deleted"
              /\ invite[i].ws # w => invite'[i] = invite[i]
BY IInvParts DEF Deletes, DeleteCascade, WorkspaceExists, DbInv, DbTypeOK

\* What deleteMembership does to the rows.
LEMMA RemovesEffect ==
  ASSUME IInv, NEW w \in Workspaces, NEW u \in Users, Removes(w, u)
  PROVE  /\ ws' = ws /\ invite' = invite
         /\ role[<<w, u>>] = "MEMBER"
         /\ role' = [role EXCEPT ![<<w, u>>] = "none"]
         /\ \A m \in Workspaces \X Users : role'[m] \in {role[m], "none"}
BY IInvParts DEF Removes, DeleteMembership, IsMember, OneOwner, DbInv, DbTypeOK, Roles

\* What createInvite does to the rows.
LEMMA AsksEffect ==
  ASSUME IInv, NEW w \in Workspaces, NEW u \in Users, NEW i \in Invites, Asks(i, w, u)
  PROVE  /\ ws' = ws /\ role' = role
         /\ ws[w].life = "live" /\ role[<<w, u>>] # "OWNER"
         /\ \A j \in Invites :
              ~(invite[j].status = "PENDING" /\ invite[j].ws = w /\ invite[j].user = u)
         /\ invite[i].status = "unused"
         /\ invite'[i] = [ws |-> w, user |-> u, status |-> "PENDING"]
         /\ \A j \in Invites : j # i => invite'[j] = invite[j]
BY IInvParts DEF Asks, InsertInvite, PendingIndexAllows, PendingInvites, WorkspaceExists,
   IsOwner, DbInv, DbTypeOK

\* What the accept transaction does to the rows.
LEMMA JoinsEffect ==
  ASSUME IInv, NEW w \in Workspaces, NEW u \in Users, NEW i \in Invites, Joins(i, w, u)
  PROVE  /\ ws' = ws /\ role[<<w, u>>] = "none"
         /\ role' = [role EXCEPT ![<<w, u>>] = "MEMBER"]
         /\ role'[<<w, u>>] = "MEMBER"
         /\ \A m \in Workspaces \X Users : m # <<w, u>> => role'[m] = role[m]
         /\ invite[i].status = "PENDING" /\ invite[i].ws = w /\ invite[i].user = u
         /\ invite'[i].status = "ACCEPTED"
         /\ \A j \in Invites : j # i => invite'[j] = invite[j]
BY IInvParts DEF Joins, AcceptAndJoin, IsMember, DbInv, DbTypeOK

\* What decline does to the rows.
LEMMA DeclinesEffect ==
  ASSUME IInv, NEW i \in Invites, Declines(i)
  PROVE  /\ ws' = ws /\ role' = role
         /\ invite[i].status = "PENDING" /\ invite'[i].status = "DECLINED"
         /\ \A j \in Invites : j # i => invite'[j] = invite[j]
BY IInvParts DEF Declines, MarkDeclined, DbInv, DbTypeOK

\* What update does to the rows that Membership sees: nothing.
LEMMA RenamesEffect ==
  ASSUME IInv, NEW w \in Workspaces, Renames(w)
  PROVE  /\ role' = role /\ invite' = invite
         /\ \A x \in Workspaces : ws'[x].life = ws[x].life
BY IInvParts DEF Renames, Rename, DbInv, DbTypeOK

-----------------------------------------------------------------------------
\* Every step lets users in by accepting only.
LEMMA EntryStep ==
  ASSUME IInv, [Next]_vars PROVE EntryByAccepting
<1>. DEFINE NoEntry ==
       /\ \A i \in Invites : invite'[i].status = "ACCEPTED" => invite[i].status # "PENDING"
       /\ \A m \in Workspaces \X Users : role'[m] = "MEMBER" => role[m] = "MEMBER"
<1>0. NoEntry => EntryByAccepting
  BY DEF EntryByAccepting, AcceptedNow
<1>1. CASE UNCHANGED <<ws, role, invite>>
  BY <1>0, <1>1
<1>2. ASSUME NEW w \in Workspaces, Renames(w) PROVE NoEntry
  BY <1>2, RenamesEffect
<1>3. ASSUME NEW w \in Workspaces, Deletes(w) PROVE NoEntry
  BY <1>3, DeletesEffect
<1>4. ASSUME NEW w \in Workspaces, NEW u \in Users, Founds(w, u) PROVE NoEntry
  BY <1>4, FoundsEffect
<1>5. ASSUME NEW w \in Workspaces, NEW u \in Users, Removes(w, u) PROVE NoEntry
  BY <1>5, RemovesEffect
<1>6. ASSUME NEW w \in Workspaces, NEW u \in Users, NEW i \in Invites, Asks(i, w, u)
      PROVE  NoEntry
  BY <1>6, AsksEffect
<1>7. ASSUME NEW i \in Invites, Declines(i) PROVE NoEntry
  BY <1>7, DeclinesEffect
<1>8. ASSUME NEW w \in Workspaces, NEW u \in Users, NEW i \in Invites, Joins(i, w, u)
      PROVE  EntryByAccepting
  <2>1. /\ role[<<w, u>>] = "none" /\ role'[<<w, u>>] = "MEMBER"
        /\ \A m \in Workspaces \X Users : m # <<w, u>> => role'[m] = role[m]
        /\ invite[i].status = "PENDING" /\ invite[i].ws = w /\ invite[i].user = u
        /\ invite'[i].status = "ACCEPTED"
        /\ \A j \in Invites : j # i => invite'[j] = invite[j]
    BY <1>8, JoinsEffect
  <2>2. AcceptedNow(i) /\ \A j \in Invites : AcceptedNow(j) => j = i
    BY <2>1 DEF AcceptedNow
  <2>3. \A x \in Workspaces, v \in Users :
          role[<<x, v>>] # "MEMBER" /\ role'[<<x, v>>] = "MEMBER" => x = w /\ v = u
    BY <2>1
  <2>. QED BY <2>1, <2>2, <2>3 DEF EntryByAccepting
<1>. HIDE DEF NoEntry
<1>. QED
  BY <1>0, <1>1, <1>2, <1>3, <1>4, <1>5, <1>6, <1>7, <1>8, TableStep DEF Statement

\* Every step keeps the answered invites.
LEMMA AnswerKeptStep ==
  ASSUME IInv, [Next]_vars PROVE AnswersKept
<1>. SUFFICES ASSUME NEW j \in Invites, invite[j].status \in {"ACCEPTED", "DECLINED"}
              PROVE  invite'[j] \in {invite[j], [invite[j] EXCEPT !.status = "deleted"]}
  BY DEF AnswersKept
<1>1. CASE UNCHANGED <<ws, role, invite>>
  BY <1>1
<1>2. ASSUME NEW w \in Workspaces,
             \/ Renames(w)
             \/ \E u \in Users : Founds(w, u) \/ Removes(w, u)
      PROVE  invite'[j] = invite[j]
  BY <1>2, RenamesEffect, FoundsEffect, RemovesEffect
<1>3. ASSUME NEW w \in Workspaces, Deletes(w)
      PROVE  invite'[j] \in {invite[j], [invite[j] EXCEPT !.status = "deleted"]}
  BY <1>3, DeletesEffect
<1>4. ASSUME NEW w \in Workspaces, NEW u \in Users, NEW i \in Invites,
             Asks(i, w, u) \/ Joins(i, w, u)
      PROVE  invite'[j] = invite[j]
  BY <1>4, AsksEffect, JoinsEffect
<1>5. ASSUME NEW i \in Invites, Declines(i) PROVE invite'[j] = invite[j]
  BY <1>5, DeclinesEffect
<1>. QED
  BY <1>1, <1>2, <1>3, <1>4, <1>5, TableStep DEF Statement

(* The membership and the ACCEPTED status appear in one step, for every    *)
(* interleaving of accepts, declines, removals and deletions: nobody gets  *)
(* in without an invite, and no accepted invite is left without effect.    *)
THEOREM EntryIsByAccepting == Spec => AcceptIsEntry
<1>1. IInv /\ [Next]_vars => [EntryByAccepting]_vars
  BY EntryStep
<1>. QED BY <1>1, Invariance, PTL DEF Spec, AcceptIsEntry

(* What one answer to an invite settled, no other request changes.         *)
THEOREM AnswersAreFinal == Spec => AnswerIsFinal
<1>1. IInv /\ [Next]_vars => [AnswersKept]_vars
  BY AnswerKeptStep
<1>. QED BY <1>1, Invariance, PTL DEF Spec, AnswerIsFinal

-----------------------------------------------------------------------------
(* The refinement mapping.                                                 *)
LEMMA OffersDef ==
  /\ \A w, u : <<w, u>> \in Offers <=>
       \E i \in Invites : /\ invite[i].status = "PENDING"
                          /\ invite[i].ws = w /\ invite[i].user = u
  /\ \A p \in Offers : p = <<p[1], p[2]>>
BY DEF Offers

\* Life depends on the lives of the workspaces only.
LEMMA LifeSame ==
  ASSUME \A x \in Workspaces : ws'[x].life = ws[x].life PROVE Life' = Life
BY DEF Life

\* Offers depends on the invite rows only.
LEMMA OffersSame == ASSUME invite' = invite PROVE Offers' = Offers
BY DEF Offers

\* Offers after the step, by the invite rows after the step.
LEMMA OffersNext ==
  /\ \A w, u : <<w, u>> \in Offers' <=>
       \E i \in Invites : /\ invite'[i].status = "PENDING"
                          /\ invite'[i].ws = w /\ invite'[i].user = u
  /\ \A p \in Offers' : p = <<p[1], p[2]>>
BY DEF Offers

\* Two sets of pairs with the same pairs are the same set.
LEMMA SamePairs ==
  ASSUME NEW S, NEW T, \A p \in S \cup T : p = <<p[1], p[2]>>,
         \A w, u : <<w, u>> \in S <=> <<w, u>> \in T
  PROVE  S = T
<1>1. \A p : p \in S <=> p \in T
  OBVIOUS
<1>. QED BY <1>1

\* The invite that leaves PENDING takes the only offer to its user along.
LEMMA OfferTaken ==
  ASSUME IInv, NEW i \in Invites, invite[i].status = "PENDING",
         invite'[i].status # "PENDING",
         \A j \in Invites : j # i => invite'[j] = invite[j]
  PROVE  LET p == <<invite[i].ws, invite[i].user>> IN
         p \in Offers /\ Offers' = Offers \ {p}
<1>. DEFINE p == <<invite[i].ws, invite[i].user>>
<1>1. p \in Offers
  BY OffersDef
<1>2. \A j \in Invites : /\ j # i /\ invite[j].status = "PENDING"
        => <<invite[j].ws, invite[j].user>> # p
  BY IInvParts DEF DbInv, OnePendingInvite
<1>3. ASSUME NEW w, NEW u, <<w, u>> \in Offers' PROVE <<w, u>> \in Offers \ {p}
  <2>1. PICK j \in Invites : /\ invite'[j].status = "PENDING"
                             /\ invite'[j].ws = w /\ invite'[j].user = u
    BY <1>3, OffersNext
  <2>2. j # i /\ invite[j].status = "PENDING" /\ invite[j].ws = w /\ invite[j].user = u
    BY <2>1
  <2>. QED BY <1>2, <2>2, OffersDef
<1>4. ASSUME NEW w, NEW u, <<w, u>> \in Offers \ {p} PROVE <<w, u>> \in Offers'
  <2>1. PICK j \in Invites : /\ invite[j].status = "PENDING"
                             /\ invite[j].ws = w /\ invite[j].user = u
    BY <1>4, OffersDef
  <2>2. j # i
    BY <1>4, <2>1
  <2>. QED BY <2>1, <2>2, OffersNext
<1>5. Offers' = Offers \ {p}
  BY <1>3, <1>4, OffersDef, OffersNext, SamePairs
<1>. QED BY <1>1, <1>5

\* Every step is one of Membership's, or leaves its variables alone.
LEMMA MappedStep ==
  ASSUME IInv, [Next]_vars
  PROVE  [Promise!Next]_(Promise!mvars)
<1>1. CASE UNCHANGED <<ws, role, invite>>
  BY <1>1 DEF Promise!mvars, Life, Offers
<1>2. ASSUME NEW w \in Workspaces, Renames(w) PROVE UNCHANGED Promise!mvars
  BY <1>2, RenamesEffect, LifeSame, OffersSame DEF Promise!mvars
<1>3. ASSUME NEW w \in Workspaces, Deletes(w) PROVE Promise!Dissolve(w)
  <2>1. Life[w] = "live" /\ Life' = [Life EXCEPT ![w] = "deleted"]
    <3>1. /\ \A x \in Workspaces : x # w => ws'[x].life = ws[x].life
          /\ ws[w].life = "live" /\ ws'[w].life = "deleted"
      BY <1>3, DeletesEffect
    <3>. QED BY <3>1 DEF Life
  <2>2. \A x, u : <<x, u>> \in Offers' <=> <<x, u>> \in {p \in Offers : p[1] # w}
    <3>1. \A x, u : <<x, u>> \in {p \in Offers : p[1] # w} <=> <<x, u>> \in Offers /\ x # w
      OBVIOUS
    <3>2. \A j \in Invites :
            /\ invite[j].ws = w => invite'[j].status = "deleted"
            /\ invite[j].ws # w => invite'[j] = invite[j]
      BY <1>3, DeletesEffect
    <3>3. ASSUME NEW x, NEW u, <<x, u>> \in Offers' PROVE <<x, u>> \in Offers /\ x # w
      BY <3>2, <3>3, OffersDef, OffersNext
    <3>4. ASSUME NEW x, NEW u, <<x, u>> \in Offers, x # w PROVE <<x, u>> \in Offers'
      BY <3>2, <3>4, OffersDef, OffersNext
    <3>. QED BY <3>1, <3>3, <3>4
  <2>3. Offers' = {p \in Offers : p[1] # w}
    BY <2>2, OffersDef, OffersNext, SamePairs
  <2>. QED BY <1>3, <2>1, <2>3, DeletesEffect DEF Promise!Dissolve, Promise!Pairs
<1>4. ASSUME NEW w \in Workspaces, NEW u \in Users, Founds(w, u) PROVE Promise!Found(w, u)
  <2>1. Life[w] = "unused" /\ Life' = [Life EXCEPT ![w] = "live"]
    BY <1>4, FoundsEffect DEF Life
  <2>2. Offers' = Offers
    BY <1>4, FoundsEffect, OffersSame
  <2>. QED BY <1>4, <2>1, <2>2, FoundsEffect DEF Promise!Found
<1>5. ASSUME NEW w \in Workspaces, NEW u \in Users, Removes(w, u) PROVE Promise!Expel(w, u)
  BY <1>5, RemovesEffect, LifeSame, OffersSame DEF Promise!Expel
<1>6. ASSUME NEW w \in Workspaces, NEW u \in Users, NEW i \in Invites, Asks(i, w, u)
      PROVE  Promise!Offer(w, u)
  <2>0. /\ ws' = ws /\ role' = role
        /\ ws[w].life = "live" /\ role[<<w, u>>] # "OWNER"
        /\ \A j \in Invites :
             ~(invite[j].status = "PENDING" /\ invite[j].ws = w /\ invite[j].user = u)
        /\ invite[i].status = "unused"
        /\ invite'[i] = [ws |-> w, user |-> u, status |-> "PENDING"]
        /\ \A j \in Invites : j # i => invite'[j] = invite[j]
    BY <1>6, AsksEffect
  <2>1. Life[w] = "live" /\ Life' = Life
    BY <2>0 DEF Life
  <2>2. role[<<w, u>>] # "OWNER" /\ role' = role
    BY <2>0
  <2>3. <<w, u>> \notin Offers
    BY <2>0, OffersDef
  <2>4. \A x, v : <<x, v>> \in Offers' <=> <<x, v>> \in Offers \cup {<<w, u>>}
    <3>1. ASSUME NEW x, NEW v, <<x, v>> \in Offers'
          PROVE  <<x, v>> \in Offers \cup {<<w, u>>}
      <4>1. PICK j \in Invites : /\ invite'[j].status = "PENDING"
                                 /\ invite'[j].ws = x /\ invite'[j].user = v
        BY <3>1, OffersNext
      <4>2. CASE j = i
        BY <2>0, <4>1, <4>2
      <4>3. CASE j # i
        BY <2>0, <4>1, <4>3, OffersDef
      <4>. QED BY <4>2, <4>3
    <3>2. ASSUME NEW x, NEW v, <<x, v>> \in Offers PROVE <<x, v>> \in Offers'
      <4>1. PICK j \in Invites : /\ invite[j].status = "PENDING"
                                 /\ invite[j].ws = x /\ invite[j].user = v
        BY <3>2, OffersDef
      <4>2. j # i
        BY <2>0, <4>1
      <4>. QED BY <2>0, <4>1, <4>2, OffersNext
    <3>3. <<w, u>> \in Offers'
      BY <2>0, OffersNext
    <3>. QED BY <3>1, <3>2, <3>3
  <2>5. Offers' = Offers \cup {<<w, u>>}
    BY <2>4, OffersDef, OffersNext, SamePairs
  <2>. QED BY <2>1, <2>2, <2>3, <2>5 DEF Promise!Offer
<1>7. ASSUME NEW i \in Invites, Declines(i)
      PROVE  \E w \in Workspaces, u \in Users : Promise!TurnDown(w, u)
  <2>1. invite[i].ws \in Workspaces /\ invite[i].user \in Users
    BY <1>7, DeclinesEffect, IInvParts DEF DbInv, RowsOK, KnownInvite
  <2>2. /\ <<invite[i].ws, invite[i].user>> \in Offers
        /\ Offers' = Offers \ {<<invite[i].ws, invite[i].user>>}
    BY <1>7, DeclinesEffect, OfferTaken
  <2>3. Life' = Life /\ role' = role
    BY <1>7, DeclinesEffect, LifeSame
  <2>. QED BY <2>1, <2>2, <2>3 DEF Promise!TurnDown
<1>8. ASSUME NEW w \in Workspaces, NEW u \in Users, NEW i \in Invites, Joins(i, w, u)
      PROVE  Promise!Enter(w, u)
  <2>1. /\ ws' = ws /\ role[<<w, u>>] = "none"
        /\ role' = [role EXCEPT ![<<w, u>>] = "MEMBER"]
        /\ invite[i].status = "PENDING" /\ invite[i].ws = w /\ invite[i].user = u
        /\ invite'[i].status = "ACCEPTED"
        /\ \A j \in Invites : j # i => invite'[j] = invite[j]
    BY <1>8, JoinsEffect
  <2>2. <<w, u>> \in Offers /\ Offers' = Offers \ {<<w, u>>}
    BY <2>1, OfferTaken
  <2>3. Life' = Life
    BY <2>1, LifeSame
  <2>. QED BY <2>1, <2>2, <2>3 DEF Promise!Enter
<1>. QED
  BY <1>1, <1>2, <1>3, <1>4, <1>5, <1>6, <1>7, <1>8, TableStep
  DEF Statement, Promise!Next

\* The empty database is Membership's initial state.
LEMMA MappedInit == Init => Promise!Init
<1>. SUFFICES ASSUME Init PROVE Promise!Init
  OBVIOUS
<1>1. Life = [w \in Workspaces |-> "unused"]
  BY DEF Init, DbInit, Life
<1>2. Offers = {}
  BY DEF Init, DbInit, Offers
<1>. QED BY <1>1, <1>2 DEF Init, DbInit, Promise!Init, Promise!Pairs

(* However the handlers of InvitesService and WorkspacesService overlap or *)
(* fail, the tables only ever go through the steps of Membership.          *)
THEOREM HandlersImplementMembership == Spec => ImplementsMembership
<1>1. IInv /\ [Next]_vars => [Promise!Next]_(Promise!mvars)
  BY MappedStep
<1>. QED
  BY <1>1, MappedInit, Invariance, PTL DEF Spec, ImplementsMembership, Promise!Spec
=============================================================================
