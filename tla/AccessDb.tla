------------------------------ MODULE AccessDb ------------------------------
(***************************************************************************)
(* The three tables that decide who may enter a workspace - Workspace,     *)
(* WorkspaceMember and WorkspaceInvite of backend/prisma/schema.prisma -   *)
(* and the statements the repositories send to them.  Every operator below *)
(* is one statement or one Prisma transaction, so it is atomic here as it  *)
(* is in PostgreSQL: the uniqueness constraints, the foreign keys and the  *)
(* cascades are part of the statement that meets them.                     *)
(*                                                                         *)
(* Row ids are UUIDs: a deleted row keeps its id, which is never reused.   *)
(***************************************************************************)
EXTENDS FiniteSets

CONSTANTS
  Users,        \* registered accounts
  Workspaces,   \* ids a Workspace row can take
  Invites,      \* ids a WorkspaceInvite row can take
  Names,        \* names a workspace can be given
  Nil           \* the null of the source

ASSUME NilAssumption == Nil \notin Users \cup Workspaces \cup Invites \cup Names

VARIABLES
  ws,           \* Workspace: life of the row, ownerId and name
  role,         \* WorkspaceMember: role of a user in a workspace
  invite        \* WorkspaceInvite: workspaceId, invitedUserId and status

db == <<ws, role, invite>>

-----------------------------------------------------------------------------
Roles == {"none", "MEMBER", "OWNER"}
Statuses == {"unused", "PENDING", "ACCEPTED", "DECLINED", "deleted"}

DbTypeOK ==
  /\ ws \in [Workspaces -> [life  : {"unused", "live", "deleted"},
                            owner : Users \cup {Nil},
                            name  : Names \cup {Nil}]]
  /\ role \in [Workspaces \X Users -> Roles]
  /\ invite \in [Invites -> [ws     : Workspaces \cup {Nil},
                             user   : Users \cup {Nil},
                             status : Statuses]]

DbInit ==
  /\ ws = [w \in Workspaces |-> [life |-> "unused", owner |-> Nil, name |-> Nil]]
  /\ role = [m \in Workspaces \X Users |-> "none"]
  /\ invite = [i \in Invites |->
                 [ws |-> Nil, user |-> Nil, status |-> "unused"]]

-----------------------------------------------------------------------------
\* Reads: findById / findWorkspaceById, findMembership, findPendingInvite,
\* findMemberUserIds, invites findById.
WorkspaceExists(w) == ws[w].life = "live"
IsMember(w, u) == role[<<w, u>>] # "none"
IsOwner(w, u) == role[<<w, u>>] = "OWNER"
MembersOf(w) == {u \in Users : IsMember(w, u)}
PendingInvites(w, u) ==
  {i \in Invites : invite[i] = [ws |-> w, user |-> u, status |-> "PENDING"]}
InviteExists(i) == invite[i].status \in {"PENDING", "ACCEPTED", "DECLINED"}

\* WorkspacesRepository.createWithOwner: the workspace and its owner's
\* membership, in one transaction.
CreateWithOwner(w, u, name) ==
  /\ ws' = [ws EXCEPT ![w] = [life |-> "live", owner |-> u, name |-> name]]
  /\ role' = [role EXCEPT ![<<w, u>>] = "OWNER"]
  /\ UNCHANGED invite

\* WorkspacesRepository.update on an existing row.
Rename(w, name) ==
  /\ ws' = [ws EXCEPT ![w].name = name]
  /\ UNCHANGED <<role, invite>>

\* Mutant: the invites relation lacks onDelete Cascade.
DeleteKeepingInvites(w) ==
  /\ ws' = [ws EXCEPT ![w].life = "deleted"]
  /\ role' = [m \in Workspaces \X Users |-> IF m[1] = w THEN "none" ELSE role[m]]
  /\ UNCHANGED invite

\* WorkspacesRepository.delete: members and invites go with it (onDelete
\* Cascade).
DeleteCascade(w) ==
  /\ ws' = [ws EXCEPT ![w].life = "deleted"]
  /\ role' = [m \in Workspaces \X Users |-> IF m[1] = w THEN "none" ELSE role[m]]
  /\ invite' = [i \in Invites |->
                  IF invite[i].ws = w
                    THEN [invite[i] EXCEPT !.status = "deleted"]
                    ELSE invite[i]]

\* WorkspacesRepository.deleteMembership.
DeleteMembership(w, u) ==
  /\ role' = [role EXCEPT ![<<w, u>>] = "none"]
  /\ UNCHANGED <<ws, invite>>

\* Mutant: the migration that adds the index never ran.
NoPartialIndex(w, u) == TRUE

\* The partial unique index lets a second PENDING row for (w, u) through only
\* if there is none yet.
PendingIndexAllows(w, u) == PendingInvites(w, u) = {}

\* InvitesRepository.createInvite, once the foreign key and the index allow it.
InsertInvite(i, w, u) ==
  /\ invite' = [invite EXCEPT ![i] =
                  [ws |-> w, user |-> u, status |-> "PENDING"]]
  /\ UNCHANGED <<ws, role>>

\* InvitesRepository.accept, the committed transaction: the conditional update
\* matched the row and the membership could be inserted.
AcceptAndJoin(i, w, u) ==
  /\ invite' = [invite EXCEPT ![i].status = "ACCEPTED"]
  /\ role' = [role EXCEPT ![<<w, u>>] = "MEMBER"]
  /\ UNCHANGED ws

\* InvitesRepository.decline: the conditional update matched the row.
MarkDeclined(i) ==
  /\ invite' = [invite EXCEPT ![i].status = "DECLINED"]
  /\ UNCHANGED <<ws, role>>
=============================================================================
