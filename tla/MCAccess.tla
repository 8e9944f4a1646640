------------------------------ MODULE MCAccess ------------------------------
(* Access on small instances. *)
EXTENDS Access, TLC

\* The handlers that read or write the three tables.
WriteOps == {"createWorkspace", "removeWorkspace", "removeMember",
             "createInvite", "accept", "decline"}

\* The users, the ids and the names are interchangeable, and so are the request
\* slots (no liveness is checked with it).
Symmetry == Permutations(Requests) \cup Permutations(Invites)
              \cup Permutations(Users) \cup Permutations(Names)
=============================================================================
