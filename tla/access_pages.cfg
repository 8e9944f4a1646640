\* All handlers, one request after the other, with a user who is neither owner
\* nor invitee: who gets in, and do the pages in Redis stay right?
SPECIFICATION Spec
CONSTANTS
  Nil = Nil
  Users = {u1, u2, u3}
  Workspaces = {w1}
  Invites = {i1, i2}
  Names = {n1, n2}
  Requests = {r1}
  Ops <- AllOps
  Faults = FALSE
SYMMETRY Symmetry
INVARIANTS
  MembersWereInvited
  PagesCurrent
  InvitePagesCurrent
