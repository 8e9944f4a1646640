----------------------------- MODULE Membership -----------------------------
(***************************************************************************)
(* What the workspace endpoints promise about who is in a workspace,       *)
(* without requests, caches or invite rows: a workspace is founded by one  *)
(* user and keeps that owner, a second user enters only by taking up an    *)
(* offer made to them, which is used up in the same moment, and nothing of *)
(* a dissolved workspace is left.                                          *)
(*                                                                         *)
(* An offer to someone who is already a member is part of the contract:    *)
(* create() cannot rule it out (see README, "Findings").  It can only be   *)
(* turned down.                                                            *)
(***************************************************************************)
CONSTANTS Users, Workspaces

VARIABLES
  life,         \* unused, live or deleted, for each workspace
  role,         \* role of a user in a workspace, "none" outside it
  offers        \* pairs <<w, u>>: u may enter w

mvars == <<life, role, offers>>

Pairs == Workspaces \X Users

Init ==
  /\ life = [w \in Workspaces |-> "unused"]
  /\ role = [p \in Pairs |-> "none"]
  /\ offers = {}

Found(w, u) ==
  /\ life[w] = "unused"
  /\ life' = [life EXCEPT ![w] = "live"]
  /\ role' = [role EXCEPT ![<<w, u>>] = "OWNER"]
  /\ UNCHANGED offers

Offer(w, u) ==
  /\ life[w] = "live" /\ role[<<w, u>>] # "OWNER"
  /\ <<w, u>> \notin offers
  /\ offers' = offers \cup {<<w, u>>}
  /\ UNCHANGED <<life, role>>

Enter(w, u) ==
  /\ <<w, u>> \in offers /\ role[<<w, u>>] = "none"
  /\ role' = [role EXCEPT ![<<w, u>>] = "MEMBER"]
  /\ offers' = offers \ {<<w, u>>}
  /\ UNCHANGED life

TurnDown(w, u) ==
  /\ <<w, u>> \in offers
  /\ offers' = offers \ {<<w, u>>}
  /\ UNCHANGED <<life, role>>

Expel(w, u) ==
  /\ role[<<w, u>>] = "MEMBER"
  /\ role' = [role EXCEPT ![<<w, u>>] = "none"]
  /\ UNCHANGED <<life, offers>>

Dissolve(w) ==
  /\ life[w] = "live"
  /\ life' = [life EXCEPT ![w] = "deleted"]
  /\ role' = [p \in Pairs |-> IF p[1] = w THEN "none" ELSE role[p]]
  /\ offers' = {p \in offers : p[1] # w}

Next ==
  \E w \in Workspaces :
    \/ Dissolve(w)
    \/ \E u \in Users : \/ Found(w, u)
                        \/ Offer(w, u)
                        \/ Enter(w, u)
                        \/ TurnDown(w, u)
                        \/ Expel(w, u)

Spec == Init /\ [][Next]_mvars
=============================================================================
