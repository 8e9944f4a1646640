----------------------------- MODULE MCRealtime ------------------------------
(* Two workspaces with a project each.  A board may also be opened for a     *)
(* project under the other workspace's id.                                   *)
EXTENDS Realtime

CONSTANTS p1, p2, w1, w2

MCWorkspaceOf == [p \in {p1, p2} |-> IF p = p1 THEN w1 ELSE w2]
MCPaths == {[ws |-> w1, project |-> p1], [ws |-> w2, project |-> p2],
            [ws |-> w1, project |-> p2]}
=============================================================================
