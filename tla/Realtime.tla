------------------------------ MODULE Realtime -------------------------------
(***************************************************************************)
(* How a tab comes to hear of a project's changes: RealtimeGateway on the  *)
(* server, the one socket of the tab (socketClient, kept open by           *)
(* RealtimeConnectionManager) and useProjectRealtime, which joins the room *)
(* of the project whose board is mounted.  Socket.IO keeps the order of    *)
(* the messages of a connection, drops them and the pending acks with it,  *)
(* and reconnects by itself unless one of the two sides hung up.           *)
(*                                                                         *)
(* A board and a message name a workspace and a project side by side, as   *)
(* the page's address does; whether the two belong together is for the     *)
(* server to say.                                                          *)
(***************************************************************************)
EXTENDS Naturals, Sequences

CONSTANTS
  Projects, Workspaces, Nil,
  WorkspaceOf,  \* the workspace each project belongs to
  Paths,        \* what a board may be opened for: a workspace and a project
  MaxEvents     \* bound: what users and the network do to the tab in all

\* A mounted board is told from none.
ASSUME NilAssumption == Nil \notin Paths

\* Ids tell what they are ids of.
ASSUME IdAssumption == Projects \cap Workspaces = {}

ASSUME WorkspaceAssumption == WorkspaceOf \in [Projects -> Workspaces]
ASSUME PathAssumption == Paths \subseteq [ws : Workspaces, project : Projects]

ASSUME BoundAssumption == MaxEvents \in Nat

VARIABLES
  sock,         \* the socket: off, connecting, connected
  signedIn,     \* isAuthenticated, as the connection manager last saw it
  token,        \* what the access token in localStorage is worth: none, good, bad
  board,        \* the path of the board that is mounted, or Nil
  attempt,      \* attemptIdRef: the last join attempt, 0 before the first
  timer,        \* the attempt whose timeout is armed, 0 for none
  error,        \* joinError: none, notConnected, timeout, refused
  up,           \* messages of this connection on their way to the server
  acks,         \* acks on their way back
  auth,         \* the connection on the server: none, pending, user
  held,         \* what the token it was opened with is worth
  joins,        \* its handleJoin calls in progress
  rooms,        \* its rooms
  live,         \* projects and workspaces that exist
  member,       \* per workspace, whether the user never was, is or was a member
  events        \* how much of the bound is used up

client == <<sock, signedIn, board, attempt, timer, error>>
connection == <<up, acks, auth, joins, rooms>>
world == <<token, held, live, member>>
vars == <<client, connection, world, events>>

\* Mutant: the server forgets the rooms of a connection but not its user.
HangupKeepingUser ==
  up' = <<>> /\ acks' = {} /\ joins' = {} /\ rooms' = {} /\ UNCHANGED auth

\* Everything the server and the wire hold of a connection goes with it.
Hangup == up' = <<>> /\ acks' = {} /\ auth' = "none" /\ joins' = {} /\ rooms' = {}

Event == events < MaxEvents /\ events' = events + 1

-----------------------------------------------------------------------------
(* useProjectRealtime.                                                     *)

\* Mutant: the attempts are not told apart.
SameAttempt(a) == attempt

\* The attempt an ack or a timeout belongs to.
AttemptOf(a) == a

\* attemptJoin for path b on a connected socket: a new attempt, its timeout
\* armed, the message on its way.
EmitJoin(b, queue) ==
  /\ attempt' = attempt + 1
  /\ timer' = attempt'
  /\ error' = "none"
  /\ up' = Append(queue, [kind |-> "join", path |-> b, attempt |-> attempt'])

\* The effect of a board that mounts.  Off line it only waits for 'connect',
\* and a board that has only changed its project still shows its old error.
Mount(b) ==
  /\ Event /\ board = Nil /\ signedIn
  /\ board' = b
  /\ IF sock = "connected" THEN EmitJoin(b, up)
     ELSE error' \in {"none", error} /\ UNCHANGED <<attempt, timer, up>>
  /\ UNCHANGED <<sock, signedIn, acks, auth, joins, rooms, world>>

\* Its cleanup: what is in flight no longer counts, the room is left.
Cleanup ==
  /\ board' = Nil
  /\ attempt' = attempt + 1 /\ timer' = 0 /\ UNCHANGED error
  /\ up' = IF sock = "connected"
             THEN Append(up, [kind |-> "leave", path |-> board, attempt |-> 0])
             ELSE up

Unmount ==
  /\ Event /\ board # Nil
  /\ Cleanup
  /\ UNCHANGED <<sock, signedIn, acks, auth, joins, rooms, world>>

\* The retry of the banner.
RetryJoin ==
  /\ Event /\ board # Nil /\ error # "none"
  /\ IF sock = "connected" THEN EmitJoin(board, up)
     ELSE error' = "notConnected" /\ UNCHANGED <<attempt, timer, up>>
  /\ UNCHANGED <<sock, signedIn, board, acks, auth, joins, rooms, world>>

TimerFires ==
  /\ timer # 0
  /\ timer' = 0
  /\ error' = IF AttemptOf(timer) = attempt THEN "timeout" ELSE error
  /\ UNCHANGED <<sock, signedIn, board, attempt, connection, world, events>>

AckArrives ==
  /\ \E a \in acks :
       /\ acks' = acks \ {a}
       /\ IF AttemptOf(a.attempt) = attempt
            THEN /\ timer' = 0
                 /\ error' = IF a.ok THEN "none" ELSE "refused"
            ELSE UNCHANGED <<timer, error>>
  /\ UNCHANGED <<sock, signedIn, board, attempt, up, auth, joins, rooms, world, events>>

-----------------------------------------------------------------------------
(* The socket.                                                             *)

\* RealtimeConnectionManager: connectSocket, or disconnectSocket, which does
\* nothing to a socket that is still connecting.
SignIn ==
  /\ Event /\ ~signedIn
  /\ signedIn' = TRUE /\ token' = "good"
  /\ sock' = IF sock = "connected" THEN sock ELSE "connecting"
  /\ UNCHANGED <<board, attempt, timer, error, connection, held, live, member>>

\* The page goes away with the session.
SignOut ==
  /\ Event /\ signedIn /\ board = Nil
  /\ signedIn' = FALSE /\ token' = "none"
  /\ IF sock = "connected" THEN sock' = "off" /\ Hangup
                           ELSE UNCHANGED <<sock, connection>>
  /\ UNCHANGED <<board, attempt, timer, error, held, live, member>>

\* Mutant: the board does not listen to 'connect'.
ConnectSilently ==
  /\ sock = "connecting"
  /\ sock' = "connected" /\ auth' = "pending" /\ held' = token
  /\ acks' = {} /\ joins' = {} /\ rooms' = {} /\ up' = <<>>
  /\ UNCHANGED <<signedIn, board, attempt, timer, error, token, live, member, events>>

\* The handshake carries the token of this moment.  handleConnection starts to
\* verify it, the client fires 'connect', and a mounted board joins again:
\* rooms do not survive.
Connect ==
  /\ sock = "connecting"
  /\ sock' = "connected" /\ auth' = "pending" /\ held' = token
  /\ acks' = {} /\ joins' = {} /\ rooms' = {}
  /\ IF board # Nil THEN EmitJoin(board, <<>>)
     ELSE up' = <<>> /\ UNCHANGED <<attempt, timer, error>>
  /\ UNCHANGED <<signedIn, board, token, live, member, events>>

\* The network breaks or the server restarts: Socket.IO will reconnect.
Drop ==
  /\ Event /\ sock = "connected"
  /\ sock' = "connecting" /\ Hangup
  /\ UNCHANGED <<signedIn, board, attempt, timer, error, world>>

\* client.disconnect(true): after that the socket does not reconnect.
ServerHangsUp == sock' = "off" /\ Hangup

-----------------------------------------------------------------------------
(* RealtimeGateway.                                                        *)

\* authenticate: no token and a bad one end alike.
Authenticate ==
  /\ auth = "pending"
  /\ \/ held = "good" /\ auth' = "user" /\ UNCHANGED <<sock, up, acks, joins, rooms>>
     \/ held # "good" /\ ServerHangsUp
  /\ UNCHANGED <<signedIn, board, attempt, timer, error, world, events>>

\* The user cannot be read: verifyAccessToken takes that for a bad token.
AuthenticateFails ==
  /\ Event /\ auth = "pending" /\ held = "good"
  /\ ServerHangsUp
  /\ UNCHANGED <<signedIn, board, attempt, timer, error, world>>

\* The next message is handed to its handler.  leave acts at once, join runs
\* through four awaits: later messages overtake it.
Receive ==
  /\ up # <<>>
  /\ up' = Tail(up)
  /\ LET m == Head(up) IN
       IF m.kind = "leave"
         THEN rooms' = rooms \ {m.path.project} /\ UNCHANGED joins
         ELSE /\ joins' = joins \cup
                   {[path |-> m.path, attempt |-> m.attempt, pc |-> "auth"]}
              /\ UNCHANGED rooms
  /\ UNCHANGED <<client, acks, auth, world, events>>

Goto(j, pc) == joins' = (joins \ {j}) \cup {[j EXCEPT !.pc = pc]}
Ack(j, ok) == /\ joins' = joins \ {j}
              /\ acks' = acks \cup {[attempt |-> j.attempt, ok |-> ok]}

\* Mutant: the handler does not await authPromise.
JoinWithoutWaiting(j) ==
  /\ j.pc = "auth"
  /\ \/ auth = "user" /\ Goto(j, "workspace") /\ UNCHANGED <<sock, up, acks, auth, rooms>>
     \/ auth # "user" /\ ServerHangsUp
  /\ UNCHANGED <<signedIn, board, attempt, timer, error, world, events>>

\* await authPromise: once it resolved there is a user, or no connection.
JoinAwaitsAuth(j) ==
  /\ j.pc = "auth" /\ auth = "user"
  /\ Goto(j, "workspace")
  /\ UNCHANGED <<client, up, acks, auth, rooms, world, events>>

JoinFindsWorkspace(j) ==
  /\ j.pc = "workspace"
  /\ IF j.path.ws \in live THEN Goto(j, "project") /\ UNCHANGED acks ELSE Ack(j, FALSE)
  /\ UNCHANGED <<client, up, auth, rooms, world, events>>

\* Mutant: a project of any workspace will do.
JoinFindsAnyProject(j) ==
  /\ j.pc = "project"
  /\ IF j.path.project \in live
       THEN Goto(j, "membership") /\ UNCHANGED acks
       ELSE Ack(j, FALSE)
  /\ UNCHANGED <<client, up, auth, rooms, world, events>>

JoinFindsProject(j) ==
  /\ j.pc = "project"
  /\ IF j.path.project \in live /\ WorkspaceOf[j.path.project] = j.path.ws
       THEN Goto(j, "membership") /\ UNCHANGED acks
       ELSE Ack(j, FALSE)
  /\ UNCHANGED <<client, up, auth, rooms, world, events>>

JoinFindsMembership(j) ==
  /\ j.pc = "membership"
  /\ IF member[j.path.ws] = "member"
       THEN Ack(j, TRUE) /\ rooms' = rooms \cup {j.path.project}
       ELSE Ack(j, FALSE) /\ UNCHANGED rooms
  /\ UNCHANGED <<client, up, auth, world, events>>

\* One of the queries throws: caught, and answered like a refusal.
JoinFails(j) ==
  /\ Event /\ j.pc # "auth"
  /\ Ack(j, FALSE)
  /\ UNCHANGED <<client, up, auth, rooms, world>>

JoinStep(j) == \/ JoinAwaitsAuth(j) \/ JoinFindsWorkspace(j)
               \/ JoinFindsProject(j) \/ JoinFindsMembership(j)

-----------------------------------------------------------------------------
(* The rest of the system: the access token expires and is refreshed,      *)
(* members come and go, projects and workspaces are deleted.  Nothing of   *)
(* it reaches a socket that is already in a room.                          *)

\* A membership that ends.
Ended(m) == IF m = "member" THEN "removed" ELSE m

\* A connection's token is never newer than the stored one.
TokenExpires ==
  /\ token = "good" /\ token' = "bad"
  /\ held' = IF held = "good" THEN "bad" ELSE held
  /\ UNCHANGED <<live, member>>

TokenRefreshed ==
  /\ token = "bad" /\ token' = "good"
  /\ UNCHANGED <<held, live, member>>

ProjectGoes(p) ==
  /\ p \in live /\ live' = live \ {p}
  /\ UNCHANGED <<token, held, member>>

\* Its projects and memberships go with it.
WorkspaceGoes(w) ==
  /\ w \in live
  /\ live' = live \ ({w} \cup {p \in Projects : WorkspaceOf[p] = w})
  /\ member' = [member EXCEPT ![w] = Ended(@)]
  /\ UNCHANGED <<token, held>>

MemberComesOrGoes(w) ==
  /\ w \in live
  /\ member' = [member EXCEPT ![w] = IF @ = "member" THEN Ended(@) ELSE "member"]
  /\ UNCHANGED <<token, held, live>>

World ==
  /\ Event
  /\ \/ TokenExpires \/ TokenRefreshed
     \/ \E p \in Projects : ProjectGoes(p)
     \/ \E w \in Workspaces : WorkspaceGoes(w) \/ MemberComesOrGoes(w)
  /\ UNCHANGED <<client, connection>>

Init ==
  /\ sock = "connecting" /\ signedIn = TRUE /\ token = "good"
  /\ board = Nil /\ attempt = 0 /\ timer = 0 /\ error = "none"
  /\ up = <<>> /\ acks = {} /\ auth = "none" /\ joins = {} /\ rooms = {}
  /\ held = "none"
  /\ live = Projects \cup Workspaces /\ member \in [Workspaces -> {"never", "member"}]
  /\ events = 0

\* The tab is left alone: nothing is under way.
Rest == /\ sock # "connecting" /\ timer = 0 /\ up = <<>> /\ acks = {} /\ joins = {}
        /\ auth # "pending"
        /\ UNCHANGED vars

System == \/ TimerFires \/ AckArrives \/ Connect \/ Authenticate \/ Receive
          \/ \E j \in joins : JoinStep(j)

Next == \/ System
        \/ \E b \in Paths : Mount(b)
        \/ Unmount \/ RetryJoin \/ SignIn \/ SignOut \/ Drop \/ AuthenticateFails \/ World
        \/ \E j \in joins : JoinFails(j)
        \/ Rest

\* The server answers, the wire delivers and an armed timeout fires.
Fairness == /\ WF_vars(TimerFires) /\ WF_vars(AckArrives) /\ WF_vars(Connect)
            /\ WF_vars(Authenticate) /\ WF_vars(Receive)
            /\ WF_vars(\E j \in joins : JoinStep(j))

Spec == Init /\ [][Next]_vars /\ Fairness

-----------------------------------------------------------------------------
(* Properties.                                                             *)

Attempts == 0..(2 * MaxEvents + 1)

TypeOK ==
  /\ sock \in {"off", "connecting", "connected"}
  /\ signedIn \in BOOLEAN
  /\ token \in {"none", "good", "bad"} /\ held \in {"none", "good", "bad"}
  /\ board \in Paths \cup {Nil}
  /\ attempt \in Attempts /\ timer \in Attempts
  /\ error \in {"none", "notConnected", "timeout", "refused"}
  /\ \A i \in DOMAIN up : up[i] \in [kind : {"join", "leave"}, path : Paths,
                                     attempt : Attempts]
  /\ acks \subseteq [attempt : Attempts, ok : BOOLEAN]
  /\ auth \in {"none", "pending", "user"}
  /\ auth = "none" <=> sock # "connected"
  /\ joins \subseteq [path : Paths, attempt : Attempts,
                      pc : {"auth", "workspace", "project", "membership"}]
  /\ rooms \subseteq Projects
  /\ live \subseteq Projects \cup Workspaces
  /\ member \in [Workspaces -> {"never", "member", "removed"}]
  /\ events \in 0..MaxEvents

\* A mounted board that is on line, waits for no ack and shows no error is in
\* its room: an ack of an attempt the board has moved on from (another
\* project, another connection) never counts as this one's.
ConfirmedMeansInRoom ==
  board # Nil /\ sock = "connected" /\ timer = 0 /\ error = "none" => board.project \in rooms

\* Only a verified user who is or was a member of the workspace a project
\* belongs to is in its room, whatever workspace the join had named beside it.
\* (One who was removed since may still be: membership is checked at join.)
OutsidersHearNothing ==
  \A p \in rooms : auth = "user" /\ member[WorkspaceOf[p]] # "never"

\* A mounted board on line does not wait in silence: it gets into its room or
\* says that it could not, unless it is closed or the connection goes first.
JoinedOrTold ==
  \A b \in Paths :
    board = b /\ sock = "connected"
      ~> b.project \in rooms \/ error # "none" \/ board # b \/ sock # "connected"

\* The server ends the connection of a signed-in tab only as the outcome of its
\* handshake, with a token that is missing or has expired or a user that could
\* not be read: never for a join, however early it comes, and never later.
VerifiedStayConnected ==
  [][sock = "connected" /\ sock' = "off" /\ signedIn' =>
       auth = "pending" /\ (held = "good" => AuthenticateFails)]_vars
=============================================================================
