---------------------------- MODULE RealtimeProofs ----------------------------
(***************************************************************************)
(* Theorems about Realtime for any projects and workspaces and any bound:  *)
(* what the board says of its connection is true, only members hear        *)
(* anything, and the server ends a connection only over its handshake.     *)
(*                                                                         *)
(* ConfirmedMeansInRoom rests on the order of the messages: the join of    *)
(* the current attempt is always the last message of the connection, so    *)
(* once the server has received it no leave can be behind it.              *)
(***************************************************************************)
EXTENDS Realtime, SequenceTheorems, TLAPS

Messages == [kind : {"join", "leave"}, path : Paths, attempt : Nat]
JoinCalls == [path : Paths, attempt : Nat,
              pc : {"auth", "workspace", "project", "membership"}]
Acks == [attempt : Nat, ok : BOOLEAN]

\* The types the argument needs; attempts are not bounded by MaxEvents here.
Types ==
  /\ board \in Paths \cup {Nil}
  /\ attempt \in Nat /\ timer \in Nat
  /\ up \in Seq(Messages)
  /\ joins \subseteq JoinCalls
  /\ acks \subseteq Acks
  /\ rooms \subseteq Projects
  /\ member \in [Workspaces -> {"never", "member", "removed"}]

\* A join on its way is an old attempt's, or that of the mounted board, and
\* then nothing was sent after it.
SentLast ==
  \A i \in DOMAIN up : up[i].kind = "join" =>
    \/ up[i].attempt < attempt
    \/ /\ up[i].attempt = attempt /\ board # Nil
       /\ up[i].path = board /\ i = Len(up)

\* So when the server works on it nothing else is on its way,
ReceivedLast ==
  \A j \in joins :
    \/ j.attempt < attempt
    \/ j.attempt = attempt /\ board # Nil /\ j.path = board /\ up = <<>>

\* and when it is confirmed, the board is in its room.
AckedInRoom ==
  \A a \in acks :
    \/ a.attempt < attempt
    \/ /\ a.attempt = attempt /\ board # Nil
       /\ a.ok => board.project \in rooms /\ up = <<>>

\* The timeout that is armed is that of the current attempt.
TimerIsCurrent == timer \in {0, attempt} /\ (board = Nil => timer = 0)

\* ConfirmedMeansInRoom, and that no leave threatens it.
Confirmed ==
  board # Nil /\ sock = "connected" /\ timer = 0 /\ error = "none" =>
    board.project \in rooms /\ up = <<>>

\* handleJoin is past its first await only for a verified user, and looks for a
\* membership only in the workspace of the project.
JoinsVerified ==
  \A j \in joins :
    /\ j.pc # "auth" => auth = "user"
    /\ j.pc = "membership" => WorkspaceOf[j.path.project] = j.path.ws

IInv == /\ Types /\ SentLast /\ ReceivedLast /\ AckedInRoom
        /\ TimerIsCurrent /\ Confirmed
        /\ JoinsVerified /\ OutsidersHearNothing

-----------------------------------------------------------------------------
\* The invariant holds before anything has happened.
LEMMA InitInv == Init => IInv
  BY NilAssumption
  DEF Init, IInv, Types, SentLast, ReceivedLast, AckedInRoom, TimerIsCurrent, Confirmed,
      JoinsVerified, OutsidersHearNothing, Messages, JoinCalls, Acks

\* A connection that ends takes everything with it that could break the
\* invariant.
LEMMA HangupInv ==
  ASSUME IInv, Hangup, sock' # "connected", UNCHANGED <<board, attempt, timer, member>>
  PROVE  IInv'
  BY DEF IInv, Hangup, Types, SentLast, ReceivedLast, AckedInRoom, TimerIsCurrent, Confirmed,
         JoinsVerified, OutsidersHearNothing

\* EmitJoin by the board that is mounted, on a queue of older messages.
LEMMA EmitInv ==
  ASSUME IInv, NEW p \in Paths, NEW queue \in Seq(Messages),
         \A i \in DOMAIN queue : queue[i].kind = "join" => queue[i].attempt <= attempt,
         EmitJoin(p, queue), board' = p,
         joins' \subseteq joins, acks' \subseteq acks, rooms' \subseteq rooms,
         joins' # {} => auth' = auth, rooms' # {} => auth' = auth,
         member' = member
  PROVE  IInv'
<1> DEFINE m == [kind |-> "join", path |-> p, attempt |-> attempt + 1]
<1>1. attempt' = attempt + 1 /\ timer' = attempt + 1 /\ up' = Append(queue, m)
  BY DEF EmitJoin
<1>2. attempt \in Nat /\ m \in Messages
  BY DEF IInv, Types, Messages
<1>3. Types'
  BY <1>1, <1>2 DEF IInv, Types
<1>4. SentLast'
  <2> SUFFICES ASSUME NEW i \in DOMAIN up', up'[i].kind = "join"
               PROVE  \/ up'[i].attempt < attempt'
                      \/ /\ up'[i].attempt = attempt' /\ board' # Nil
                         /\ up'[i].path = board' /\ i = Len(up')
    BY DEF SentLast
  <2>1. CASE i = Len(queue) + 1
    BY <2>1, <1>1, <1>2, NilAssumption
  <2>2. CASE i \in DOMAIN queue
    <3>1. up'[i] = queue[i]
      BY <2>2, <1>1, <1>2
    <3>2. queue[i] \in Messages
      BY <2>2
    <3> QED BY <3>1, <3>2, <2>2, <1>1, <1>2 DEF Messages
  <2>3. i = Len(queue) + 1 \/ i \in DOMAIN queue
    BY <1>1, <1>2
  <2> QED BY <2>1, <2>2, <2>3
<1>5. ReceivedLast'
  BY <1>1, <1>2 DEF IInv, Types, JoinCalls, ReceivedLast
<1>6. AckedInRoom'
  BY <1>1, <1>2 DEF IInv, Types, Acks, AckedInRoom
<1>7. TimerIsCurrent' /\ Confirmed'
  BY <1>1, <1>2, NilAssumption DEF TimerIsCurrent, Confirmed
<1>8. JoinsVerified' /\ OutsidersHearNothing'
  BY DEF IInv, JoinsVerified, OutsidersHearNothing
<1> QED BY <1>3, <1>4, <1>5, <1>6, <1>7, <1>8 DEF IInv

\* Messages carry no attempt newer than the current one.
LEMMA QueueIsOld ==
  ASSUME IInv
  PROVE  \A i \in DOMAIN up : up[i].kind = "join" => up[i].attempt <= attempt
<1> SUFFICES ASSUME NEW i \in DOMAIN up, up[i].kind = "join"
             PROVE  up[i].attempt <= attempt
  OBVIOUS
<1>1. up \in Seq(Messages) /\ attempt \in Nat
  BY DEF IInv, Types
<1>2. up[i] \in Messages
  BY <1>1
<1>3. up[i].attempt \in Nat
  BY <1>2 DEF Messages
<1> QED BY <1>1, <1>3 DEF IInv, SentLast

-----------------------------------------------------------------------------
(* The tab.                                                                *)

\* A board that mounts has a join of its own, or waits for the connection.
LEMMA MountInv == ASSUME IInv, NEW p \in Paths, Mount(p) PROVE IInv'
<1>1. CASE sock = "connected"
  BY <1>1, EmitInv, QueueIsOld DEF Mount, world, IInv, Types
<1>2. CASE sock # "connected"
  <2>1. /\ UNCHANGED <<sock, attempt, timer, up, joins, acks, rooms, auth, member>>
        /\ board = Nil /\ board' = p
    BY <1>2 DEF Mount, world
  <2> QED BY <2>1, <1>2, NilAssumption
          DEF IInv, Types, SentLast, ReceivedLast, AckedInRoom, TimerIsCurrent, Confirmed,
              JoinsVerified, OutsidersHearNothing
<1> QED BY <1>1, <1>2

\* The cleanup counts a new attempt, which makes every message an old one.
LEMMA UnmountInv == ASSUME IInv, Unmount PROVE IInv'
<1> DEFINE leave == [kind |-> "leave", path |-> board, attempt |-> 0]
<1>1. /\ board' = Nil /\ attempt' = attempt + 1 /\ timer' = 0
      /\ up' = IF sock = "connected" THEN Append(up, leave) ELSE up
      /\ UNCHANGED <<sock, joins, acks, rooms, auth, member>>
      /\ board \in Paths
  BY DEF Unmount, Cleanup, world, IInv, Types
<1>2. attempt \in Nat /\ leave \in Messages /\ up \in Seq(Messages)
  BY <1>1 DEF IInv, Types, Messages
<1>3. Types'
  BY <1>1, <1>2 DEF IInv, Types
<1>4. SentLast'
  <2> SUFFICES ASSUME NEW i \in DOMAIN up', up'[i].kind = "join"
               PROVE  up'[i].attempt < attempt'
    BY DEF SentLast
  <2>1. i \in DOMAIN up /\ up'[i] = up[i]
    BY <1>1, <1>2
  <2>2. up[i].attempt <= attempt
    BY <2>1, QueueIsOld
  <2>3. up[i] \in Messages
    BY <2>1, <1>2
  <2>4. up[i].attempt \in Nat
    BY <2>3 DEF Messages
  <2> QED BY <2>1, <2>2, <2>4, <1>1, <1>2
<1>5. ReceivedLast' /\ AckedInRoom'
  BY <1>1, <1>2 DEF IInv, Types, JoinCalls, Acks, ReceivedLast, AckedInRoom
<1>6. TimerIsCurrent' /\ Confirmed' /\ JoinsVerified' /\ OutsidersHearNothing'
  BY <1>1 DEF IInv, TimerIsCurrent, Confirmed, JoinsVerified, OutsidersHearNothing
<1> QED BY <1>3, <1>4, <1>5, <1>6 DEF IInv

\* A retry is a new attempt of the same board.
LEMMA RetryInv == ASSUME IInv, RetryJoin PROVE IInv'
<1>1. CASE sock = "connected"
  <2>1. board \in Paths
    BY DEF RetryJoin, IInv, Types
  <2> QED BY <1>1, <2>1, EmitInv, QueueIsOld DEF RetryJoin, world, IInv, Types
<1>2. CASE sock # "connected"
  BY <1>2 DEF RetryJoin, world, IInv, Types, SentLast, ReceivedLast, AckedInRoom,
              TimerIsCurrent, Confirmed, JoinsVerified, OutsidersHearNothing
<1> QED BY <1>1, <1>2

\* A timeout that fires is the current attempt's and leaves an error.
LEMMA TimerInv == ASSUME IInv, TimerFires PROVE IInv'
<1>1. /\ timer' = 0 /\ error' = "timeout"
      /\ UNCHANGED <<sock, board, attempt, up, joins, acks, rooms, auth, member>>
  BY DEF TimerFires, AttemptOf, IInv, TimerIsCurrent, connection, world
<1> QED BY <1>1 DEF IInv, Types, SentLast, ReceivedLast, AckedInRoom, TimerIsCurrent,
                    Confirmed, JoinsVerified, OutsidersHearNothing

\* An ack counts only for the current attempt, and a good one says the truth.
LEMMA AckInv == ASSUME IInv, AckArrives PROVE IInv'
<1>1. PICK a \in acks :
        /\ acks' = acks \ {a}
        /\ IF a.attempt = attempt
             THEN timer' = 0 /\ error' = IF a.ok THEN "none" ELSE "refused"
             ELSE UNCHANGED <<timer, error>>
  BY DEF AckArrives, AttemptOf
<1>2. UNCHANGED <<sock, board, attempt, up, joins, rooms, auth, member>>
  BY DEF AckArrives, world
<1>3. a \in Acks
  BY DEF IInv, Types
<1>4. Confirmed'
  BY <1>1, <1>2, <1>3 DEF IInv, Types, Acks, AckedInRoom, Confirmed
<1> QED BY <1>1, <1>2, <1>4
        DEF IInv, Types, SentLast, ReceivedLast, AckedInRoom, TimerIsCurrent,
            JoinsVerified, OutsidersHearNothing

-----------------------------------------------------------------------------
(* The socket.                                                             *)

\* Signing in touches nothing the invariant speaks of.
LEMMA SignInInv == ASSUME IInv, SignIn PROVE IInv'
  BY DEF SignIn, connection, IInv, Types, SentLast, ReceivedLast, AckedInRoom, TimerIsCurrent,
         Confirmed, JoinsVerified, OutsidersHearNothing

\* Signing out ends the connection, if there is one.
LEMMA SignOutInv == ASSUME IInv, SignOut PROVE IInv'
<1>1. CASE sock = "connected"
  BY <1>1, HangupInv DEF SignOut
<1>2. CASE sock # "connected"
  BY <1>2 DEF SignOut, connection, IInv, Types, SentLast, ReceivedLast, AckedInRoom,
              TimerIsCurrent, Confirmed, JoinsVerified, OutsidersHearNothing
<1> QED BY <1>1, <1>2

\* A new connection starts empty, but for the join of a mounted board.
LEMMA ConnectInv == ASSUME IInv, Connect PROVE IInv'
<1>1. /\ acks' = {} /\ joins' = {} /\ rooms' = {} /\ UNCHANGED <<board, member>>
  BY DEF Connect, world
<1>2. CASE board # Nil
  <2>1. board \in Paths /\ EmitJoin(board, <<>>)
    BY <1>2 DEF Connect, IInv, Types
  <2>2. <<>> \in Seq(Messages) /\ DOMAIN <<>> = {}
    OBVIOUS
  <2>3. /\ joins' \subseteq joins /\ acks' \subseteq acks /\ rooms' \subseteq rooms
        /\ joins' # {} => auth' = auth
        /\ rooms' # {} => auth' = auth
        /\ board' = board /\ member' = member
    BY <1>1
  <2>4. \A i \in DOMAIN <<>> : <<>>[i].kind = "join" => <<>>[i].attempt <= attempt
    BY <2>2
  <2> QED BY <2>1, <2>2, <2>3, <2>4, EmitInv
<1>3. CASE board = Nil
  BY <1>1, <1>3 DEF Connect, IInv, Types, SentLast, ReceivedLast, AckedInRoom,
                    TimerIsCurrent, Confirmed, JoinsVerified, OutsidersHearNothing
<1> QED BY <1>2, <1>3

\* A connection that breaks.
LEMMA DropInv == ASSUME IInv, Drop PROVE IInv'
  BY HangupInv DEF Drop, world

-----------------------------------------------------------------------------
(* The server.                                                             *)

\* The handshake ends with a user or without a connection.
LEMMA AuthenticateInv == ASSUME IInv, Authenticate PROVE IInv'
<1>1. CASE auth' = "user" /\ UNCHANGED <<sock, up, acks, joins, rooms>>
  BY <1>1 DEF Authenticate, world, IInv, Types, SentLast, ReceivedLast, AckedInRoom,
              TimerIsCurrent, Confirmed, JoinsVerified, OutsidersHearNothing
<1>2. CASE ServerHangsUp
  BY <1>2, HangupInv DEF Authenticate, ServerHangsUp, world
<1> QED BY <1>1, <1>2 DEF Authenticate

\* So does one that fails.
LEMMA AuthenticateFailsInv == ASSUME IInv, AuthenticateFails PROVE IInv'
  BY HangupInv DEF AuthenticateFails, ServerHangsUp, world

\* The server receives in the order in which the tab sent: the join of the
\* current attempt comes last, and nothing comes after it.
LEMMA ReceiveInv == ASSUME IInv, Receive PROVE IInv'
<1> DEFINE m == Head(up)
           j == [path |-> m.path, attempt |-> m.attempt, pc |-> "auth"]
<1>1. /\ up # <<>> /\ up' = Tail(up)
      /\ UNCHANGED <<sock, board, attempt, timer, error, acks, auth, member>>
  BY DEF Receive, client, world
<1>2. /\ up \in Seq(Messages) /\ m \in Messages /\ m = up[1] /\ 1 \in DOMAIN up
  BY <1>1 DEF IInv, Types
<1>3. j \in JoinCalls
  BY <1>2 DEF Messages, JoinCalls
<1>4. \/ m.kind = "leave" /\ rooms' = rooms \ {m.path.project} /\ joins' = joins
      \/ m.kind = "join" /\ rooms' = rooms /\ joins' = joins \cup {j}
  BY <1>2 DEF Receive, Messages
<1>5. Types'
  BY <1>1, <1>2, <1>3, <1>4 DEF IInv, Types
<1>6. SentLast'
  <2> SUFFICES ASSUME NEW i \in DOMAIN up', up'[i].kind = "join"
               PROVE  \/ up'[i].attempt < attempt'
                      \/ /\ up'[i].attempt = attempt' /\ board' # Nil
                         /\ up'[i].path = board' /\ i = Len(up')
    BY DEF SentLast
  <2>1. i + 1 \in DOMAIN up /\ up'[i] = up[i + 1] /\ Len(up') = Len(up) - 1
        /\ i \in Nat /\ Len(up) \in Nat
    BY <1>1, <1>2
  <2> QED BY <2>1, <1>1 DEF IInv, SentLast
<1>7. ReceivedLast'
  <2>1. \A k \in joins : k.attempt < attempt
    BY <1>1 DEF IInv, ReceivedLast
  <2>2. m.kind = "join" =>
          \/ m.attempt < attempt
          \/ m.attempt = attempt /\ board # Nil /\ m.path = board /\ 1 = Len(up)
    BY <1>2 DEF IInv, SentLast
  <2>3. ASSUME 1 = Len(up) PROVE Tail(up) = <<>>
    <3>1. Len(Tail(up)) = 0 /\ Tail(up) \in Seq(Messages)
      BY <1>1, <1>2, <2>3
    <3> QED BY <3>1, EmptySeq
  <2> QED BY <2>1, <2>2, <2>3, <1>1, <1>4 DEF ReceivedLast
<1>8. AckedInRoom'
  BY <1>1 DEF IInv, AckedInRoom
<1>9. TimerIsCurrent' /\ Confirmed'
  BY <1>1 DEF IInv, TimerIsCurrent, Confirmed
<1>10. JoinsVerified' /\ OutsidersHearNothing'
  BY <1>1, <1>4 DEF IInv, JoinsVerified, OutsidersHearNothing
<1> QED BY <1>5, <1>6, <1>7, <1>8, <1>9, <1>10 DEF IInv

\* A join that moves on to its next await.
LEMMA GotoInv ==
  ASSUME IInv, NEW j \in joins, NEW pc \in {"workspace", "project", "membership"},
         Goto(j, pc), auth = "user",
         pc = "membership" => WorkspaceOf[j.path.project] = j.path.ws,
         UNCHANGED <<sock, board, attempt, timer, error, up, acks, rooms, auth, member>>
  PROVE  IInv'
<1> DEFINE k == [j EXCEPT !.pc = pc]
<1>1. joins' = (joins \ {j}) \cup {k}
  BY DEF Goto
<1>2. k \in JoinCalls /\ k.attempt = j.attempt /\ k.path = j.path
  BY DEF IInv, Types, JoinCalls
<1>3. Types'
  BY <1>1, <1>2 DEF IInv, Types
<1>4. ReceivedLast'
  BY <1>1, <1>2 DEF IInv, ReceivedLast
<1>5. JoinsVerified'
  <2>1. k.pc = pc
    BY DEF IInv, Types, JoinCalls
  <2> HIDE DEF k
  <2> QED BY <1>1, <1>2, <2>1 DEF IInv, JoinsVerified
<1> QED BY <1>3, <1>4, <1>5 DEF IInv, SentLast, AckedInRoom, TimerIsCurrent, Confirmed,
                                OutsidersHearNothing

\* A join that is answered: a refusal, or an entry into the room.
LEMMA AnswerInv ==
  ASSUME IInv, NEW j \in joins, NEW ok \in BOOLEAN, Ack(j, ok),
         IF ok THEN /\ rooms' = rooms \cup {j.path.project} /\ auth = "user"
                    /\ member[WorkspaceOf[j.path.project]] # "never"
               ELSE rooms' = rooms,
         UNCHANGED <<sock, board, attempt, timer, error, up, auth, member>>
  PROVE  IInv'
<1> DEFINE a == [attempt |-> j.attempt, ok |-> ok]
<1>1. joins' = joins \ {j} /\ acks' = acks \cup {a}
  BY DEF Ack
<1>2. j \in JoinCalls
  BY DEF IInv, Types
<1>3. a \in Acks
  BY <1>2 DEF JoinCalls, Acks
<1>4. Types'
  BY <1>1, <1>2, <1>3, PathAssumption DEF IInv, Types, JoinCalls
<1>5. AckedInRoom'
  <2>1. \/ a.attempt < attempt
        \/ /\ a.attempt = attempt /\ board # Nil
           /\ a.ok => board.project \in rooms' /\ up = <<>>
    BY DEF IInv, ReceivedLast
  <2>2. rooms \subseteq rooms'
    OBVIOUS
  <2> QED BY <1>1, <2>1, <2>2 DEF IInv, AckedInRoom
<1>6. SentLast' /\ ReceivedLast' /\ TimerIsCurrent' /\ Confirmed' /\ JoinsVerified'
  BY <1>1 DEF IInv, SentLast, ReceivedLast, TimerIsCurrent, Confirmed, JoinsVerified
<1>7. OutsidersHearNothing'
  BY DEF IInv, OutsidersHearNothing
<1> QED BY <1>4, <1>5, <1>6, <1>7 DEF IInv

\* The four awaits of handleJoin.
LEMMA JoinStepInv == ASSUME IInv, NEW j \in joins, JoinStep(j) PROVE IInv'
<1>1. CASE JoinAwaitsAuth(j)
  BY <1>1, GotoInv DEF JoinAwaitsAuth, client, world
<1>2. CASE JoinFindsWorkspace(j)
  <2>1. auth = "user"
    BY <1>2 DEF JoinFindsWorkspace, IInv, JoinsVerified
  <2>2. UNCHANGED <<sock, board, attempt, timer, error, up, auth, member, rooms>>
    BY <1>2 DEF JoinFindsWorkspace, client, world
  <2>3. (Goto(j, "project") /\ acks' = acks) \/ Ack(j, FALSE)
    BY <1>2 DEF JoinFindsWorkspace
  <2> QED BY <2>1, <2>2, <2>3, GotoInv, AnswerInv
<1>3. CASE JoinFindsProject(j)
  <2>1. auth = "user"
    BY <1>3 DEF JoinFindsProject, IInv, JoinsVerified
  <2>2. UNCHANGED <<sock, board, attempt, timer, error, up, auth, member, rooms>>
    BY <1>3 DEF JoinFindsProject, client, world
  <2>3. \/ /\ Goto(j, "membership") /\ acks' = acks
           /\ WorkspaceOf[j.path.project] = j.path.ws
        \/ Ack(j, FALSE)
    BY <1>3 DEF JoinFindsProject
  <2> QED BY <2>1, <2>2, <2>3, GotoInv, AnswerInv
<1>4. CASE JoinFindsMembership(j)
  <2>1. auth = "user" /\ WorkspaceOf[j.path.project] = j.path.ws
    BY <1>4 DEF JoinFindsMembership, IInv, JoinsVerified
  <2>2. UNCHANGED <<sock, board, attempt, timer, error, up, auth, member>>
    BY <1>4 DEF JoinFindsMembership, client, world
  <2>3. CASE member[j.path.ws] = "member"
    <3>1. Ack(j, TRUE) /\ rooms' = rooms \cup {j.path.project}
      BY <1>4, <2>3 DEF JoinFindsMembership
    <3> QED BY <2>1, <2>2, <2>3, <3>1, AnswerInv
  <2>4. CASE member[j.path.ws] # "member"
    <3>1. Ack(j, FALSE) /\ rooms' = rooms
      BY <1>4, <2>4 DEF JoinFindsMembership
    <3> QED BY <2>2, <3>1, AnswerInv
  <2> QED BY <2>3, <2>4
<1> QED BY <1>1, <1>2, <1>3, <1>4 DEF JoinStep

\* A query of handleJoin that throws is answered like a refusal.
LEMMA JoinFailsInv == ASSUME IInv, NEW j \in joins, JoinFails(j) PROVE IInv'
<1>1. Ack(j, FALSE) /\ UNCHANGED <<sock, board, attempt, timer, error, up, auth, rooms, member>>
  BY DEF JoinFails, client, world
<1> QED BY <1>1, AnswerInv

\* Whoever was a member once never counts as an outsider again.
LEMMA WorldInv == ASSUME IInv, World PROVE IInv'
<1>1. UNCHANGED <<client, connection>>
  BY DEF World
<1>2. /\ member' \in [Workspaces -> {"never", "member", "removed"}]
      /\ \A w \in Workspaces : member[w] # "never" => member'[w] # "never"
  <2>1. CASE member' = member
    BY <2>1 DEF IInv, Types
  <2>2. ASSUME NEW w \in Workspaces, NEW m \in {"member", Ended(member[w])},
               member' = [member EXCEPT ![w] = m]
        PROVE  /\ member' \in [Workspaces -> {"never", "member", "removed"}]
               /\ \A v \in Workspaces : member[v] # "never" => member'[v] # "never"
    BY <2>2 DEF IInv, Types, Ended
  <2> QED BY <2>1, <2>2 DEF World, TokenExpires, TokenRefreshed, ProjectGoes, WorkspaceGoes,
                            MemberComesOrGoes
<1>3. OutsidersHearNothing'
  BY <1>1, <1>2, WorkspaceAssumption DEF connection, IInv, Types, OutsidersHearNothing
<1> QED BY <1>1, <1>2, <1>3
        DEF client, connection, IInv, Types, SentLast, ReceivedLast, AckedInRoom,
            TimerIsCurrent, Confirmed, JoinsVerified

-----------------------------------------------------------------------------
\* Every step of the tab, the server and the network preserves the invariant.
LEMMA NextInv == ASSUME IInv, [Next]_vars PROVE IInv'
<1>1. CASE UNCHANGED vars
  BY <1>1 DEF vars, client, connection, world, IInv, Types, SentLast, ReceivedLast,
              AckedInRoom, TimerIsCurrent, Confirmed, JoinsVerified, OutsidersHearNothing
<1>2. CASE System
  BY <1>2, TimerInv, AckInv, ConnectInv, AuthenticateInv, ReceiveInv, JoinStepInv DEF System
<1>3. CASE \E p \in Paths : Mount(p)
  BY <1>3, MountInv
<1>4. CASE Unmount \/ RetryJoin \/ SignIn \/ SignOut \/ Drop \/ AuthenticateFails \/ World
  BY <1>4, UnmountInv, RetryInv, SignInInv, SignOutInv, DropInv, AuthenticateFailsInv, WorldInv
<1>5. CASE \E j \in joins : JoinFails(j)
  BY <1>5, JoinFailsInv
<1>6. CASE Rest
  BY <1>6, <1>1 DEF Rest
<1> QED BY <1>1, <1>2, <1>3, <1>4, <1>5, <1>6 DEF Next

\* The invariant of handleJoin, useProjectRealtime and the socket between them.
THEOREM RealtimeInvariance == Spec => []IInv
<1>1. IInv /\ [Next]_vars => IInv'
  BY NextInv
<1> QED BY InitInv, <1>1, PTL DEF Spec

\* A board that says nothing is wrong is in its room (useProjectRealtime):
\* neither a late ack nor a leave on its way makes that untrue.
THEOREM SilenceMeansInRoom == Spec => []ConfirmedMeansInRoom
<1>1. IInv => ConfirmedMeansInRoom
  BY DEF IInv, Confirmed, ConfirmedMeansInRoom
<1> QED BY RealtimeInvariance, <1>1, PTL

\* Nobody is in the room of a project whose workspace never let them in
\* (RealtimeGateway.handleJoin).
THEOREM RoomsAreForMembers == Spec => []OutsidersHearNothing
<1>1. IInv => OutsidersHearNothing
  BY DEF IInv
<1> QED BY RealtimeInvariance, <1>1, PTL

\* The server ends a signed-in tab's connection only over its handshake: its
\* token is missing, has expired, or cannot be verified because a query fails
\* (RealtimeGateway, handleConnection and handleJoin).
THEOREM VerifiedAreKept == Spec => VerifiedStayConnected
<1>1. ASSUME [Next]_vars, sock = "connected", sock' = "off", signedIn'
      PROVE  auth = "pending" /\ (held = "good" => AuthenticateFails)
  <2>1. ASSUME NEW j, JoinStep(j) PROVE sock' = sock
    BY <2>1 DEF JoinStep, JoinAwaitsAuth, JoinFindsWorkspace, JoinFindsProject,
                JoinFindsMembership, client
  <2>2. ASSUME NEW j, JoinFails(j) PROVE sock' = sock
    BY <2>2 DEF JoinFails, client
  <2>3. CASE System
    <3>1. TimerFires \/ AckArrives \/ Connect \/ Receive => sock' # "off" \/ sock # "connected"
      BY DEF TimerFires, AckArrives, Connect, Receive, client
    <3>2. Authenticate
      BY <1>1, <2>1, <2>3, <3>1 DEF System
    <3> QED BY <1>1, <3>2 DEF Authenticate
  <2>4. CASE AuthenticateFails
    BY <2>4 DEF AuthenticateFails
  <2> QED BY <1>1, <2>2, <2>3, <2>4
          DEF Next, Mount, Unmount, RetryJoin, SignIn, SignOut, Drop, World, Rest, vars, client
<1>2. [Next]_vars =>
        [sock = "connected" /\ sock' = "off" /\ signedIn' =>
           auth = "pending" /\ (held = "good" => AuthenticateFails)]_vars
  BY <1>1
<1> QED BY <1>2, PTL DEF Spec, VerifiedStayConnected

-----------------------------------------------------------------------------
(* TypeOK, with the bound on the attempts: each costs an event, of the     *)
(* user or of the network, but for the one the first connection makes.     *)

TabType ==
  /\ sock \in {"off", "connecting", "connected"} /\ signedIn \in BOOLEAN
  /\ token \in {"none", "good", "bad"} /\ held \in {"none", "good", "bad"}
  /\ error \in {"none", "notConnected", "timeout", "refused"}
  /\ live \subseteq Projects \cup Workspaces /\ events \in 0..MaxEvents

\* The server knows the connection exactly while the tab does.
AuthType == auth \in {"none", "pending", "user"} /\ (auth = "none" <=> sock # "connected")

\* A connection that is being made has an attempt coming.
Coming == IF sock = "connecting" THEN 1 ELSE 0
Counted == attempt + Coming <= events + 1

\* A leave is of no attempt.
LeavesBare == \A i \in DOMAIN up : up[i].kind = "leave" => up[i].attempt = 0

TypeInv == TabType /\ AuthType /\ Counted /\ LeavesBare

\* A queue of bare leaves and joins stays one when a join is appended.
LEMMA EmitBare ==
  ASSUME NEW p \in Paths, NEW queue \in Seq(Messages), attempt \in Nat,
         \A i \in DOMAIN queue : queue[i].kind = "leave" => queue[i].attempt = 0,
         EmitJoin(p, queue)
  PROVE  LeavesBare'
<1> DEFINE m == [kind |-> "join", path |-> p, attempt |-> attempt']
<1>1. up' = Append(queue, m) /\ m \in Messages
  BY DEF EmitJoin, Messages
<1>2. m.kind # "leave"
  OBVIOUS
<1> HIDE DEF m
<1> QED
  <2> SUFFICES ASSUME NEW i \in DOMAIN up', up'[i].kind = "leave" PROVE up'[i].attempt = 0
    BY DEF LeavesBare
  <2>1. CASE i \in DOMAIN queue
    BY <2>1, <1>1
  <2>2. CASE i = Len(queue) + 1
    BY <2>2, <1>1, <1>2
  <2> QED
    BY <2>1, <2>2, <1>1

\* An event counts, and stays within the bound.
LEMMA EventCounts ==
  ASSUME TypeInv, Event
  PROVE  events' \in 0..MaxEvents /\ events' = events + 1 /\ events \in Nat
  BY BoundAssumption DEF TypeInv, TabType, Event

\* The tab's own steps, and those of the socket.
LEMMA TabTypeInv ==
  ASSUME IInv, TypeInv,
         \/ \E p \in Paths : Mount(p)
         \/ Unmount \/ RetryJoin \/ TimerFires \/ AckArrives
  PROVE  TypeInv'
<1> USE DEF TypeInv
<1>1. attempt \in Nat /\ up \in Seq(Messages) /\ events \in Nat
  BY BoundAssumption DEF IInv, Types, TabType
<1>2. CASE \E p \in Paths : Mount(p)
  <2>1. PICK p \in Paths : Mount(p)
    BY <1>2
  <2>2. /\ UNCHANGED <<sock, signedIn, auth, world>>
        /\ \/ EmitJoin(p, up) /\ attempt' = attempt + 1 /\ sock # "connecting"
           \/ UNCHANGED <<attempt, up>>
        /\ error' \in {"none", error}
    BY <2>1 DEF Mount, EmitJoin
  <2>3. events' \in 0..MaxEvents /\ events' = events + 1
    BY <2>1, EventCounts DEF Mount
  <2>4. TabType' /\ AuthType' /\ Counted'
    BY <1>1, <2>2, <2>3 DEF world, TabType, AuthType, Counted, Coming
  <2>5. LeavesBare'
    BY <1>1, <2>2, EmitBare DEF LeavesBare
  <2> QED
    BY <2>4, <2>5
<1>3. CASE Unmount
  <2> DEFINE leave == [kind |-> "leave", path |-> board, attempt |-> 0]
  <2>1. /\ UNCHANGED <<sock, signedIn, auth, world, error>>
        /\ attempt' = attempt + 1
        /\ up' = IF sock = "connected" THEN Append(up, leave) ELSE up
    BY <1>3 DEF Unmount, Cleanup
  <2>2. events' \in 0..MaxEvents /\ events' = events + 1
    BY <1>3, EventCounts DEF Unmount
  <2>3. TabType' /\ AuthType' /\ Counted'
    BY <1>1, <2>1, <2>2 DEF world, TabType, AuthType, Counted, Coming
  <2>4. leave \in Messages /\ leave.attempt = 0
    BY <1>3 DEF Unmount, IInv, Types, Messages
  <2> HIDE DEF leave
  <2>5. \A i \in DOMAIN up' : (i \in DOMAIN up /\ up'[i] = up[i]) \/ up'[i] = leave
    BY <1>1, <2>1, <2>4
  <2>6. LeavesBare'
    BY <2>4, <2>5 DEF LeavesBare
  <2> QED
    BY <2>3, <2>6
<1>4. CASE RetryJoin
  <2>1. /\ UNCHANGED <<sock, signedIn, auth, world>> /\ board \in Paths
        /\ \/ EmitJoin(board, up) /\ attempt' = attempt + 1 /\ sock # "connecting"
              /\ error' = "none"
           \/ UNCHANGED <<attempt, up>> /\ error' = "notConnected"
    BY <1>4 DEF RetryJoin, EmitJoin, IInv, Types
  <2>2. events' \in 0..MaxEvents /\ events' = events + 1
    BY <1>4, EventCounts DEF RetryJoin
  <2>3. TabType' /\ AuthType' /\ Counted'
    BY <1>1, <2>1, <2>2 DEF world, TabType, AuthType, Counted, Coming
  <2>4. LeavesBare'
    BY <1>1, <2>1, EmitBare DEF LeavesBare
  <2> QED
    BY <2>3, <2>4
<1>5. CASE TimerFires \/ AckArrives
  <2>1. /\ UNCHANGED <<sock, signedIn, auth, attempt, up, world, events>>
        /\ error' \in {error, "none", "timeout", "refused"}
    BY <1>5 DEF TimerFires, AckArrives, connection
  <2> QED
    BY <2>1 DEF world, TabType, AuthType, Counted, Coming, LeavesBare
<1> QED
  BY <1>2, <1>3, <1>4, <1>5

\* The steps of the socket.
LEMMA SocketTypeInv ==
  ASSUME IInv, TypeInv, SignIn \/ SignOut \/ Connect \/ Drop
  PROVE  TypeInv'
<1> USE DEF TypeInv
<1>1. attempt \in Nat /\ up \in Seq(Messages) /\ events \in Nat
  BY BoundAssumption DEF IInv, Types, TabType
<1>2. CASE SignIn
  <2>1. events' \in 0..MaxEvents /\ events' = events + 1
    BY <1>2, EventCounts DEF SignIn
  <2>2. /\ signedIn' = TRUE /\ token' = "good"
        /\ sock' = IF sock = "connected" THEN sock ELSE "connecting"
        /\ UNCHANGED <<error, held, live, attempt, auth, up>>
    BY <1>2 DEF SignIn, connection
  <2>3. TabType' /\ AuthType' /\ LeavesBare'
    BY <2>1, <2>2 DEF TabType, AuthType, LeavesBare
  <2>4. Counted'
    BY <1>1, <2>1, <2>2 DEF Counted, Coming
  <2> QED
    BY <2>3, <2>4
<1>3. CASE SignOut
  <2>1. events' \in 0..MaxEvents /\ events' = events + 1
    BY <1>3, EventCounts DEF SignOut
  <2>2. /\ signedIn' = FALSE /\ token' = "none" /\ UNCHANGED <<error, held, live, attempt>>
        /\ \/ sock' = "off" /\ auth' = "none" /\ up' = <<>>
           \/ UNCHANGED <<sock, auth, up>>
    BY <1>3 DEF SignOut, Hangup, connection
  <2>3. TabType'
    BY <2>1, <2>2 DEF TabType
  <2>4. AuthType'
    BY <2>2 DEF AuthType
  <2>5. up' = up \/ DOMAIN up' = {}
    BY <2>2
  <2>6. LeavesBare'
    BY <2>5 DEF LeavesBare
  <2>7. Counted'
    BY <1>1, <2>1, <2>2 DEF Counted, Coming
  <2> QED
    BY <2>3, <2>4, <2>6, <2>7
<1>4. CASE Connect
  <2>1. /\ sock = "connecting" /\ sock' = "connected" /\ auth' = "pending"
        /\ held' = token /\ UNCHANGED <<signedIn, token, live, events>>
        /\ \/ /\ board # Nil /\ EmitJoin(board, <<>>)
              /\ attempt' = attempt + 1 /\ error' = "none"
           \/ up' = <<>> /\ UNCHANGED <<attempt, error>>
    BY <1>4 DEF Connect, EmitJoin
  <2>2. TabType' /\ AuthType' /\ Counted'
    BY <1>1, <2>1 DEF world, TabType, AuthType, Counted, Coming
  <2>3. <<>> \in Seq(Messages) /\ DOMAIN <<>> = {}
    OBVIOUS
  <2>4. \A i \in DOMAIN <<>> : <<>>[i].kind = "leave" => <<>>[i].attempt = 0
    BY <2>3
  <2>5. board # Nil => board \in Paths
    BY DEF IInv, Types
  <2>6. LeavesBare'
    <3>1. CASE up' = <<>>
      BY <3>1, <2>3 DEF LeavesBare
    <3>2. CASE board # Nil /\ EmitJoin(board, <<>>)
      BY <3>2, <1>1, <2>3, <2>4, <2>5, EmitBare
    <3> QED
      BY <2>1, <3>1, <3>2
  <2> QED
    BY <2>2, <2>6
<1>5. CASE Drop
  <2>1. events' \in 0..MaxEvents /\ events' = events + 1
    BY <1>5, EventCounts DEF Drop
  <2> QED
    BY <1>1, <1>5, <2>1 DEF Drop, Hangup, world, TabType, AuthType, Counted, Coming, LeavesBare
<1> QED
  BY <1>2, <1>3, <1>4, <1>5

\* The steps of the server, and of the rest of the system.
LEMMA ServerTypeInv ==
  ASSUME IInv, TypeInv,
         \/ Authenticate \/ AuthenticateFails \/ Receive \/ World
         \/ \E j \in joins : JoinStep(j) \/ JoinFails(j)
  PROVE  TypeInv'
<1> USE DEF TypeInv
<1>1. attempt \in Nat /\ up \in Seq(Messages) /\ events \in Nat
  BY BoundAssumption DEF IInv, Types, TabType
<1>2. CASE Authenticate
  <2>1. CASE ServerHangsUp
    BY <1>1, <1>2, <2>1 DEF Authenticate, ServerHangsUp, Hangup, world, TabType, AuthType,
                            Counted, Coming, LeavesBare
  <2>2. CASE auth' = "user" /\ UNCHANGED <<sock, up>>
    BY <1>2, <2>2 DEF Authenticate, world, TabType, AuthType, Counted, Coming, LeavesBare
  <2> QED
    BY <1>2, <2>1, <2>2 DEF Authenticate
<1>3. CASE Receive
  <2>1. /\ up # <<>> /\ up' = Tail(up) /\ UNCHANGED <<client, auth, world, events>>
    BY <1>3 DEF Receive
  <2>2. \A i \in DOMAIN up' : i + 1 \in DOMAIN up /\ up'[i] = up[i + 1]
    BY <1>1, <2>1
  <2>3. LeavesBare'
    BY <2>2 DEF LeavesBare
  <2> QED
    BY <2>1, <2>3 DEF client, world, TabType, AuthType, Counted, Coming
<1>4. CASE World
  <2>1. events' \in 0..MaxEvents /\ events' = events + 1
    BY <1>4, EventCounts DEF World
  <2>2. live' \subseteq live /\ token' \in {token, "bad", "good"} /\ held' \in {held, "bad"}
    BY <1>4 DEF World, TokenExpires, TokenRefreshed, ProjectGoes, WorkspaceGoes,
           MemberComesOrGoes
  <2>3. UNCHANGED <<sock, signedIn, error, attempt, auth, up>>
    BY <1>4 DEF World, client, connection
  <2>4. TabType' /\ AuthType' /\ LeavesBare'
    BY <2>1, <2>2, <2>3 DEF TabType, AuthType, LeavesBare
  <2>5. Counted'
    BY <1>1, <2>1, <2>3 DEF Counted, Coming
  <2> QED
    BY <2>4, <2>5
<1>5. CASE \E j \in joins : JoinStep(j) \/ JoinFails(j)
  <2>1. /\ UNCHANGED <<client, up, auth, world>>
        /\ Event \/ UNCHANGED events
    BY <1>5 DEF JoinStep, JoinAwaitsAuth, JoinFindsWorkspace, JoinFindsProject,
                JoinFindsMembership, JoinFails
  <2>2. events' \in 0..MaxEvents /\ events' >= events
    BY <1>1, <2>1, EventCounts DEF TabType
  <2>3. TabType' /\ AuthType' /\ LeavesBare'
    BY <2>1, <2>2 DEF client, world, TabType, AuthType, LeavesBare
  <2>4. attempt' + Coming' = attempt + Coming /\ Coming \in Nat
    BY <2>1 DEF client, Coming
  <2>5. events' \in Nat /\ events' >= events /\ attempt + Coming <= events + 1
    BY <2>2, BoundAssumption DEF Counted
  <2>6. Counted'
    BY <1>1, <2>4, <2>5 DEF Counted
  <2> QED
    BY <2>3, <2>6
<1>6. CASE AuthenticateFails
  <2>1. events' \in 0..MaxEvents /\ events' = events + 1
    BY <1>6, EventCounts DEF AuthenticateFails
  <2> QED
    BY <1>1, <1>6, <2>1 DEF AuthenticateFails, ServerHangsUp, Hangup, world, TabType, AuthType,
                            Counted, Coming, LeavesBare
<1> QED
  BY <1>2, <1>3, <1>4, <1>5, <1>6

\* The types, and the attempts, once RealtimeInvariance is known.
LEMMA TypeInvStep == ASSUME IInv, TypeInv, [Next]_vars PROVE TypeInv'
<1>1. CASE UNCHANGED vars
  BY <1>1 DEF vars, client, connection, world, TypeInv, TabType, AuthType, Counted, Coming,
              LeavesBare
<1> QED
  BY <1>1, TabTypeInv, SocketTypeInv, ServerTypeInv DEF Next, System, Rest

\* TypeOK is what the two invariants say of the types.
LEMMA TypesFollow == ASSUME IInv, TypeInv PROVE TypeOK
<1>1. attempt \in Nat /\ attempt <= MaxEvents + 1 /\ MaxEvents \in Nat
  BY BoundAssumption DEF IInv, Types, TypeInv, TabType, Counted, Coming
<1>2. \A n \in Nat : n <= attempt => n \in Attempts
  BY <1>1 DEF Attempts
<1>3. attempt \in Attempts /\ timer \in Attempts
  BY <1>1, <1>2 DEF IInv, TimerIsCurrent
<1>4. \A i \in DOMAIN up : up[i] \in [kind : {"join", "leave"}, path : Paths,
                                     attempt : Attempts]
  <2> SUFFICES ASSUME NEW i \in DOMAIN up
               PROVE  up[i] \in [kind : {"join", "leave"}, path : Paths,
                                 attempt : Attempts]
    OBVIOUS
  <2>1. up[i] \in Messages
    BY DEF IInv, Types
  <2>2. up[i].attempt <= attempt /\ up[i].attempt \in Nat
    BY <1>1, <2>1 DEF Messages, IInv, SentLast, TypeInv, LeavesBare
  <2> QED
    BY <1>2, <2>1, <2>2 DEF Messages
<1>5. acks \subseteq [attempt : Attempts, ok : BOOLEAN]
  <2>1. \A a \in acks : a \in Acks /\ a.attempt <= attempt
    BY <1>1 DEF IInv, Types, AckedInRoom, Acks
  <2> QED
    BY <1>2, <2>1 DEF Acks
<1>6. joins \subseteq [path : Paths, attempt : Attempts,
                       pc : {"auth", "workspace", "project", "membership"}]
  <2>1. \A j \in joins : j \in JoinCalls /\ j.attempt <= attempt
    BY <1>1 DEF IInv, Types, ReceivedLast, JoinCalls
  <2> QED
    BY <1>2, <2>1 DEF JoinCalls
<1> QED
  BY <1>3, <1>4, <1>5, <1>6 DEF IInv, Types, TypeInv, TabType, AuthType, TypeOK

\* Every variable keeps its type, and the join attempts stay within their
\* bound: useProjectRealtime makes none by itself.
THEOREM TypeCorrectness == Spec => []TypeOK
<1>1. Init => TypeInv
  BY BoundAssumption DEF Init, TypeInv, TabType, AuthType, Counted, Coming, LeavesBare
<1>2. IInv /\ TypeInv /\ [Next]_vars => TypeInv'
  BY TypeInvStep
<1>3. IInv /\ TypeInv => TypeOK
  BY TypesFollow
<1> QED
  BY RealtimeInvariance, <1>1, <1>2, <1>3, PTL DEF Spec
=============================================================================
