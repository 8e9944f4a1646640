------------------------------ MODULE Sessions -------------------------------
(***************************************************************************)
(* How a browser stays signed in: the refresh tokens of AuthService, and   *)
(* in each tab the axios interceptors, useAuth and useLogin.  All tabs of  *)
(* a browser share one localStorage (token-manager); each has its own      *)
(* memory: the auth.me query, the requests in flight and refreshPromise.   *)
(*                                                                         *)
(* A number stands for a pair of tokens issued together.  The access token *)
(* is a JWT that lives for minutes: whenever one reaches the server it may *)
(* have expired, and nothing else ends it.  Refresh tokens live for days,  *)
(* none expires here.  One account signs in; which password was typed is   *)
(* left out.                                                               *)
(***************************************************************************)
EXTENDS Naturals, FiniteSets

CONSTANTS
  Tabs, Calls, Nil,
  TabOf,        \* the tab each API call belongs to
  MaxEvents     \* bound: API calls, sign-ins, sign-outs, lost connections,
                \* failed statements and page reloads in all

\* One token exists at the start; an event brings at most one more.
Tokens == 1..(1 + MaxEvents)

ASSUME BoundAssumption == MaxEvents \in Nat

\* A missing value, and a sign-out among those who spend tokens, are told from
\* every other.
ASSUME NilAssumption == Nil \notin Tokens \cup Tabs \cup Calls /\ Nil # "signOut"
ASSUME SpenderAssumption == "signOut" \notin Tabs

ASSUME TabAssumption == TabOf \in [Calls -> Tabs]

VARIABLES
  token,        \* the RefreshToken rows: unused, live, revoked
  store,        \* localStorage: the number of the token pair, or Nil
  me,           \* per tab, the auth.me query: user, null, absent, or denied (401)
  call,         \* per API call, where it stands
  flight,       \* per API call, the POST /auth/refresh it has started
  promise,      \* per tab, refreshPromise: the call whose flight is shared
  login, logout,\* per tab, the mutations of useLogin and useAuth
  adrift,       \* refresh tokens of logout posts that no tab waits for any more
  events,       \* how much of the bound is used up
  spentBy,      \* ghost: who spent a token first, a tab's refresh or a sign-out
  lost          \* ghost: tokens spent by a request whose answer its tab never heard

ghosts == <<spentBy, lost>>
vars == <<token, store, me, call, flight, promise, login, logout, adrift, events, ghosts>>

-----------------------------------------------------------------------------
NoCall == [pc |-> "idle", signed |-> FALSE, retried |-> FALSE, on |-> Nil]
NoFlight == [pc |-> "idle", tok |-> Nil, new |-> Nil, awaited |-> FALSE]
NoPost == [pc |-> "idle", tok |-> Nil]

CallsOf(x) == {c \in Calls : TabOf[c] = x}

\* The ladder of useAuth: no token means signed out, a cached identity wins
\* over any later failure, and without one a 401 of auth.me means signed out
\* too; otherwise the tab can only wait or offer a retry.
Status(x) ==
  CASE store = Nil \/ me[x] = "denied"                    -> "unauthenticated"
    [] store # Nil /\ me[x] = "user"                      -> "authenticated"
    [] store # Nil /\ me[x] \notin {"user", "denied"}     -> "unconfirmed"

\* PublicRoute lets whoever is not known to be signed in sign in.  An
\* unconfirmed session is redirected nowhere.
ShowsSignIn(x) == Status(x) # "authenticated"

\* A pair of tokens never issued before.  The bound leaves one for every event.
IsNext(k) == token[k] = "unused" /\ \A j \in 1..(k - 1) : token[j] # "unused"

\* revokedAt is set, whatever it was.
Revoked(k) == [token EXCEPT ![k] = "revoked"]
SpentBy(x, k) == [spentBy EXCEPT ![k] = IF @ = Nil THEN x ELSE @]

-----------------------------------------------------------------------------
(* An API call and its answer.                                             *)

\* The request interceptor attaches what localStorage holds now: nothing, if
\* another tab has signed out and this one has not rendered since.  A tab that
\* does not know its user makes no call but the one for auth.me, once more if
\* that was denied: the sign-in page it is sent to has a useAuth of its own.
SendCall(c) ==
  /\ call[c].pc = "idle" /\ events < MaxEvents
  /\ \/ me[TabOf[c]] = "user"
     \/ /\ me[TabOf[c]] \in {"absent", "denied"} /\ store # Nil
        /\ \A d \in CallsOf(TabOf[c]) : call[d].pc = "idle"
  /\ events' = events + 1
  /\ call' = [call EXCEPT ![c] = [NoCall EXCEPT !.pc = "sent", !.signed = (store # Nil)]]
  /\ me' = [me EXCEPT ![TabOf[c]] = IF @ = "denied" THEN "absent" ELSE @]
  /\ UNCHANGED <<token, store, flight, promise, login, logout, adrift, ghosts>>

\* A failure that is no 401 (a 500, a lost connection) is the caller's.
CallFails(c) ==
  /\ call[c].pc = "sent"
  /\ call' = [call EXCEPT ![c] = NoCall]
  /\ UNCHANGED <<token, store, me, flight, promise, login, logout, adrift, events, ghosts>>

\* JwtStrategy looks at the signature and the expiry only.
AnswerCall(c) ==
  /\ call[c].pc = "sent" /\ call[c].signed
  /\ call' = [call EXCEPT ![c] = NoCall]
  /\ me' = [me EXCEPT ![TabOf[c]] = IF @ = "absent" THEN "user" ELSE @]
  /\ UNCHANGED <<token, store, flight, promise, login, logout, adrift, events, ghosts>>

\* The answer is a 401: no header, or an access token that has expired.
Unauthorized(c) == call[c].pc = "sent"

\* _retry: a second 401 is the caller's.
RejectRetried(c) ==
  /\ Unauthorized(c) /\ call[c].retried
  /\ call' = [call EXCEPT ![c] = NoCall]
  /\ me' = [me EXCEPT ![TabOf[c]] = IF @ = "absent" THEN "denied" ELSE @]
  /\ UNCHANGED <<token, store, flight, promise, login, logout, adrift, events, ghosts>>

\* handleUnrecoverableAuthFailure without a refresh token to try.
RejectSignedOut(c) ==
  /\ Unauthorized(c) /\ ~call[c].retried /\ store = Nil
  /\ call' = [call EXCEPT ![c] = NoCall]
  /\ me' = [me EXCEPT ![TabOf[c]] = "null"]
  /\ UNCHANGED <<token, store, flight, promise, login, logout, adrift, events, ghosts>>

\* refreshPromise ??= ...: another call of this tab is already refreshing.
JoinRefresh(c) ==
  /\ Unauthorized(c) /\ ~call[c].retried /\ store # Nil
  /\ promise[TabOf[c]] # Nil
  /\ call' = [call EXCEPT ![c].pc = "waiting", ![c].retried = TRUE,
                          ![c].on = promise[TabOf[c]]]
  /\ UNCHANGED <<token, store, me, flight, promise, login, logout, adrift, events, ghosts>>

\* Mutant: refreshPromise is not looked at.
StartRefreshAlways(c) ==
  /\ Unauthorized(c) /\ ~call[c].retried /\ store # Nil
  /\ flight[c].pc = "idle"
  /\ call' = [call EXCEPT ![c].pc = "waiting", ![c].retried = TRUE, ![c].on = c]
  /\ flight' = [flight EXCEPT ![c] = [pc |-> "find", tok |-> store, new |-> Nil, awaited |-> TRUE]]
  /\ promise' = [promise EXCEPT ![TabOf[c]] = c]
  /\ UNCHANGED <<token, store, me, login, logout, adrift, events, ghosts>>

\* Mutant: a call without a refresh token to send refreshes all the same.
StartRefreshWithout(c) ==
  /\ Unauthorized(c) /\ ~call[c].retried
  /\ promise[TabOf[c]] = Nil /\ flight[c].pc = "idle"
  /\ call' = [call EXCEPT ![c].pc = "waiting", ![c].retried = TRUE, ![c].on = c]
  /\ flight' = [flight EXCEPT ![c] = [pc |-> "find", tok |-> store, new |-> Nil, awaited |-> TRUE]]
  /\ promise' = [promise EXCEPT ![TabOf[c]] = c]
  /\ UNCHANGED <<token, store, me, login, logout, adrift, events, ghosts>>

StartRefresh(c) ==
  /\ Unauthorized(c) /\ ~call[c].retried /\ store # Nil
  /\ promise[TabOf[c]] = Nil /\ flight[c].pc = "idle"
  /\ call' = [call EXCEPT ![c].pc = "waiting", ![c].retried = TRUE, ![c].on = c]
  /\ flight' = [flight EXCEPT ![c] = [pc |-> "find", tok |-> store, new |-> Nil, awaited |-> TRUE]]
  /\ promise' = [promise EXCEPT ![TabOf[c]] = c]
  /\ UNCHANGED <<token, store, me, login, logout, adrift, events, ghosts>>

-----------------------------------------------------------------------------
(* POST /auth/refresh on the server: the row is read, then rotated without *)
(* looking at it again.                                                    *)

FindRefreshToken(c) ==
  /\ flight[c].pc = "find"
  /\ flight' = [flight EXCEPT ![c].pc =
                  IF token[flight[c].tok] = "live" THEN "rotate" ELSE "refused"]
  /\ UNCHANGED <<token, store, me, call, promise, login, logout, adrift, events, ghosts>>

\* rotateRefreshToken: one transaction.
Rotate(c) ==
  /\ flight[c].pc = "rotate"
  /\ LET k == flight[c].tok IN \E new \in {j \in Tokens : IsNext(j)} :
       /\ token' = [Revoked(k) EXCEPT ![new] = "live"]
       /\ flight' = [flight EXCEPT ![c].pc = "ok", ![c].new = new]
       /\ spentBy' = SpentBy(TabOf[c], k)
       /\ lost' = IF flight[c].awaited THEN lost ELSE lost \cup {k}
  /\ UNCHANGED <<store, me, call, promise, login, logout, adrift, events>>

\* A statement fails: a 500.
RefreshFails(c) ==
  /\ flight[c].pc \in {"find", "rotate"} /\ events < MaxEvents
  /\ events' = events + 1
  /\ flight' = [flight EXCEPT ![c].pc = "failed"]
  /\ UNCHANGED <<token, store, me, call, promise, login, logout, adrift, ghosts>>

-----------------------------------------------------------------------------
(* The answer of the refresh reaches the tab: refreshPromise settles, and  *)
(* every call that awaits it goes on in the same turn of the event loop.   *)

WaitingOn(o) == {c \in Calls : call[c].on = o}
Settled(o) == promise' = [promise EXCEPT ![TabOf[o]] = Nil]
RejectAll(o) == call' = [c \in Calls |-> IF c \in WaitingOn(o) THEN NoCall ELSE call[c]]

\* Mutant: only the new access token is stored.
SettleOkKeepingOld(o) ==
  /\ flight[o].pc = "ok" /\ flight[o].awaited
  /\ call' = [c \in Calls |->
       IF c \in WaitingOn(o)
         THEN [pc |-> "sent", signed |-> TRUE, retried |-> TRUE, on |-> Nil]
         ELSE call[c]]
  /\ flight' = [flight EXCEPT ![o] = NoFlight]
  /\ Settled(o)
  /\ UNCHANGED <<token, store, me, login, logout, adrift, events, ghosts>>

SettleOk(o) ==
  /\ flight[o].pc = "ok" /\ flight[o].awaited
  /\ store' = flight[o].new
  /\ call' = [c \in Calls |->
       IF c \in WaitingOn(o)
         THEN [pc |-> "sent", signed |-> TRUE, retried |-> TRUE, on |-> Nil]
         ELSE call[c]]
  /\ flight' = [flight EXCEPT ![o] = NoFlight]
  /\ Settled(o)
  /\ UNCHANGED <<token, me, login, logout, adrift, events, ghosts>>

\* Only the definitive 401 ends the session.
SettleRefused(o) ==
  /\ flight[o].pc = "refused" /\ flight[o].awaited
  /\ store' = Nil
  /\ me' = [me EXCEPT ![TabOf[o]] = "null"]
  /\ RejectAll(o) /\ Settled(o)
  /\ flight' = [flight EXCEPT ![o] = NoFlight]
  /\ UNCHANGED <<token, login, logout, adrift, events, ghosts>>

\* Mutant: any failed refresh ends the session.
SettleFailedAsLogout(o) ==
  /\ flight[o].pc = "failed" /\ flight[o].awaited
  /\ store' = Nil
  /\ me' = [me EXCEPT ![TabOf[o]] = "null"]
  /\ RejectAll(o) /\ Settled(o)
  /\ flight' = [flight EXCEPT ![o] = NoFlight]
  /\ UNCHANGED <<token, login, logout, adrift, events, ghosts>>

\* Mutant: only the call that started the refresh hears of its failure.
SettleFailedForOne(o) ==
  /\ flight[o].pc = "failed" /\ flight[o].awaited
  /\ call' = [call EXCEPT ![o] = NoCall] /\ Settled(o)
  /\ flight' = [flight EXCEPT ![o] = NoFlight]
  /\ UNCHANGED <<token, store, me, login, logout, adrift, events, ghosts>>

\* Mutant: refreshPromise is reset on success only.
SettleFailedKeepingPromise(o) ==
  /\ flight[o].pc = "failed" /\ flight[o].awaited
  /\ RejectAll(o)
  /\ flight' = [flight EXCEPT ![o] = NoFlight]
  /\ UNCHANGED <<token, store, me, promise, login, logout, adrift, events, ghosts>>

SettleFailed(o) ==
  /\ flight[o].pc = "failed" /\ flight[o].awaited
  /\ RejectAll(o) /\ Settled(o)
  /\ flight' = [flight EXCEPT ![o] = NoFlight]
  /\ UNCHANGED <<token, store, me, login, logout, adrift, events, ghosts>>

\* Nobody hears the answer any more.
Unheard(o) ==
  /\ flight[o].pc \in {"ok", "refused", "failed"} /\ ~flight[o].awaited
  /\ flight' = [flight EXCEPT ![o] = NoFlight]
  /\ UNCHANGED <<token, store, me, call, promise, login, logout, adrift, events, ghosts>>

\* A flight whose tab stops listening: a request still under way may reach
\* the server or not, an answer is lost.
Abandoned(f) ==
  CASE f.pc = "idle" -> {NoFlight}
    [] f.pc = "find" -> {NoFlight, [f EXCEPT !.awaited = FALSE]}
    [] OTHER         -> {[f EXCEPT !.awaited = FALSE]}
LostWith(cs) == lost \cup {flight[c].tok : c \in {d \in cs : flight[d].pc = "ok"}}

\* The connection breaks: to the tab a network error, like a 500.
Disconnect(o) ==
  /\ flight[o].awaited /\ flight[o].pc # "failed" /\ events < MaxEvents
  /\ events' = events + 1
  /\ RejectAll(o) /\ Settled(o)
  /\ \E f \in Abandoned(flight[o]) : flight' = [flight EXCEPT ![o] = f]
  /\ lost' = LostWith({o})
  /\ UNCHANGED <<token, store, me, login, logout, adrift, spentBy>>

-----------------------------------------------------------------------------
(* Signing out: POST /auth/logout with skipRefresh, any failure ignored,   *)
(* then clearTokens and an empty query cache.                              *)

\* Without a refresh token there is nothing to post.
StartLogout(x) ==
  /\ me[x] = "user" /\ logout[x].pc = "idle" /\ events < MaxEvents
  /\ events' = events + 1
  /\ logout' = [logout EXCEPT ![x] =
                  [pc |-> IF store = Nil THEN "done" ELSE "find", tok |-> store]]
  /\ UNCHANGED <<token, store, me, call, flight, promise, login, adrift, ghosts>>

\* The post of a tab that stops listening goes on at the server, if it got there.
Adrift(x) ==
  IF logout[x].pc \in {"find", "revoke"}
    THEN adrift' \in {adrift, adrift \cup {logout[x].tok}}
    ELSE UNCHANGED adrift

\* A token that is found revoked is a 401, which the tab takes like any failure.
LogoutFind(x) ==
  /\ logout[x].pc = "find"
  /\ logout' = [logout EXCEPT ![x] = IF token[@.tok] = "live"
                  THEN [@ EXCEPT !.pc = "revoke"] ELSE [pc |-> "done", tok |-> Nil]]
  /\ UNCHANGED <<token, store, me, call, flight, promise, login, adrift, events, ghosts>>

LogoutRevoke(x) ==
  /\ logout[x].pc = "revoke"
  /\ token' = Revoked(logout[x].tok)
  /\ spentBy' = SpentBy("signOut", logout[x].tok)
  /\ logout' = [logout EXCEPT ![x].pc = "done"]
  /\ UNCHANGED <<store, me, call, flight, promise, login, adrift, events, lost>>

LogoutLost(x) ==
  /\ logout[x].pc \in {"find", "revoke"} /\ events < MaxEvents
  /\ events' = events + 1
  /\ Adrift(x)
  /\ logout' = [logout EXCEPT ![x] = [pc |-> "done", tok |-> Nil]]
  /\ UNCHANGED <<token, store, me, call, flight, promise, login, ghosts>>

\* Nobody waits for the server any more, which revokes what it finds alive.  A
\* revocation after somebody else's changes nothing, so find and revoke are one.
LateLogout(k) ==
  /\ k \in adrift
  /\ adrift' = adrift \ {k}
  /\ IF token[k] = "live"
       THEN token' = Revoked(k) /\ spentBy' = SpentBy("signOut", k) /\ lost' = lost \cup {k}
       ELSE UNCHANGED <<token, ghosts>>
  /\ UNCHANGED <<store, me, call, flight, promise, login, logout, events>>

FinishLogout(x) ==
  /\ logout[x].pc = "done"
  /\ store' = Nil
  /\ me' = [me EXCEPT ![x] = "null"]
  /\ logout' = [logout EXCEPT ![x] = NoPost]
  /\ UNCHANGED <<token, call, flight, promise, login, adrift, events, ghosts>>

-----------------------------------------------------------------------------
(* Signing in: POST /auth/login, setTokens, then auth.me is read with the  *)
(* token that has just been issued.                                        *)

StartLogin(x) ==
  /\ ShowsSignIn(x) /\ login[x].pc = "idle" /\ events < MaxEvents
  /\ events' = events + 1
  /\ login' = [login EXCEPT ![x].pc = "issue"]
  /\ UNCHANGED <<token, store, me, call, flight, promise, logout, adrift, ghosts>>

IssueTokens(x) ==
  /\ login[x].pc = "issue"
  /\ \E new \in {j \in Tokens : IsNext(j)} :
       /\ token' = [token EXCEPT ![new] = "live"]
       /\ login' = [login EXCEPT ![x] = [pc |-> "issued", tok |-> new]]
  /\ UNCHANGED <<store, me, call, flight, promise, logout, adrift, events, ghosts>>

SetTokens(x) ==
  /\ login[x].pc = "issued"
  /\ store' = login[x].tok
  /\ login' = [login EXCEPT ![x].pc = "getMe"]
  /\ UNCHANGED <<token, me, call, flight, promise, logout, adrift, events, ghosts>>

FinishLogin(x) ==
  /\ login[x].pc = "getMe"
  /\ \/ me' = [me EXCEPT ![x] = "user"] /\ UNCHANGED events
     \/ events < MaxEvents /\ events' = events + 1 /\ UNCHANGED me
  /\ login' = [login EXCEPT ![x] = NoPost]
  /\ UNCHANGED <<token, store, call, flight, promise, logout, adrift, ghosts>>

-----------------------------------------------------------------------------
\* The tab is reloaded: its memory is gone, localStorage stays, and what it
\* had sent goes on at the server.
Reload(x) ==
  /\ events < MaxEvents
  /\ events' = events + 1
  /\ me' = [me EXCEPT ![x] = "absent"]
  /\ call' = [c \in Calls |-> IF TabOf[c] = x THEN NoCall ELSE call[c]]
  /\ \E f \in [Calls -> UNION {Abandoned(flight[c]) : c \in Calls}] :
       /\ \A c \in Calls : f[c] \in IF TabOf[c] = x THEN Abandoned(flight[c]) ELSE {flight[c]}
       /\ flight' = f
  /\ Adrift(x)
  /\ lost' = LostWith({c \in CallsOf(x) : flight[c].awaited})
               \cup {k \in {logout[x].tok} \ {Nil} : logout[x].pc = "done"}
  /\ promise' = [promise EXCEPT ![x] = Nil]
  /\ login' = [login EXCEPT ![x] = NoPost]
  /\ logout' = [logout EXCEPT ![x] = NoPost]
  /\ UNCHANGED <<token, store, spentBy>>

CallStep(c) ==
  \/ AnswerCall(c) \/ CallFails(c) \/ RejectRetried(c) \/ RejectSignedOut(c)
  \/ JoinRefresh(c) \/ StartRefresh(c)
  \/ FindRefreshToken(c) \/ Rotate(c)
  \/ SettleOk(c) \/ SettleRefused(c) \/ SettleFailed(c) \/ Unheard(c)

TabStep(x) ==
  \/ LogoutFind(x) \/ LogoutRevoke(x) \/ FinishLogout(x)
  \/ IssueTokens(x) \/ SetTokens(x) \/ FinishLogin(x)

\* Nothing is on its way to the server or back.
Quiet == /\ \A c \in Calls : call[c].pc # "sent" /\ flight[c].pc = "idle"
         /\ \A x \in Tabs : login[x].pc = "idle" /\ logout[x].pc = "idle"

\* The bound is used up or nobody does anything more.
Rest == Quiet /\ UNCHANGED vars

Init ==
  /\ token = [k \in Tokens |-> IF k = 1 THEN "live" ELSE "unused"]
  /\ store = 1
  /\ me = [x \in Tabs |-> "user"]
  /\ call = [c \in Calls |-> NoCall]
  /\ flight = [c \in Calls |-> NoFlight]
  /\ promise = [x \in Tabs |-> Nil]
  /\ login = [x \in Tabs |-> NoPost] /\ logout = [x \in Tabs |-> NoPost]
  /\ adrift = {} /\ events = 0
  /\ spentBy = [k \in Tokens |-> Nil] /\ lost = {}

Next ==
  \/ \E c \in Calls : SendCall(c) \/ CallStep(c) \/ RefreshFails(c) \/ Disconnect(c)
  \/ \E x \in Tabs : StartLogout(x) \/ StartLogin(x) \/ TabStep(x) \/ LogoutLost(x) \/ Reload(x)
  \/ \E k \in adrift : LateLogout(k)
  \/ Rest

\* Requests are answered and promises settle; nobody has to click or reload.
Fairness == /\ \A c \in Calls : WF_vars(CallStep(c))
            /\ \A x \in Tabs : WF_vars(TabStep(x))

Spec == Init /\ [][Next]_vars /\ Fairness

-----------------------------------------------------------------------------
(* Properties.                                                             *)

Numbers == Tokens \cup {Nil}

TypeOK ==
  /\ token \in [Tokens -> {"unused", "live", "revoked"}]
  /\ store \in Numbers
  /\ me \in [Tabs -> {"user", "null", "absent", "denied"}]
  /\ call \in [Calls -> [pc : {"idle", "sent", "waiting"}, signed : BOOLEAN,
                         retried : BOOLEAN, on : Calls \cup {Nil}]]
  /\ flight \in [Calls -> [pc : {"idle", "find", "rotate", "ok", "refused", "failed"},
                           tok : Numbers, new : Numbers, awaited : BOOLEAN]]
  /\ \A c \in Calls : flight[c].pc # "idle" => flight[c].tok \in Tokens
  /\ promise \in [Tabs -> Calls \cup {Nil}]
  /\ login \in [Tabs -> [pc : {"idle", "issue", "issued", "getMe"}, tok : Numbers]]
  /\ logout \in [Tabs -> [pc : {"idle", "find", "revoke", "done"}, tok : Numbers]]
  /\ adrift \subseteq Tokens /\ events \in 0..MaxEvents
  /\ spentBy \in [Tokens -> Tabs \cup {Nil, "signOut"}] /\ lost \subseteq Tokens

\* A refresh is shared, not repeated: a call waits for exactly the flight its
\* tab remembers in refreshPromise, and a tab that remembers one is waiting.
PromiseIsShared ==
  /\ \A c \in Calls : call[c].pc = "waiting" =>
       promise[TabOf[c]] = call[c].on /\ flight[call[c].on].awaited
  /\ \A x \in Tabs : promise[x] # Nil =>
       flight[promise[x]].awaited /\ call[promise[x]].on = promise[x]

\* When nothing is under way, the refresh token in localStorage can be used,
\* however the tabs' refreshes, sign-ins and sign-outs overlapped.  The one
\* exception: the server spent it for a request whose answer no tab heard.
StoredTokenIsAlive ==
  Quiet /\ store # Nil /\ store \notin lost => token[store] = "live"

\* A refresh that is refused, which signs its tab out, is never the tab's own
\* doing: another tab or a sign-out spent the token first, or it was spent for
\* a request whose answer was lost.  Within a tab refreshPromise keeps two
\* calls from spending one token twice.
KickedOutByOthers ==
  \A o \in Calls : flight[o].pc = "refused" /\ flight[o].awaited =>
    \/ spentBy[flight[o].tok] # TabOf[o]
    \/ flight[o].tok \in lost

\* A tab that was not signed out becomes so only when some tab finishes a
\* sign-out or hears that its refresh token is refused, or when the tab asks
\* who it is and is denied with a token just refreshed; a lost connection, a
\* 500 or a reload of any tab does not do it.
SignedOutForAReason ==
  [][\A x \in Tabs : Status(x) # "unauthenticated" /\ Status(x)' = "unauthenticated" =>
       \/ \E y \in Tabs : logout[y].pc = "done" /\ logout'[y].pc = "idle"
       \/ \E o \in Calls : flight[o].pc = "refused" /\ flight'[o].pc = "idle"
       \/ \E c \in CallsOf(x) : me[x] = "absent" /\ call[c].retried /\ call'[c].pc = "idle"]_vars

\* Every API call is settled, the ones that wait for another call's refresh too.
CallsSettle == \A c \in Calls : call[c].pc # "idle" ~> call[c].pc = "idle"
=============================================================================
