--------------------------- MODULE SessionsProofs ----------------------------
(***************************************************************************)
(* Theorems about Sessions for any number of tabs, calls and events: the   *)
(* refresh token in localStorage is good once everything is quiet, and a   *)
(* tab signs nobody out by its own refreshes.                              *)
(*                                                                         *)
(* Two facts carry the proof.  refreshPromise and the flight it stands for *)
(* come and go together, so a tab has at most one flight that is listened  *)
(* to (Shared).  And a token on its way to a tab is in nobody else's hands *)
(* (Untouched), so a tab that stores one stores a living one.              *)
(***************************************************************************)
EXTENDS Sessions, TLAPS

\* The types of the state, field by field.
CallRecord == [pc : {"idle", "sent", "waiting"}, signed : BOOLEAN,
               retried : BOOLEAN, on : Calls \cup {Nil}]
FlightRecord == [pc : {"idle", "find", "rotate", "ok", "refused", "failed"},
                 tok : Numbers, new : Numbers, awaited : BOOLEAN]
LoginRecord == [pc : {"idle", "issue", "issued", "getMe"}, tok : Numbers]
LogoutRecord == [pc : {"idle", "find", "revoke", "done"}, tok : Numbers]

Types ==
  /\ token \in [Tokens -> {"unused", "live", "revoked"}]
  /\ store \in Numbers
  /\ me \in [Tabs -> {"user", "null", "absent", "denied"}]
  /\ call \in [Calls -> CallRecord]
  /\ flight \in [Calls -> FlightRecord]
  /\ promise \in [Tabs -> Calls \cup {Nil}]
  /\ login \in [Tabs -> LoginRecord]
  /\ logout \in [Tabs -> LogoutRecord]
  /\ adrift \subseteq Tokens /\ events \in 0..MaxEvents
  /\ spentBy \in [Tokens -> Tabs \cup {Nil, "signOut"}] /\ lost \subseteq Tokens

\* Calls wait for the flight their tab remembers, and a flight somebody listens
\* to is the one its tab remembers.
Shared ==
  /\ \A c \in Calls :
       IF call[c].pc = "waiting"
         THEN call[c].on # Nil /\ promise[TabOf[c]] = call[c].on
         ELSE call[c].on = Nil
  /\ \A x \in Tabs : promise[x] # Nil =>
       /\ TabOf[promise[x]] = x /\ flight[promise[x]].awaited
       /\ call[promise[x]].on = promise[x]
  /\ \A o \in Calls : flight[o].awaited =>
       /\ promise[TabOf[o]] = o /\ flight[o].pc # "idle"

\* Whoever holds a token holds one that has been issued.
Issued(k) == k \in Tokens /\ token[k] # "unused"
AllIssued ==
  /\ store # Nil => Issued(store)
  /\ \A c \in Calls :
       /\ flight[c].pc # "idle" => Issued(flight[c].tok)
       /\ flight[c].pc = "ok" => Issued(flight[c].new)
  /\ \A x \in Tabs :
       /\ login[x].pc \in {"issued", "getMe"} => Issued(login[x].tok)
       /\ logout[x].pc \in {"find", "revoke"} => logout[x].tok # Nil
       /\ logout[x].tok # Nil => Issued(logout[x].tok)
  /\ \A k \in adrift : Issued(k)
  /\ \A k \in Tokens : token[k] = "unused" => spentBy[k] = Nil

\* A token that an answer carries is in nobody's hands yet.
Untouched(k) ==
  /\ store # k /\ token[k] = "live" /\ spentBy[k] = Nil /\ k \notin adrift
  /\ \A c \in Calls : flight[c].pc # "idle" => flight[c].tok # k
  /\ \A x \in Tabs : logout[x].tok # k
AnswersUntouched ==
  /\ \A o \in Calls : flight[o].pc = "ok" => Untouched(flight[o].new)
  /\ \A x \in Tabs : login[x].pc = "issued" => Untouched(login[x].tok)
  /\ \A o \in Calls, p \in Calls :
       o # p /\ flight[o].pc = "ok" /\ flight[p].pc = "ok" => flight[o].new # flight[p].new
  /\ \A x \in Tabs, y \in Tabs :
       x # y /\ login[x].pc = "issued" /\ login[y].pc = "issued" => login[x].tok # login[y].tok
  /\ \A o \in Calls, x \in Tabs :
       flight[o].pc = "ok" /\ login[x].pc = "issued" => flight[o].new # login[x].tok

\* Flight o has spent token k, and its tab is about to hear of it.
Hears(o, k) == flight[o].awaited /\ flight[o].pc = "ok" /\ flight[o].tok = k

\* A token a tab spent itself is in use only by the flight that spent it.
SpentIsHeard(k, x) ==
  (spentBy[k] = x /\ k \notin lost) =>
    /\ store = k => \E o \in Calls : TabOf[o] = x /\ Hears(o, k)
    /\ \A o \in Calls :
         TabOf[o] = x /\ flight[o].awaited /\ flight[o].tok = k => flight[o].pc = "ok"

\* A token in localStorage is good, or about to be replaced or removed.
StoreIsGood ==
  store # Nil /\ store \notin lost =>
    \/ token[store] = "live"
    \/ \E o \in Calls : Hears(o, store)
    \/ \E x \in Tabs : logout[x].pc = "done" /\ logout[x].tok = store

IInv ==
  /\ Types /\ Shared /\ AllIssued /\ AnswersUntouched
  /\ \A k \in Tokens, x \in Tabs : SpentIsHeard(k, x)
  /\ StoreIsGood

-----------------------------------------------------------------------------
(* What most steps have in common.                                         *)

\* The tokens' facts outlive a step that issues, spends and stores none: flights
\* go on or are dropped, what was in somebody's hands passes to nobody new, and
\* an answer that gets lost is counted as lost.
FlightGoesOn(c) ==
  /\ flight'[c].pc # "idle" => flight[c].pc # "idle" /\ flight'[c].tok = flight[c].tok
  /\ flight'[c].pc = "ok" => flight[c].pc = "ok" /\ flight'[c].new = flight[c].new
  /\ flight'[c].awaited =>
       /\ flight[c].awaited /\ flight'[c].tok = flight[c].tok
       /\ flight[c].pc = "ok" => flight'[c].pc = "ok"
  /\ \A k \in Tokens : Hears(c, k) /\ store' = k =>
       \/ k \in lost'
       \/ flight'[c].awaited /\ flight'[c].pc = "ok" /\ flight'[c].tok = k

TabGoesOn(x) ==
  /\ login'[x].pc \in {"issued", "getMe"} =>
       /\ login[x].pc \in {"issued", "getMe"} /\ login'[x].tok = login[x].tok
  /\ login'[x].pc = "issued" => login[x].pc = "issued"
  /\ logout'[x].tok \in {Nil, store, logout[x].tok}
  /\ logout'[x].pc \in {"find", "revoke"} => logout'[x].tok # Nil
  /\ logout[x].pc = "done" /\ logout[x].tok # Nil /\ store' = logout[x].tok =>
       \/ store' \in lost'
       \/ logout'[x].pc = "done" /\ logout'[x].tok = logout[x].tok

\* What drifts is what a tab had posted.
DriftGoesOn ==
  \A k \in adrift' : k \in adrift \/ \E x \in Tabs : logout[x].tok = k /\ k # Nil

TokensInv ==
  /\ AllIssued /\ AnswersUntouched
  /\ \A k \in Tokens, x \in Tabs : SpentIsHeard(k, x)
  /\ StoreIsGood

\* Tokens stay as good as they are over a step that issues and spends none.
LEMMA TokensKept ==
  ASSUME IInv, token' = token, spentBy' = spentBy, lost \subseteq lost',
         store' \in {store, Nil},
         \A c \in Calls : FlightGoesOn(c), \A x \in Tabs : TabGoesOn(x), DriftGoesOn
  PROVE  TokensInv'
<1>1. Types /\ AllIssued /\ AnswersUntouched /\ StoreIsGood
      /\ \A k \in Tokens, x \in Tabs : SpentIsHeard(k, x)
  BY DEF IInv
<1>2. Nil \notin Tokens
  BY NilAssumption
<1>3. AllIssued'
  <2>1. store' # Nil => Issued(store')
    BY <1>1 DEF AllIssued
  <2>2. ASSUME NEW c \in Calls
        PROVE  /\ flight'[c].pc # "idle" => Issued(flight'[c].tok)
               /\ flight'[c].pc = "ok" => Issued(flight'[c].new)
    BY <1>1 DEF AllIssued, FlightGoesOn
  <2>3. ASSUME NEW x \in Tabs
        PROVE  /\ login'[x].pc \in {"issued", "getMe"} => Issued(login'[x].tok)
               /\ logout'[x].pc \in {"find", "revoke"} => logout'[x].tok # Nil
               /\ logout'[x].tok # Nil => Issued(logout'[x].tok)
    BY <1>1 DEF AllIssued, TabGoesOn
  <2>4. \A k \in adrift' : Issued(k)
    BY <1>1 DEF AllIssued, DriftGoesOn
  <2> QED BY <1>1, <2>1, <2>2, <2>3, <2>4 DEF AllIssued, Issued
<1>4. ASSUME NEW k \in Tokens, Untouched(k) PROVE Untouched(k)'
  <2>1. ASSUME NEW c \in Calls, flight'[c].pc # "idle" PROVE flight'[c].tok # k
    BY <1>4, <2>1 DEF Untouched, FlightGoesOn
  <2>2. ASSUME NEW x \in Tabs PROVE logout'[x].tok # k
    BY <1>2, <1>4 DEF Untouched, TabGoesOn
  <2>3. k \notin adrift'
    BY <1>4 DEF Untouched, DriftGoesOn
  <2> QED BY <1>2, <1>4, <2>1, <2>2, <2>3 DEF Untouched
<1>5. AnswersUntouched'
  <2>1. \A o \in Calls : flight'[o].pc = "ok" =>
          flight[o].pc = "ok" /\ flight'[o].new = flight[o].new /\ flight[o].new \in Tokens
    BY <1>1 DEF FlightGoesOn, AllIssued, Issued
  <2>2. \A x \in Tabs : login'[x].pc = "issued" =>
          login[x].pc = "issued" /\ login'[x].tok = login[x].tok /\ login[x].tok \in Tokens
    BY <1>1 DEF TabGoesOn, AllIssued, Issued
  <2> QED BY <1>1, <1>4, <2>1, <2>2 DEF AnswersUntouched
<1>6. ASSUME NEW k \in Tokens, NEW x \in Tabs PROVE SpentIsHeard(k, x)'
  <2> SUFFICES ASSUME spentBy[k] = x, k \notin lost'
               PROVE  /\ store' = k => \E o \in Calls : TabOf[o] = x /\ Hears(o, k)'
                      /\ \A o \in Calls : TabOf[o] = x /\ flight'[o].awaited
                           /\ flight'[o].tok = k => flight'[o].pc = "ok"
    BY DEF SpentIsHeard, Hears
  <2>1. SpentIsHeard(k, x) /\ k \notin lost
    BY <1>1
  <2>2. ASSUME store' = k PROVE \E o \in Calls : TabOf[o] = x /\ Hears(o, k)'
    <3>1. PICK o \in Calls : TabOf[o] = x /\ Hears(o, k)
      BY <1>2, <2>1, <2>2 DEF SpentIsHeard
    <3> QED BY <2>2, <3>1 DEF FlightGoesOn, Hears
  <2>3. ASSUME NEW o \in Calls, TabOf[o] = x, flight'[o].awaited, flight'[o].tok = k
        PROVE  flight'[o].pc = "ok"
    BY <2>1, <2>3 DEF FlightGoesOn, SpentIsHeard
  <2> QED BY <2>2, <2>3
<1>7. StoreIsGood'
  <2> SUFFICES ASSUME store' # Nil, store' \notin lost'
               PROVE  \/ token[store'] = "live"
                      \/ \E o \in Calls : Hears(o, store)'
                      \/ \E x \in Tabs : logout'[x].pc = "done" /\ logout'[x].tok = store'
    BY DEF StoreIsGood
  <2>1. store' = store /\ store \in Tokens /\ store \notin lost
    BY <1>1 DEF AllIssued, Issued
  <2>2. CASE token[store] = "live"
    BY <2>1, <2>2
  <2>3. ASSUME NEW o \in Calls, Hears(o, store) PROVE Hears(o, store)'
    BY <2>1, <2>3 DEF FlightGoesOn, Hears
  <2>4. ASSUME NEW x \in Tabs, logout[x].pc = "done", logout[x].tok = store
        PROVE  logout'[x].pc = "done" /\ logout'[x].tok = store'
    BY <2>1, <2>4 DEF TabGoesOn
  <2> QED BY <1>1, <2>1, <2>2, <2>3, <2>4 DEF StoreIsGood
<1> QED BY <1>3, <1>5, <1>6, <1>7 DEF TokensInv

\* Shared outlives a step in which no refresh begins or ends for a tab.
LEMMA SharedKept ==
  ASSUME Types, Shared, promise' = promise,
         \A c \in Calls : /\ call'[c].pc = "waiting" <=> call[c].pc = "waiting"
                          /\ call'[c].on = call[c].on
                          /\ flight'[c].awaited = flight[c].awaited
                          /\ flight'[c].awaited => flight'[c].pc # "idle"
  PROVE  Shared'
<1>1. ASSUME NEW c \in Calls
      PROVE  IF call'[c].pc = "waiting"
               THEN call'[c].on # Nil /\ promise'[TabOf[c]] = call'[c].on
               ELSE call'[c].on = Nil
  BY DEF Shared
<1>2. ASSUME NEW x \in Tabs, promise'[x] # Nil
      PROVE  /\ TabOf[promise'[x]] = x /\ flight'[promise'[x]].awaited
             /\ call'[promise'[x]].on = promise'[x]
  BY <1>2 DEF Types, Shared
<1>3. ASSUME NEW o \in Calls, flight'[o].awaited
      PROVE  promise'[TabOf[o]] = o /\ flight'[o].pc # "idle"
  BY <1>3, TabAssumption DEF Shared
<1> QED BY <1>1, <1>2, <1>3 DEF Shared


\* A tab that does nothing.
LEMMA AllStay ==
  ASSUME IInv, login' = login, logout' = logout PROVE \A x \in Tabs : TabGoesOn(x)
<1>1. \A x \in Tabs : logout[x].pc \in {"find", "revoke"} => logout[x].tok # Nil
  BY DEF IInv, AllIssued
<1> QED BY <1>1 DEF TabGoesOn

\* Calls come and go, or the tab itself does something: the flights stay.
LEMMA NoFlightMoves ==
  ASSUME IInv, Types', UNCHANGED <<token, flight, promise, spentBy, lost>>,
         store' \in {store, Nil}, \A x \in Tabs : TabGoesOn(x), DriftGoesOn,
         \A c \in Calls : /\ call'[c].pc = "waiting" <=> call[c].pc = "waiting"
                          /\ call'[c].on = call[c].on
  PROVE  IInv'
<1>1. Types /\ Shared
  BY DEF IInv
<1>2. Shared'
  <2>1. \A c \in Calls : flight[c].awaited => flight[c].pc # "idle"
    BY <1>1 DEF Shared
  <2> QED BY <1>1, <2>1, SharedKept
<1>3. \A c \in Calls : FlightGoesOn(c)
  BY DEF FlightGoesOn, Hears
<1>4. TokensInv'
  BY <1>3, TokensKept
<1> QED BY <1>2, <1>4 DEF IInv, TokensInv

-----------------------------------------------------------------------------
(* API calls.                                                              *)

\* A call is sent, answered, or refused without a refresh.
LEMMA SendCallStep ==
  ASSUME IInv, NEW c \in Calls, SendCall(c) PROVE IInv'
<1>1. Types /\ Shared
  BY DEF IInv
<1> DEFINE new == [NoCall EXCEPT !.pc = "sent", !.signed = (store # Nil)]
<1>2. /\ call' = [call EXCEPT ![c] = new] /\ call[c].pc = "idle"
      /\ UNCHANGED <<token, store, flight, promise, login, logout, adrift, spentBy, lost>>
      /\ events < MaxEvents /\ events' = events + 1
      /\ me' = [me EXCEPT ![TabOf[c]] = IF @ = "denied" THEN "absent" ELSE @]
  BY DEF SendCall, ghosts
<1>3. new \in CallRecord /\ new.pc = "sent" /\ new.on = Nil
  BY DEF NoCall, CallRecord
<1> HIDE DEF new
<1>4. Types'
  <2>1. call' \in [Calls -> CallRecord]
    BY <1>1, <1>2, <1>3 DEF Types
  <2>2. me' \in [Tabs -> {"user", "null", "absent", "denied"}]
    BY <1>1, <1>2 DEF Types
  <2>3. events' \in 0..MaxEvents
    BY <1>1, <1>2, BoundAssumption DEF Types
  <2> QED BY <1>1, <1>2, <2>1, <2>2, <2>3 DEF Types
<1>5. \A d \in Calls : /\ call'[d].pc = "waiting" <=> call[d].pc = "waiting"
                       /\ call'[d].on = call[d].on
  BY <1>1, <1>2, <1>3 DEF Types, Shared
<1>6. \A x \in Tabs : TabGoesOn(x)
  BY <1>2, AllStay
<1> QED BY <1>2, <1>4, <1>5, <1>6, NoFlightMoves DEF DriftGoesOn

\* The caller gets its answer.
LEMMA CallEndsStep ==
  ASSUME IInv, NEW c \in Calls,
         AnswerCall(c) \/ CallFails(c) \/ RejectRetried(c) \/ RejectSignedOut(c)
  PROVE  IInv'
<1>1. Types /\ Shared
  BY DEF IInv
<1>2. /\ call' = [call EXCEPT ![c] = NoCall] /\ call[c].pc = "sent"
      /\ UNCHANGED <<token, store, flight, promise, login, logout, adrift, spentBy, lost, events>>
      /\ \/ UNCHANGED me
         \/ \E m \in {"user", "null", "denied", me[TabOf[c]]} :
              me' = [me EXCEPT ![TabOf[c]] = m]
  BY DEF AnswerCall, CallFails, RejectRetried, RejectSignedOut, Unauthorized, ghosts
<1>3. NoCall \in CallRecord /\ NoCall.pc = "idle" /\ NoCall.on = Nil
  BY DEF NoCall, CallRecord
<1>4. Types'
  <2>1. call' \in [Calls -> CallRecord]
    BY <1>1, <1>2, <1>3 DEF Types
  <2>2. me' \in [Tabs -> {"user", "null", "absent", "denied"}]
    BY <1>1, <1>2, TabAssumption DEF Types
  <2> QED BY <1>1, <1>2, <2>1, <2>2 DEF Types
<1>5. \A d \in Calls : /\ call'[d].pc = "waiting" <=> call[d].pc = "waiting"
                       /\ call'[d].on = call[d].on
  BY <1>1, <1>2, <1>3 DEF Types, Shared
<1>6. \A x \in Tabs : TabGoesOn(x)
  BY <1>2, AllStay
<1> QED BY <1>2, <1>4, <1>5, <1>6, NoFlightMoves DEF DriftGoesOn

-----------------------------------------------------------------------------
(* Signing out and in, as far as no token is issued, spent or stored.      *)

\* The tab's post to the server moves on.
LEMMA LogoutStep ==
  ASSUME IInv, NEW x \in Tabs,
         StartLogout(x) \/ LogoutFind(x) \/ LogoutLost(x) \/ FinishLogout(x)
  PROVE  IInv'
<1>1. Types /\ AllIssued
  BY DEF IInv
<1>2. PICK p \in LogoutRecord :
        /\ logout' = [logout EXCEPT ![x] = p]
        /\ p.tok \in {Nil, store, logout[x].tok}
        /\ p.pc \in {"find", "revoke"} => p.tok # Nil
        /\ logout[x].pc = "done" => store' = Nil
  <2> DEFINE q == logout[x]
  <2>1. q \in LogoutRecord /\ store \in Numbers /\ Nil \in Numbers
        /\ logout \in [Tabs -> LogoutRecord]
    BY <1>1 DEF Types, Numbers
  <2>2. q.pc \in {"find", "revoke"} => q.tok # Nil
    BY <1>1 DEF AllIssued
  <2>3. CASE StartLogout(x)
    <3> DEFINE p == [pc |-> IF store = Nil THEN "done" ELSE "find", tok |-> store]
    <3>1. logout' = [logout EXCEPT ![x] = p] /\ q.pc = "idle"
      BY <2>3 DEF StartLogout
    <3>2. p \in LogoutRecord /\ p.tok = store /\ (p.pc \in {"find", "revoke"} => store # Nil)
      BY <2>1 DEF LogoutRecord
    <3> QED BY <3>1, <3>2
  <2>4. CASE LogoutFind(x) \/ LogoutLost(x)
    <3> DEFINE p == [q EXCEPT !.pc = "revoke"]
               over == [pc |-> "done", tok |-> Nil]
    <3>1. logout' \in {[logout EXCEPT ![x] = p], [logout EXCEPT ![x] = over]}
          /\ q.pc \in {"find", "revoke"}
      BY <2>1, <2>4 DEF LogoutFind, LogoutLost
    <3>2. p \in LogoutRecord /\ p.tok = q.tok /\ over \in LogoutRecord /\ over.tok = Nil
          /\ over.pc = "done"
      BY <2>1 DEF LogoutRecord
    <3> HIDE DEF p, over
    <3> QED BY <2>2, <3>1, <3>2
  <2>5. CASE FinishLogout(x)
    <3>1. logout' = [logout EXCEPT ![x] = NoPost] /\ store' = Nil
      BY <2>5 DEF FinishLogout
    <3>2. NoPost \in LogoutRecord /\ NoPost.tok = Nil /\ NoPost.pc = "idle"
      BY <2>1 DEF NoPost, LogoutRecord
    <3> QED BY <3>1, <3>2
  <2> QED BY <2>3, <2>4, <2>5
<1>3. /\ UNCHANGED <<token, call, flight, promise, login, spentBy, lost>>
      /\ store' \in {store, Nil}
      /\ events' \in {events, events + 1} /\ (events' # events => events < MaxEvents)
      /\ me' \in {me, [me EXCEPT ![x] = "null"]}
      /\ adrift' \in {adrift, adrift \cup {logout[x].tok}}
      /\ adrift' # adrift => logout[x].tok # Nil
  BY <1>1 DEF StartLogout, LogoutFind, LogoutLost, FinishLogout, Adrift, AllIssued, ghosts
<1>4. Types'
  <2>1. logout' \in [Tabs -> LogoutRecord]
    BY <1>1, <1>2 DEF Types
  <2>2. me' \in [Tabs -> {"user", "null", "absent", "denied"}]
    BY <1>1, <1>3 DEF Types
  <2>3. events' \in 0..MaxEvents
    BY <1>1, <1>3, BoundAssumption DEF Types
  <2>4. store' \in Numbers /\ adrift' \subseteq Tokens
    BY <1>1, <1>3 DEF Types, Numbers, AllIssued, Issued
  <2> QED BY <1>1, <1>3, <2>1, <2>2, <2>3, <2>4 DEF Types
<1>5. ASSUME NEW y \in Tabs PROVE TabGoesOn(y)
  <2>1. CASE y = x
    <3>1. logout'[y] = p
      BY <1>1, <1>2, <2>1 DEF Types
    <3>2. logout[y].pc = "done" => store' = Nil
      BY <1>2, <2>1
    <3> HIDE DEF Types
    <3> QED BY <1>2, <1>3, <2>1, <3>1, <3>2 DEF TabGoesOn
  <2>2. CASE y # x
    <3>1. logout'[y] = logout[y]
      BY <1>1, <1>2, <2>2 DEF Types
    <3> QED BY <1>1, <1>3, <3>1 DEF TabGoesOn, AllIssued
  <2> QED BY <2>1, <2>2
<1>6. DriftGoesOn
  BY <1>3 DEF DriftGoesOn
<1>7. \A c \in Calls : call' = call
  BY <1>3
<1> QED BY <1>3, <1>4, <1>5, <1>6, <1>7, NoFlightMoves

\* The sign-in form is sent, or auth.me has been read with the new token.
LEMMA LoginStep ==
  ASSUME IInv, NEW x \in Tabs, StartLogin(x) \/ FinishLogin(x) PROVE IInv'
<1>1. Types /\ AllIssued
  BY DEF IInv
<1>2. PICK p \in LoginRecord :
        login' = [login EXCEPT ![x] = p] /\ p.pc \in {"idle", "issue"}
  <2>1. login \in [Tabs -> LoginRecord] /\ login[x] \in LoginRecord
    BY <1>1 DEF Types
  <2>2. CASE StartLogin(x)
    <3> DEFINE p == [login[x] EXCEPT !.pc = "issue"]
    <3>1. login' = [login EXCEPT ![x] = p]
      BY <2>2 DEF StartLogin
    <3>2. p \in LoginRecord /\ p.pc = "issue"
      BY <2>1 DEF LoginRecord
    <3> HIDE DEF p
    <3> QED BY <3>1, <3>2
  <2>3. CASE FinishLogin(x)
    <3>1. NoPost \in LoginRecord /\ NoPost.pc = "idle"
      BY DEF NoPost, LoginRecord, Numbers
    <3> QED BY <2>3, <3>1 DEF FinishLogin
  <2> QED BY <2>2, <2>3
<1>3. /\ UNCHANGED <<token, store, call, flight, promise, logout, adrift, spentBy, lost>>
      /\ events' \in {events, events + 1} /\ (events' # events => events < MaxEvents)
      /\ me' \in {me, [me EXCEPT ![x] = "user"]}
  BY DEF StartLogin, FinishLogin, ghosts
<1>4. Types'
  <2>1. login' \in [Tabs -> LoginRecord]
    BY <1>1, <1>2 DEF Types
  <2>2. me' \in [Tabs -> {"user", "null", "absent", "denied"}]
    BY <1>1, <1>3 DEF Types
  <2>3. events' \in 0..MaxEvents
    BY <1>1, <1>3, BoundAssumption DEF Types
  <2> QED BY <1>1, <1>3, <2>1, <2>2, <2>3 DEF Types
<1>5. ASSUME NEW y \in Tabs PROVE TabGoesOn(y)
  <2>1. login'[y] = IF y = x THEN p ELSE login[y]
    BY <1>1, <1>2 DEF Types
  <2> QED BY <1>1, <1>2, <1>3, <2>1 DEF TabGoesOn, AllIssued
<1> QED BY <1>3, <1>4, <1>5, NoFlightMoves DEF DriftGoesOn

-----------------------------------------------------------------------------
(* Refreshes that go on or end without a new token.                        *)

\* Flight o goes on as f.
LEMMA OneFlightGoesOn ==
  ASSUME IInv, NEW o \in Calls, NEW f \in FlightRecord, flight' = [flight EXCEPT ![o] = f],
         token' = token, spentBy' = spentBy, UNCHANGED <<login, logout, adrift>>,
         store' \in {store, Nil}, lost \subseteq lost',
         f.pc # "idle" => flight[o].pc # "idle" /\ f.tok = flight[o].tok,
         f.pc = "ok" => flight[o].pc = "ok" /\ f.new = flight[o].new,
         f.awaited => flight[o].awaited /\ flight[o].pc # "ok" /\ f.tok = flight[o].tok,
         flight[o].pc = "ok" /\ flight[o].awaited => flight[o].tok \in lost'
  PROVE  TokensInv'
<1>1. \A c \in Calls : flight'[c] = IF c = o THEN f ELSE flight[c]
  BY DEF IInv, Types
<1>2. ASSUME NEW c \in Calls PROVE FlightGoesOn(c)
  <2>1. CASE c = o
    <3>1. flight'[c] = f
      BY <1>1, <2>1
    <3> QED BY <2>1, <3>1 DEF FlightGoesOn, Hears
  <2>2. CASE c # o
    <3>1. flight'[c] = flight[c]
      BY <1>1, <2>2
    <3> QED BY <3>1 DEF FlightGoesOn, Hears
  <2> QED BY <2>1, <2>2
<1>3. \A x \in Tabs : TabGoesOn(x)
  BY AllStay
<1> QED BY <1>2, <1>3, TokensKept DEF DriftGoesOn

\* refreshPromise of o's tab settles, and who awaits it goes on as n.
LEMMA SharedSettles ==
  ASSUME Types, Shared, NEW o \in Calls, flight[o].awaited, Settled(o), NEW n,
         n.pc # "waiting", n.on = Nil,
         call' = [c \in Calls |-> IF c \in WaitingOn(o) THEN n ELSE call[c]],
         \A c \in Calls : c # o => flight'[c] = flight[c],
         ~flight'[o].awaited
  PROVE  Shared'
<1>1. promise[TabOf[o]] = o
  BY DEF Shared
<1>2. \A x \in Tabs : promise'[x] = IF x = TabOf[o] THEN Nil ELSE promise[x]
  BY DEF Settled, Types
<1>3. \A c \in Calls : call'[c] = IF call[c].on = o THEN n ELSE call[c]
  BY DEF WaitingOn
<1>4. o # Nil
  BY NilAssumption
<1>5. ASSUME NEW c \in Calls
      PROVE  IF call'[c].pc = "waiting"
               THEN call'[c].on # Nil /\ promise'[TabOf[c]] = call'[c].on
               ELSE call'[c].on = Nil
  <2>1. CASE call[c].on = o
    <3>1. call'[c] = n
      BY <1>3, <2>1
    <3> QED BY <3>1
  <2>2. CASE call[c].on # o
    <3>1. call'[c] = call[c]
      BY <1>3, <2>2
    <3>2. call[c].pc = "waiting" => promise'[TabOf[c]] = promise[TabOf[c]]
      BY <1>1, <1>2, <2>2, TabAssumption DEF Shared
    <3> QED BY <3>1, <3>2 DEF Shared
  <2> QED BY <2>1, <2>2
<1>6. ASSUME NEW x \in Tabs, promise'[x] # Nil
      PROVE  /\ TabOf[promise'[x]] = x /\ flight'[promise'[x]].awaited
             /\ call'[promise'[x]].on = promise'[x]
  <2> DEFINE p == promise[x]
  <2>1. x # TabOf[o] /\ promise'[x] = p /\ p # Nil
    BY <1>2, <1>6
  <2>2. p \in Calls /\ TabOf[p] = x /\ flight[p].awaited /\ call[p].on = p
    BY <2>1 DEF Types, Shared
  <2> HIDE DEF p
  <2>3. p # o
    BY <2>1, <2>2
  <2> QED BY <1>3, <2>1, <2>2, <2>3
<1>7. ASSUME NEW c \in Calls, flight'[c].awaited
      PROVE  promise'[TabOf[c]] = c /\ flight'[c].pc # "idle"
  <2>1. c # o /\ flight'[c] = flight[c]
    BY <1>7
  <2>2. promise[TabOf[c]] = c /\ flight[c].pc # "idle"
    BY <1>7, <2>1 DEF Shared
  <2> QED BY <1>1, <1>2, <2>1, <2>2, TabAssumption
<1> QED BY <1>5, <1>6, <1>7 DEF Shared

\* A call joins the refresh of its tab.
LEMMA JoinRefreshStep ==
  ASSUME IInv, NEW c \in Calls, JoinRefresh(c) PROVE IInv'
<1>1. Types /\ Shared
  BY DEF IInv
<1> DEFINE x == TabOf[c]
           new == [call[c] EXCEPT !.pc = "waiting", !.retried = TRUE, !.on = promise[x]]
<1>2. /\ call' = [call EXCEPT ![c] = new] /\ call[c].pc = "sent" /\ promise[x] # Nil
      /\ UNCHANGED <<token, store, me, flight, promise, login, logout, adrift>>
      /\ UNCHANGED <<events, spentBy, lost>>
  BY DEF JoinRefresh, Unauthorized, ghosts
<1>3. new \in CallRecord /\ new.pc = "waiting" /\ new.on = promise[x]
  <2>1. call[c] \in CallRecord /\ promise[x] \in Calls \cup {Nil}
    BY <1>1, TabAssumption DEF Types
  <2> QED BY <2>1 DEF CallRecord
<1> HIDE DEF new
<1>4. \A d \in Calls : call'[d] = IF d = c THEN new ELSE call[d]
  BY <1>1, <1>2 DEF Types
<1>5. Types'
  <2>1. call' \in [Calls -> CallRecord]
    BY <1>1, <1>2, <1>3 DEF Types
  <2> QED BY <1>1, <1>2, <2>1 DEF Types
<1>6. Shared'
  <2>1. ASSUME NEW d \in Calls
        PROVE  IF call'[d].pc = "waiting"
                 THEN call'[d].on # Nil /\ promise'[TabOf[d]] = call'[d].on
                 ELSE call'[d].on = Nil
    BY <1>1, <1>2, <1>3, <1>4 DEF Shared
  <2>2. ASSUME NEW y \in Tabs, promise'[y] # Nil
        PROVE  /\ TabOf[promise'[y]] = y /\ flight'[promise'[y]].awaited
               /\ call'[promise'[y]].on = promise'[y]
    <3> DEFINE p == promise[y]
    <3>1. p \in Calls /\ TabOf[p] = y /\ flight[p].awaited /\ call[p].on = p /\ p # Nil
      BY <1>1, <1>2, <2>2 DEF Types, Shared
    <3>2. call[p].pc = "waiting"
      BY <1>1, <3>1 DEF Shared
    <3>3. p # c
      BY <1>2, <3>2
    <3> QED BY <1>2, <1>4, <3>1, <3>3
  <2>3. \A o \in Calls : flight'[o].awaited => promise'[TabOf[o]] = o /\ flight'[o].pc # "idle"
    BY <1>1, <1>2 DEF Shared
  <2> QED BY <2>1, <2>2, <2>3 DEF Shared
<1>7. \A d \in Calls : FlightGoesOn(d)
  BY <1>2 DEF FlightGoesOn, Hears
<1>8. \A y \in Tabs : TabGoesOn(y)
  BY <1>2, AllStay
<1>9. TokensInv'
  BY <1>2, <1>7, <1>8, TokensKept DEF DriftGoesOn
<1> QED BY <1>5, <1>6, <1>9 DEF IInv, TokensInv

\* The server finds the row, fails, or answers a tab that no longer listens.
LEMMA FlightGoesOnStep ==
  ASSUME IInv, NEW o \in Calls, FindRefreshToken(o) \/ RefreshFails(o) \/ Unheard(o)
  PROVE  IInv'
<1>1. Types /\ Shared
  BY DEF IInv
<1>2. flight[o] \in FlightRecord
  BY <1>1 DEF Types
<1>3. PICK f \in FlightRecord :
        /\ flight' = [flight EXCEPT ![o] = f] /\ f.awaited = flight[o].awaited
        /\ f.awaited => f.pc # "idle" /\ flight[o].pc # "ok"
        /\ f.pc # "ok" /\ (f.pc # "idle" => flight[o].pc # "idle" /\ f.tok = flight[o].tok)
        /\ f.awaited => f.tok = flight[o].tok
        /\ flight[o].awaited => flight[o].pc # "ok"
  <2>1. CASE FindRefreshToken(o) \/ RefreshFails(o)
    <3>1. PICK pc \in {"rotate", "refused", "failed"} : flight' = [flight EXCEPT ![o].pc = pc]
      BY <2>1 DEF FindRefreshToken, RefreshFails
    <3>2. flight[o].pc \in {"find", "rotate"}
      BY <2>1 DEF FindRefreshToken, RefreshFails
    <3> DEFINE f == [flight[o] EXCEPT !.pc = pc]
    <3>3. flight' = [flight EXCEPT ![o] = f]
      BY <3>1
    <3>4. f \in FlightRecord /\ f.pc = pc /\ f.tok = flight[o].tok /\ f.awaited = flight[o].awaited
      BY <1>2 DEF FlightRecord
    <3> HIDE DEF f
    <3> QED BY <3>2, <3>3, <3>4
  <2>2. CASE Unheard(o)
    <3>1. NoFlight \in FlightRecord /\ NoFlight.pc = "idle" /\ NoFlight.awaited = FALSE
      BY DEF NoFlight, FlightRecord, Numbers
    <3>2. flight' = [flight EXCEPT ![o] = NoFlight] /\ ~flight[o].awaited
      BY <2>2 DEF Unheard
    <3>3. flight[o].awaited = FALSE
      BY <1>2, <3>2 DEF FlightRecord
    <3> QED BY <3>1, <3>2, <3>3
  <2> QED BY <2>1, <2>2
<1>4. /\ UNCHANGED <<token, store, me, call, promise, login, logout, adrift, spentBy, lost>>
      /\ events' \in {events, events + 1} /\ (events' # events => events < MaxEvents)
  BY DEF FindRefreshToken, RefreshFails, Unheard, ghosts
<1>5. Types'
  <2>1. flight' \in [Calls -> FlightRecord]
    BY <1>1, <1>3 DEF Types
  <2>2. events' \in 0..MaxEvents
    BY <1>1, <1>4, BoundAssumption DEF Types
  <2> QED BY <1>1, <1>4, <2>1, <2>2 DEF Types
<1>6. Shared'
  <2>1. \A c \in Calls : flight'[c] = IF c = o THEN f ELSE flight[c]
    BY <1>1, <1>3 DEF Types
  <2>2. \A c \in Calls : flight'[c].awaited = flight[c].awaited
    BY <1>3, <2>1
  <2>3. \A c \in Calls : flight'[c].awaited => flight'[c].pc # "idle"
    BY <1>1, <1>3, <2>1 DEF Shared
  <2> QED BY <1>1, <1>4, <2>2, <2>3, SharedKept
<1>7. TokensInv'
  BY <1>3, <1>4, OneFlightGoesOn
<1> QED BY <1>5, <1>6, <1>7 DEF IInv, TokensInv

\* A tab hears that its refresh was refused or failed, or loses the connection.
LEMMA RefreshEndsStep ==
  ASSUME IInv, NEW o \in Calls, SettleRefused(o) \/ SettleFailed(o) \/ Disconnect(o)
  PROVE  IInv'
<1>1. Types /\ Shared
  BY DEF IInv
<1>2. flight[o] \in FlightRecord /\ flight[o].tok \in Numbers
  BY <1>1 DEF Types, FlightRecord
<1>3. /\ flight[o].awaited /\ RejectAll(o) /\ Settled(o)
      /\ UNCHANGED <<token, login, logout, adrift, spentBy>> /\ store' \in {store, Nil}
      /\ me' \in {me, [me EXCEPT ![TabOf[o]] = "null"]}
      /\ events' \in {events, events + 1} /\ (events' # events => events < MaxEvents)
  BY DEF SettleRefused, SettleFailed, Disconnect, ghosts
<1>4. PICK f \in FlightRecord :
        /\ flight' = [flight EXCEPT ![o] = f] /\ ~f.awaited
        /\ f.pc # "idle" => flight[o].pc # "idle" /\ f.tok = flight[o].tok
        /\ f.pc = "ok" => flight[o].pc = "ok" /\ f.new = flight[o].new
  <2>1. NoFlight \in FlightRecord /\ NoFlight.pc = "idle" /\ ~NoFlight.awaited
    BY DEF NoFlight, FlightRecord, Numbers
  <2>2. CASE SettleRefused(o) \/ SettleFailed(o)
    BY <2>1, <2>2 DEF SettleRefused, SettleFailed
  <2>3. CASE Disconnect(o)
    <3> DEFINE g == [flight[o] EXCEPT !.awaited = FALSE]
    <3>1. g \in FlightRecord /\ ~g.awaited /\ g.pc = flight[o].pc /\ g.tok = flight[o].tok
          /\ g.new = flight[o].new
      BY <1>2 DEF FlightRecord
    <3>2. Abandoned(flight[o]) \subseteq {NoFlight, g}
      BY DEF Abandoned
    <3>3. PICK f \in {NoFlight, g} : flight' = [flight EXCEPT ![o] = f]
      BY <2>3, <3>2 DEF Disconnect
    <3> HIDE DEF g
    <3> QED BY <2>1, <3>1, <3>3
  <2> QED BY <2>2, <2>3
<1>5. /\ lost' \subseteq Tokens /\ lost \subseteq lost'
      /\ flight[o].pc = "ok" => flight[o].tok \in lost'
  <2>1. CASE SettleRefused(o) \/ SettleFailed(o)
    BY <1>1, <2>1 DEF SettleRefused, SettleFailed, ghosts, Types
  <2>2. CASE Disconnect(o)
    <3>1. lost' = lost \cup {flight[c].tok : c \in {d \in {o} : flight[d].pc = "ok"}}
      BY <2>2 DEF Disconnect, LostWith
    <3>2. flight[o].pc = "ok" => flight[o].tok \in Tokens
      BY DEF IInv, AllIssued, Issued
    <3> QED BY <1>1, <3>1, <3>2 DEF Types
  <2> QED BY <2>1, <2>2
<1>6. NoCall \in CallRecord /\ NoCall.pc = "idle" /\ NoCall.on = Nil
  BY DEF NoCall, CallRecord
<1>7. Types'
  <2>1. call' \in [Calls -> CallRecord]
    BY <1>1, <1>3, <1>6 DEF Types, RejectAll
  <2>2. flight' \in [Calls -> FlightRecord]
    BY <1>1, <1>4 DEF Types
  <2>3. promise' \in [Tabs -> Calls \cup {Nil}]
    BY <1>1, <1>3 DEF Types, Settled
  <2>4. me' \in [Tabs -> {"user", "null", "absent", "denied"}]
    BY <1>1, <1>3 DEF Types
  <2>5. store' \in Numbers /\ events' \in 0..MaxEvents
    BY <1>1, <1>3, BoundAssumption DEF Types, Numbers
  <2> QED BY <1>1, <1>3, <1>5, <2>1, <2>2, <2>3, <2>4, <2>5 DEF Types
<1>8. Shared'
  <2>1. \A c \in Calls : flight'[c] = IF c = o THEN f ELSE flight[c]
    BY <1>1, <1>4 DEF Types
  <2>2. \A c \in Calls : c # o => flight'[c] = flight[c]
    BY <2>1
  <2>3. ~flight'[o].awaited
    BY <1>4, <2>1
  <2>4. call' = [c \in Calls |-> IF c \in WaitingOn(o) THEN NoCall ELSE call[c]]
    BY <1>3 DEF RejectAll
  <2>5. NoCall.pc # "waiting"
    BY <1>6
  <2> HIDE DEF NoCall
  <2> QED BY <1>1, <1>3, <1>6, <2>2, <2>3, <2>4, <2>5, SharedSettles
<1>9. TokensInv'
  BY <1>3, <1>4, <1>5, OneFlightGoesOn
<1> QED BY <1>7, <1>8, <1>9 DEF IInv, TokensInv

-----------------------------------------------------------------------------
(* Steps with tokens.                                                      *)

\* A call finds no refresh under way in its tab and starts one.
LEMMA StartRefreshStep ==
  ASSUME IInv, NEW c \in Calls, StartRefresh(c) PROVE IInv'
<1>1. /\ Types /\ Shared /\ AllIssued /\ AnswersUntouched /\ StoreIsGood
      /\ \A k \in Tokens, y \in Tabs : SpentIsHeard(k, y)
  BY DEF IInv
<1> DEFINE x == TabOf[c]
           new == [call[c] EXCEPT !.pc = "waiting", !.retried = TRUE, !.on = c]
           f == [pc |-> "find", tok |-> store, new |-> Nil, awaited |-> TRUE]
<1>2. /\ call' = [call EXCEPT ![c] = new] /\ flight' = [flight EXCEPT ![c] = f]
      /\ promise' = [promise EXCEPT ![x] = c]
      /\ call[c].pc = "sent" /\ promise[x] = Nil /\ flight[c].pc = "idle" /\ store # Nil
      /\ UNCHANGED <<token, store, me, login, logout, adrift, events, spentBy, lost>>
  BY DEF StartRefresh, Unauthorized, ghosts
<1>3. new \in CallRecord /\ new.pc = "waiting" /\ new.on = c
  <2>1. call[c] \in CallRecord
    BY <1>1 DEF Types
  <2> QED BY <2>1 DEF CallRecord
<1>4. /\ f \in FlightRecord /\ f.pc = "find" /\ f.tok = store /\ f.awaited
  BY <1>1 DEF Types, FlightRecord, Numbers
<1> HIDE DEF new, f
<1>5. /\ \A d \in Calls : call'[d] = IF d = c THEN new ELSE call[d]
      /\ \A d \in Calls : flight'[d] = IF d = c THEN f ELSE flight[d]
      /\ \A y \in Tabs : promise'[y] = IF y = x THEN c ELSE promise[y]
  BY <1>1, <1>2 DEF Types
<1>6. Types'
  <2>1. call' \in [Calls -> CallRecord]
    BY <1>1, <1>2, <1>3 DEF Types
  <2>2. flight' \in [Calls -> FlightRecord]
    BY <1>1, <1>2, <1>4 DEF Types
  <2>3. promise' \in [Tabs -> Calls \cup {Nil}]
    BY <1>1, <1>2 DEF Types
  <2> QED BY <1>1, <1>2, <2>1, <2>2, <2>3 DEF Types
<1>7. Shared'
  <2>1. ASSUME NEW d \in Calls
        PROVE  IF call'[d].pc = "waiting"
                 THEN call'[d].on # Nil /\ promise'[TabOf[d]] = call'[d].on
                 ELSE call'[d].on = Nil
    BY <1>1, <1>2, <1>3, <1>5, NilAssumption, TabAssumption DEF Shared
  <2>2. ASSUME NEW y \in Tabs, promise'[y] # Nil
        PROVE  /\ TabOf[promise'[y]] = y /\ flight'[promise'[y]].awaited
               /\ call'[promise'[y]].on = promise'[y]
    <3>1. CASE y = x
      BY <1>3, <1>4, <1>5, <3>1
    <3>2. CASE y # x
      <4> DEFINE p == promise[y]
      <4>1. promise'[y] = p /\ p # Nil
        BY <1>5, <2>2, <3>2
      <4>2. p \in Calls /\ TabOf[p] = y /\ flight[p].awaited /\ call[p].on = p
        BY <1>1, <4>1 DEF Types, Shared
      <4> HIDE DEF p
      <4>3. p # c
        BY <3>2, <4>2
      <4> QED BY <1>5, <4>1, <4>2, <4>3
    <3> QED BY <3>1, <3>2
  <2>3. ASSUME NEW o \in Calls, flight'[o].awaited
        PROVE  promise'[TabOf[o]] = o /\ flight'[o].pc # "idle"
    <3>1. CASE o = c
      BY <1>4, <1>5, <3>1, TabAssumption
    <3>2. CASE o # c
      <4>1. flight[o].awaited /\ promise[TabOf[o]] = o /\ flight[o].pc # "idle"
              /\ flight'[o] = flight[o]
        BY <1>1, <1>5, <2>3, <3>2 DEF Shared
      <4>2. TabOf[o] # x
        BY <1>2, <4>1, NilAssumption
      <4> QED BY <1>5, <4>1, <4>2, TabAssumption
    <3> QED BY <3>1, <3>2
  <2> QED BY <2>1, <2>2, <2>3 DEF Shared
<1>8. AllIssued'
  <2>1. ASSUME NEW d \in Calls
        PROVE  /\ flight'[d].pc # "idle" => Issued(flight'[d].tok)
               /\ flight'[d].pc = "ok" => Issued(flight'[d].new)
    BY <1>1, <1>2, <1>4, <1>5 DEF AllIssued
  <2> QED BY <1>1, <1>2, <2>1 DEF AllIssued, Issued
<1>9. AnswersUntouched'
  <2>1. ASSUME NEW k, Untouched(k) PROVE Untouched(k)'
    <3>1. \A d \in Calls : flight'[d].pc # "idle" => flight'[d].tok # k
      BY <1>4, <1>5, <2>1 DEF Untouched
    <3> QED BY <1>2, <2>1, <3>1 DEF Untouched
  <2>2. \A d \in Calls : flight'[d].pc = "ok" => flight[d].pc = "ok" /\ flight'[d] = flight[d]
    BY <1>4, <1>5
  <2> QED BY <1>1, <1>2, <2>1, <2>2 DEF AnswersUntouched
<1>10. \A o \in Calls : o # c => flight'[o] = flight[o]
  BY <1>5
<1>11. ASSUME NEW k \in Tokens, NEW y \in Tabs PROVE SpentIsHeard(k, y)'
  <2> SUFFICES ASSUME spentBy[k] = y, k \notin lost
               PROVE  /\ store = k => \E o \in Calls : TabOf[o] = y /\ Hears(o, k)'
                      /\ \A o \in Calls : TabOf[o] = y /\ flight'[o].awaited
                           /\ flight'[o].tok = k => flight'[o].pc = "ok"
    BY <1>2 DEF SpentIsHeard, Hears
  <2>1. /\ store = k => \E o \in Calls : TabOf[o] = y /\ Hears(o, k)
        /\ \A o \in Calls : TabOf[o] = y /\ flight[o].awaited
             /\ flight[o].tok = k => flight[o].pc = "ok"
    BY <1>1 DEF SpentIsHeard
  <2>2. \A o \in Calls : Hears(o, k) => o # c /\ Hears(o, k)'
    BY <1>2, <1>10 DEF Hears
  <2>3. ~(store = k /\ y = x)
    <3> SUFFICES ASSUME store = k, y = x PROVE FALSE
      OBVIOUS
    <3>1. PICK o \in Calls : TabOf[o] = x /\ flight[o].awaited
      BY <2>1 DEF Hears
    <3>2. promise[x] = o
      BY <1>1, <3>1 DEF Shared
    <3> QED BY <1>2, <3>2, NilAssumption
  <2>4. ASSUME NEW o \in Calls, TabOf[o] = y, flight'[o].awaited, flight'[o].tok = k
        PROVE  flight'[o].pc = "ok"
    <3>1. o # c
      BY <1>4, <1>5, <2>3, <2>4
    <3> QED BY <1>10, <2>1, <2>4, <3>1
  <2> QED BY <2>1, <2>2, <2>4
<1>12. StoreIsGood'
  <2>1. \A o \in Calls : Hears(o, store) => Hears(o, store)'
    BY <1>2, <1>10 DEF Hears
  <2> QED BY <1>1, <1>2, <2>1 DEF StoreIsGood
<1> QED BY <1>6, <1>7, <1>8, <1>9, <1>11, <1>12 DEF IInv

\* The token next to be issued is in nobody's hands.
LEMMA NextIsUntouched ==
  ASSUME IInv, NEW new \in Tokens, IsNext(new)
  PROVE  /\ token[new] = "unused" /\ store # new /\ spentBy[new] = Nil /\ new \notin adrift
         /\ \A c \in Calls : /\ flight[c].pc # "idle" => flight[c].tok # new
                             /\ flight[c].pc = "ok" => flight[c].new # new
         /\ \A x \in Tabs : /\ login[x].pc = "issued" => login[x].tok # new
                            /\ logout[x].tok # new
<1>1. AllIssued /\ token[new] = "unused" /\ new # Nil
  BY NilAssumption DEF IInv, IsNext
<1> QED BY <1>1 DEF AllIssued, Issued

\* The server spends the token and issues the next.
LEMMA RotateStep ==
  ASSUME IInv, NEW o \in Calls, Rotate(o) PROVE IInv'
<1>1. /\ Types /\ Shared /\ AllIssued /\ AnswersUntouched /\ StoreIsGood
      /\ \A k \in Tokens, x \in Tabs : SpentIsHeard(k, x)
  BY DEF IInv
<1> DEFINE k == flight[o].tok
           x == TabOf[o]
<1>2. PICK new \in Tokens :
        /\ IsNext(new)
        /\ token' = [Revoked(k) EXCEPT ![new] = "live"]
        /\ flight' = [flight EXCEPT ![o].pc = "ok", ![o].new = new]
        /\ spentBy' = SpentBy(x, k)
        /\ lost' = IF flight[o].awaited THEN lost ELSE lost \cup {k}
  BY DEF Rotate
<1>3. /\ flight[o].pc = "rotate"
      /\ UNCHANGED <<store, me, call, promise, login, logout, adrift, events>>
  BY DEF Rotate
<1> DEFINE f == [flight[o] EXCEPT !.pc = "ok", !.new = new]
<1>4. /\ f \in FlightRecord /\ f.pc = "ok" /\ f.tok = k /\ f.new = new
      /\ f.awaited = flight[o].awaited
  <2>1. flight[o] \in FlightRecord
    BY <1>1 DEF Types
  <2> QED BY <2>1 DEF FlightRecord, Numbers
<1>5. flight' = [flight EXCEPT ![o] = f]
  <2>1. flight' = [flight EXCEPT ![o] = [flight[o] EXCEPT !.pc = "ok", !.new = new]]
    BY <1>1, <1>2 DEF Types
  <2> QED BY <2>1
<1> HIDE DEF f
<1>6. /\ k \in Tokens /\ k # new /\ token[k] # "unused" /\ x \in Tabs
      /\ token[new] = "unused" /\ store # new /\ spentBy[new] = Nil /\ new \notin adrift
      /\ \A c \in Calls : /\ flight[c].pc # "idle" => flight[c].tok # new
                          /\ flight[c].pc = "ok" => flight[c].new # new
      /\ \A y \in Tabs : /\ login[y].pc = "issued" => login[y].tok # new
                         /\ logout[y].tok # new
  BY <1>1, <1>2, <1>3, NextIsUntouched, TabAssumption DEF AllIssued, Issued
<1>7. /\ \A c \in Calls : flight'[c] = IF c = o THEN f ELSE flight[c]
      /\ \A j \in Tokens : token'[j] = IF j = new THEN "live"
                                       ELSE IF j = k THEN "revoked" ELSE token[j]
      /\ \A j \in Tokens : spentBy'[j] = IF j = k /\ spentBy[j] = Nil THEN x ELSE spentBy[j]
  BY <1>1, <1>2, <1>5, <1>6 DEF Types, Revoked, SpentBy
<1>8. Types'
  <2>1. token' \in [Tokens -> {"unused", "live", "revoked"}]
    BY <1>1, <1>2 DEF Types, Revoked
  <2>2. flight' \in [Calls -> FlightRecord]
    BY <1>1, <1>4, <1>5 DEF Types
  <2>3. spentBy' \in [Tokens -> Tabs \cup {Nil, "signOut"}]
    BY <1>1, <1>2, <1>6 DEF Types, SpentBy
  <2>4. lost' \subseteq Tokens
    BY <1>1, <1>2, <1>6 DEF Types
  <2> QED BY <1>1, <1>3, <2>1, <2>2, <2>3, <2>4 DEF Types
<1>9. Shared'
  <2>1. \A c \in Calls : flight'[c].awaited = flight[c].awaited
    BY <1>4, <1>7
  <2>2. \A c \in Calls : flight'[c].awaited => flight'[c].pc # "idle"
    BY <1>1, <1>4, <1>7 DEF Shared
  <2> QED BY <1>1, <1>3, <2>1, <2>2, SharedKept
<1>10. AllIssued'
  <2> DEFINE Then(j) == j \in Tokens /\ token'[j] # "unused"
  <2>1. \A j : Issued(j) => Then(j)
    BY <1>7 DEF Issued
  <2>2. Then(new) /\ Then(k)
    BY <1>6, <1>7
  <2> HIDE DEF Then
  <2>3. ASSUME NEW c \in Calls
        PROVE  /\ flight'[c].pc # "idle" => Then(flight'[c].tok)
               /\ flight'[c].pc = "ok" => Then(flight'[c].new)
    <3>1. CASE c = o
      BY <1>4, <1>7, <2>2, <3>1
    <3>2. CASE c # o
      BY <1>1, <1>7, <2>1, <3>2 DEF AllIssued
    <3> QED BY <3>1, <3>2
  <2>4. /\ \A j \in Tokens : token'[j] = "unused" => spentBy'[j] = Nil
        /\ \A j \in adrift' : Then(j)
    BY <1>1, <1>3, <1>6, <1>7, <2>1 DEF AllIssued
  <2>5. store' # Nil => Then(store')
    BY <1>1, <1>3, <2>1 DEF AllIssued
  <2>6. ASSUME NEW y \in Tabs
        PROVE  /\ login'[y].pc \in {"issued", "getMe"} => Then(login'[y].tok)
               /\ logout'[y].pc \in {"find", "revoke"} => logout'[y].tok # Nil
               /\ logout'[y].tok # Nil => Then(logout'[y].tok)
    BY <1>1, <1>3, <2>1 DEF AllIssued
  <2> QED BY <2>3, <2>4, <2>5, <2>6 DEF AllIssued, Issued, Then
<1>11. AnswersUntouched'
  <2>1. ASSUME NEW j \in Tokens, Untouched(j) \/ j = new PROVE Untouched(j)'
    <3>1. j # k /\ spentBy'[j] = Nil /\ token'[j] = "live" /\ store # j /\ j \notin adrift
      BY <1>3, <1>6, <1>7, <2>1 DEF Untouched
    <3>2. \A c \in Calls : flight'[c].pc # "idle" => flight'[c].tok # j
      BY <1>4, <1>6, <1>7, <2>1, <3>1 DEF Untouched
    <3>3. \A y \in Tabs : logout'[y].tok # j
      BY <1>3, <1>6, <2>1 DEF Untouched
    <3> QED BY <1>3, <3>1, <3>2, <3>3 DEF Untouched
  <2>2. \A c \in Calls : flight'[c].pc = "ok" =>
          /\ flight'[c].new \in Tokens
          /\ \/ c = o /\ flight'[c].new = new
             \/ c # o /\ flight[c].pc = "ok" /\ flight'[c].new = flight[c].new
    BY <1>1, <1>4, <1>7 DEF AllIssued, Issued
  <2>3. \A y \in Tabs : login[y].pc = "issued" => login[y].tok \in Tokens
    BY <1>1 DEF AllIssued, Issued
  <2> QED BY <1>1, <1>3, <1>6, <2>1, <2>2, <2>3 DEF AnswersUntouched
<1>12. \A c \in Calls, j \in Tokens : Hears(c, j) => c # o /\ Hears(c, j)'
  BY <1>3, <1>7 DEF Hears
<1>13. flight[o].awaited =>
         flight'[o].awaited /\ flight'[o].pc = "ok" /\ flight'[o].tok = k
  BY <1>4, <1>7
<1>14. ASSUME NEW j \in Tokens, NEW y \in Tabs PROVE SpentIsHeard(j, y)'
  <2> SUFFICES ASSUME spentBy'[j] = y, j \notin lost'
               PROVE  /\ store' = j => \E c \in Calls : TabOf[c] = y /\ Hears(c, j)'
                      /\ \A c \in Calls : TabOf[c] = y /\ flight'[c].awaited
                           /\ flight'[c].tok = j => flight'[c].pc = "ok"
    BY DEF SpentIsHeard, Hears
  <2>1. j \notin lost /\ (j = k => flight[o].awaited)
    BY <1>2
  <2>2. CASE spentBy[j] = y
    <3>1. /\ store = j => \E c \in Calls : TabOf[c] = y /\ Hears(c, j)
          /\ \A c \in Calls : TabOf[c] = y /\ flight[c].awaited
               /\ flight[c].tok = j => flight[c].pc = "ok"
      BY <1>1, <2>1, <2>2 DEF SpentIsHeard
    <3>2. store' = j => \E c \in Calls : TabOf[c] = y /\ Hears(c, j)'
      BY <1>3, <1>12, <3>1
    <3>3. \A c \in Calls : TabOf[c] = y /\ flight'[c].awaited
            /\ flight'[c].tok = j => flight'[c].pc = "ok"
      BY <1>4, <1>7, <3>1
    <3> QED BY <3>2, <3>3
  <2>3. CASE spentBy[j] # y
    <3>1. j = k /\ y = x /\ flight[o].awaited
      BY <1>7, <2>1, <2>3
    <3>2. Hears(o, j)'
      BY <1>13, <3>1 DEF Hears
    <3>3. ASSUME NEW c \in Calls, TabOf[c] = y, flight'[c].awaited PROVE c = o
      <4>1. flight[c].awaited
        BY <1>4, <1>7, <3>3
      <4> QED BY <1>1, <3>1, <3>3, <4>1 DEF Shared
    <3> QED BY <1>4, <1>7, <3>1, <3>2, <3>3
  <2> QED BY <2>2, <2>3
<1>15. StoreIsGood'
  <2> SUFFICES ASSUME store' # Nil, store' \notin lost'
               PROVE  \/ token'[store'] = "live"
                      \/ \E c \in Calls : Hears(c, store)'
                      \/ \E y \in Tabs : logout'[y].pc = "done" /\ logout'[y].tok = store'
    BY DEF StoreIsGood
  <2>1. store' = store /\ store \in Tokens /\ store \notin lost /\ store # new
    BY <1>1, <1>2, <1>3, <1>6 DEF AllIssued, Issued
  <2>2. CASE store = k
    <3>1. flight[o].awaited
      BY <1>2, <2>1, <2>2
    <3>2. Hears(o, store)'
      BY <1>13, <2>1, <2>2, <3>1 DEF Hears
    <3> QED BY <3>2
  <2>3. CASE store # k
    <3>1. token'[store'] = token[store]
      BY <1>7, <2>1, <2>3
    <3>2. \A c \in Calls : Hears(c, store) => Hears(c, store)'
      BY <1>3, <1>12, <2>1 DEF Hears
    <3> QED BY <1>1, <1>3, <2>1, <3>1, <3>2 DEF StoreIsGood
  <2> QED BY <2>2, <2>3
<1> QED BY <1>8, <1>9, <1>10, <1>11, <1>14, <1>15 DEF IInv

\* A token that was on its way is stored: it is good, and nobody spent it.
LEMMA StoreTokens ==
  ASSUME IInv, NEW new \in Tokens, Untouched(new), store' = new,
         UNCHANGED <<token, spentBy, lost, logout, adrift>>,
         \A c \in Calls : flight'[c] \in {flight[c], NoFlight},
         \A c \in Calls : flight'[c].pc = "ok" => flight'[c].new # new,
         \A x \in Tabs : \/ login'[x] = login[x]
                         \/ /\ login[x].pc = "issued" /\ login'[x].pc = "getMe"
                            /\ login'[x].tok = login[x].tok,
         \A x \in Tabs : login'[x].pc = "issued" => login'[x].tok # new
  PROVE  TokensInv'
<1>1. /\ AllIssued /\ AnswersUntouched
      /\ \A k \in Tokens, x \in Tabs : SpentIsHeard(k, x)
  BY DEF IInv
<1>2. /\ token[new] = "live" /\ spentBy[new] = Nil
      /\ \A c \in Calls : flight[c].pc # "idle" => flight[c].tok # new
      /\ \A x \in Tabs : logout[x].tok # new
  BY DEF Untouched
<1>3. NoFlight.pc = "idle" /\ ~NoFlight.awaited
  BY DEF NoFlight
<1>4. \A c \in Calls : /\ flight'[c].pc # "idle" => flight'[c] = flight[c]
                       /\ flight'[c].awaited => flight'[c] = flight[c]
  BY <1>3
<1>5. AllIssued'
  <2>1. ASSUME NEW c \in Calls
        PROVE  /\ flight'[c].pc # "idle" => Issued(flight'[c].tok)
               /\ flight'[c].pc = "ok" => Issued(flight'[c].new)
    BY <1>1, <1>4 DEF AllIssued
  <2>2. ASSUME NEW x \in Tabs
        PROVE  /\ login'[x].pc \in {"issued", "getMe"} => Issued(login'[x].tok)
               /\ logout[x].pc \in {"find", "revoke"} => logout[x].tok # Nil
               /\ logout[x].tok # Nil => Issued(logout[x].tok)
    BY <1>1 DEF AllIssued
  <2>3. Issued(new)
    BY <1>2 DEF Issued
  <2> QED BY <1>1, <2>1, <2>2, <2>3 DEF AllIssued, Issued
<1>6. AnswersUntouched'
  <2>1. ASSUME NEW k \in Tokens, Untouched(k), k # new PROVE Untouched(k)'
    <3>1. \A c \in Calls : flight'[c].pc # "idle" => flight'[c].tok # k
      BY <1>4, <2>1 DEF Untouched
    <3> QED BY <2>1, <3>1 DEF Untouched
  <2>2. \A c \in Calls : flight'[c].pc = "ok" =>
          /\ flight[c].pc = "ok" /\ flight'[c].new = flight[c].new
          /\ flight[c].new \in Tokens /\ flight[c].new # new
    BY <1>1, <1>4 DEF AllIssued, Issued
  <2>3. \A x \in Tabs : login'[x].pc = "issued" =>
          /\ login[x].pc = "issued" /\ login'[x].tok = login[x].tok
          /\ login[x].tok \in Tokens /\ login[x].tok # new
    BY <1>1 DEF AllIssued, Issued
  <2> QED BY <1>1, <2>1, <2>2, <2>3 DEF AnswersUntouched
<1>7. ASSUME NEW k \in Tokens, NEW x \in Tabs PROVE SpentIsHeard(k, x)'
  <2>1. spentBy[k] = x => k # new
    BY <1>2, NilAssumption
  <2>2. \A c \in Calls : flight'[c].awaited => flight'[c] = flight[c]
    BY <1>4
  <2> QED BY <1>1, <2>1, <2>2 DEF SpentIsHeard
<1>8. StoreIsGood'
  BY <1>2 DEF StoreIsGood
<1> QED BY <1>5, <1>6, <1>7, <1>8 DEF TokensInv

\* The answer of a refresh reaches its tab.
LEMMA SettleOkStep ==
  ASSUME IInv, NEW o \in Calls, SettleOk(o) PROVE IInv'
<1>1. Types /\ Shared /\ AllIssued /\ AnswersUntouched
  BY DEF IInv
<1> DEFINE n == [pc |-> "sent", signed |-> TRUE, retried |-> TRUE, on |-> Nil]
           new == flight[o].new
<1>2. /\ flight[o].pc = "ok" /\ flight[o].awaited
      /\ store' = new /\ flight' = [flight EXCEPT ![o] = NoFlight]
      /\ call' = [c \in Calls |-> IF c \in WaitingOn(o) THEN n ELSE call[c]]
      /\ Settled(o)
      /\ UNCHANGED <<token, me, login, logout, adrift, events, spentBy, lost>>
  BY DEF SettleOk, ghosts
<1>3. n \in CallRecord /\ n.pc # "waiting" /\ n.on = Nil
  BY DEF CallRecord
<1> HIDE DEF n
<1>4. NoFlight \in FlightRecord /\ NoFlight.pc = "idle" /\ ~NoFlight.awaited
  BY DEF NoFlight, FlightRecord, Numbers
<1>5. \A c \in Calls : flight'[c] = IF c = o THEN NoFlight ELSE flight[c]
  BY <1>1, <1>2 DEF Types
<1>6. new \in Tokens /\ Untouched(new)
  BY <1>1, <1>2 DEF AllIssued, AnswersUntouched, Issued
<1>7. Types'
  <2>1. call' \in [Calls -> CallRecord]
    BY <1>1, <1>2, <1>3 DEF Types
  <2>2. flight' \in [Calls -> FlightRecord]
    BY <1>1, <1>2, <1>4 DEF Types
  <2>3. promise' \in [Tabs -> Calls \cup {Nil}]
    BY <1>1, <1>2 DEF Types, Settled
  <2>4. store' \in Numbers
    BY <1>2, <1>6 DEF Numbers
  <2> QED BY <1>1, <1>2, <2>1, <2>2, <2>3, <2>4 DEF Types
<1>8. Shared'
  <2>1. \A c \in Calls : c # o => flight'[c] = flight[c]
    BY <1>5
  <2>2. ~flight'[o].awaited
    BY <1>4, <1>5
  <2> QED BY <1>1, <1>2, <1>3, <2>1, <2>2, SharedSettles
<1>9. TokensInv'
  <2>1. \A c \in Calls : flight'[c] \in {flight[c], NoFlight}
    BY <1>5
  <2>2. \A c \in Calls : flight'[c].pc = "ok" => flight'[c].new # new
    BY <1>1, <1>2, <1>4, <1>5 DEF AnswersUntouched
  <2>3. \A x \in Tabs : login'[x].pc = "issued" => login'[x].tok # new
    BY <1>1, <1>2 DEF AnswersUntouched
  <2> HIDE DEF new
  <2> QED BY <1>2, <1>6, <2>1, <2>2, <2>3, StoreTokens
<1> QED BY <1>7, <1>8, <1>9 DEF IInv, TokensInv

\* useLogin stores the tokens it was answered.
LEMMA SetTokensStep ==
  ASSUME IInv, NEW x \in Tabs, SetTokens(x) PROVE IInv'
<1>1. Types /\ Shared /\ AllIssued /\ AnswersUntouched
  BY DEF IInv
<1> DEFINE new == login[x].tok
           p == [login[x] EXCEPT !.pc = "getMe"]
<1>2. /\ login[x].pc = "issued" /\ store' = new /\ login' = [login EXCEPT ![x] = p]
      /\ UNCHANGED <<token, me, call, flight, promise, logout, adrift, events, spentBy, lost>>
  BY DEF SetTokens, ghosts
<1>3. p \in LoginRecord /\ p.pc = "getMe" /\ p.tok = new
  <2>1. login[x] \in LoginRecord
    BY <1>1 DEF Types
  <2> QED BY <2>1 DEF LoginRecord
<1> HIDE DEF p
<1>4. \A y \in Tabs : login'[y] = IF y = x THEN p ELSE login[y]
  BY <1>1, <1>2 DEF Types
<1>5. new \in Tokens /\ Untouched(new)
  BY <1>1, <1>2 DEF AllIssued, AnswersUntouched, Issued
<1>6. Types'
  <2>1. login' \in [Tabs -> LoginRecord]
    BY <1>1, <1>2, <1>3 DEF Types
  <2>2. store' \in Numbers
    BY <1>2, <1>5 DEF Numbers
  <2> QED BY <1>1, <1>2, <2>1, <2>2 DEF Types
<1>7. Shared'
  BY <1>1, <1>2, SharedKept DEF Shared
<1>8. TokensInv'
  <2>1. \A y \in Tabs : \/ login'[y] = login[y]
                        \/ /\ login[y].pc = "issued" /\ login'[y].pc = "getMe"
                           /\ login'[y].tok = login[y].tok
    BY <1>2, <1>3, <1>4
  <2>2. \A y \in Tabs : login'[y].pc = "issued" => login'[y].tok # new
    BY <1>1, <1>2, <1>3, <1>4 DEF AnswersUntouched
  <2>3. \A c \in Calls : flight'[c].pc = "ok" => flight'[c].new # new
    BY <1>1, <1>2 DEF AnswersUntouched
  <2> HIDE DEF new
  <2> QED BY <1>2, <1>5, <2>1, <2>2, <2>3, StoreTokens
<1> QED BY <1>6, <1>7, <1>8 DEF IInv, TokensInv

\* POST /auth/login issues tokens.
LEMMA IssueTokensStep ==
  ASSUME IInv, NEW x \in Tabs, IssueTokens(x) PROVE IInv'
<1>1. /\ Types /\ Shared /\ AllIssued /\ AnswersUntouched /\ StoreIsGood
      /\ \A k \in Tokens, y \in Tabs : SpentIsHeard(k, y)
  BY DEF IInv
<1>2. PICK new \in Tokens :
        /\ IsNext(new) /\ token' = [token EXCEPT ![new] = "live"]
        /\ login' = [login EXCEPT ![x] = [pc |-> "issued", tok |-> new]]
  BY DEF IssueTokens
<1>3. UNCHANGED <<store, me, call, flight, promise, logout, adrift, events, spentBy, lost>>
  BY DEF IssueTokens, ghosts
<1>4. /\ token[new] = "unused" /\ store # new /\ spentBy[new] = Nil /\ new \notin adrift
      /\ \A c \in Calls : /\ flight[c].pc # "idle" => flight[c].tok # new
                          /\ flight[c].pc = "ok" => flight[c].new # new
      /\ \A y \in Tabs : /\ login[y].pc = "issued" => login[y].tok # new
                         /\ logout[y].tok # new
  BY <1>2, NextIsUntouched
<1> DEFINE p == [pc |-> "issued", tok |-> new]
<1>5. p \in LoginRecord /\ p.pc = "issued" /\ p.tok = new
  BY DEF LoginRecord, Numbers
<1>6. login' = [login EXCEPT ![x] = p]
  BY <1>2
<1> HIDE DEF p
<1>7. /\ \A j \in Tokens : token'[j] = IF j = new THEN "live" ELSE token[j]
      /\ \A y \in Tabs : login'[y] = IF y = x THEN p ELSE login[y]
  BY <1>1, <1>2, <1>6 DEF Types
<1>8. Types'
  <2>1. token' \in [Tokens -> {"unused", "live", "revoked"}]
    BY <1>1, <1>2 DEF Types
  <2>2. login' \in [Tabs -> LoginRecord]
    BY <1>1, <1>5, <1>6 DEF Types
  <2> QED BY <1>1, <1>3, <2>1, <2>2 DEF Types
<1>9. Shared'
  BY <1>1, <1>3, SharedKept DEF Shared
<1>10. AllIssued'
  <2> DEFINE Then(j) == j \in Tokens /\ token'[j] # "unused"
  <2>1. (\A j : Issued(j) => Then(j)) /\ Then(new)
    BY <1>7 DEF Issued
  <2> HIDE DEF Then
  <2>2. ASSUME NEW y \in Tabs
        PROVE  /\ login'[y].pc \in {"issued", "getMe"} => Then(login'[y].tok)
               /\ logout'[y].pc \in {"find", "revoke"} => logout'[y].tok # Nil
               /\ logout'[y].tok # Nil => Then(logout'[y].tok)
    BY <1>1, <1>3, <1>5, <1>7, <2>1 DEF AllIssued
  <2>3. ASSUME NEW c \in Calls
        PROVE  /\ flight'[c].pc # "idle" => Then(flight'[c].tok)
               /\ flight'[c].pc = "ok" => Then(flight'[c].new)
    BY <1>1, <1>3, <2>1 DEF AllIssued
  <2>4. store' # Nil => Then(store')
    BY <1>1, <1>3, <2>1 DEF AllIssued
  <2>5. /\ \A j \in Tokens : token'[j] = "unused" => spentBy'[j] = Nil
        /\ \A j \in adrift' : Then(j)
    BY <1>1, <1>3, <1>7, <2>1 DEF AllIssued
  <2> QED BY <2>2, <2>3, <2>4, <2>5 DEF AllIssued, Issued, Then
<1>11. AnswersUntouched'
  <2>1. ASSUME NEW j \in Tokens, Untouched(j) \/ j = new PROVE Untouched(j)'
    BY <1>3, <1>4, <1>7, <2>1 DEF Untouched
  <2>2. \A c \in Calls : flight[c].pc = "ok" => flight[c].new \in Tokens
    BY <1>1 DEF AllIssued, Issued
  <2>3. \A y \in Tabs : login'[y].pc = "issued" =>
          /\ login'[y].tok \in Tokens
          /\ \/ y = x /\ login'[y].tok = new
             \/ y # x /\ login[y].pc = "issued" /\ login'[y].tok = login[y].tok
    BY <1>1, <1>5, <1>7 DEF AllIssued, Issued
  <2>4. \A y \in Tabs : login'[y].pc = "issued" => Untouched(login[y].tok)'
    BY <1>1, <2>1, <2>3 DEF AnswersUntouched
  <2> QED BY <1>1, <1>3, <1>4, <2>1, <2>2, <2>3, <2>4 DEF AnswersUntouched
<1>12. \A k \in Tokens, y \in Tabs : SpentIsHeard(k, y)'
  BY <1>1, <1>3 DEF SpentIsHeard, Hears
<1>13. StoreIsGood'
  <2>1. store # Nil => store \in Tokens /\ token'[store] = token[store]
    BY <1>1, <1>4, <1>7 DEF AllIssued, Issued
  <2> QED BY <1>1, <1>3, <2>1 DEF StoreIsGood, Hears
<1> QED BY <1>8, <1>9, <1>10, <1>11, <1>12, <1>13 DEF IInv

\* POST /auth/logout revokes the token, and its tab hears of it.
LEMMA LogoutRevokeStep ==
  ASSUME IInv, NEW x \in Tabs, LogoutRevoke(x) PROVE IInv'
<1>1. /\ Types /\ Shared /\ AllIssued /\ AnswersUntouched /\ StoreIsGood
      /\ \A k \in Tokens, y \in Tabs : SpentIsHeard(k, y)
  BY DEF IInv
<1> DEFINE k == logout[x].tok
           p == [logout[x] EXCEPT !.pc = "done"]
<1>2. /\ logout[x].pc = "revoke" /\ token' = [token EXCEPT ![k] = "revoked"]
      /\ spentBy' = [spentBy EXCEPT ![k] = IF @ = Nil THEN "signOut" ELSE @]
      /\ logout' = [logout EXCEPT ![x] = p]
      /\ UNCHANGED <<store, me, call, flight, promise, login, adrift, events, lost>>
  BY DEF LogoutRevoke, Revoked, SpentBy
<1>3. p \in LogoutRecord /\ p.pc = "done" /\ p.tok = k
  <2>1. logout[x] \in LogoutRecord
    BY <1>1 DEF Types
  <2> QED BY <2>1 DEF LogoutRecord
<1>4. k \in Tokens /\ token[k] # "unused" /\ k # Nil
  BY <1>1, <1>2, NilAssumption DEF AllIssued, Issued
<1> HIDE DEF p
<1>5. /\ \A j \in Tokens : token'[j] = IF j = k THEN "revoked" ELSE token[j]
      /\ \A j \in Tokens : spentBy'[j] = IF j = k /\ spentBy[j] = Nil THEN "signOut"
                                         ELSE spentBy[j]
      /\ \A y \in Tabs : logout'[y] = IF y = x THEN p ELSE logout[y]
  BY <1>1, <1>2, <1>4 DEF Types
<1>6. Types'
  <2>1. token' \in [Tokens -> {"unused", "live", "revoked"}]
    BY <1>1, <1>2 DEF Types
  <2>2. spentBy' \in [Tokens -> Tabs \cup {Nil, "signOut"}]
    BY <1>1, <1>2, <1>4 DEF Types
  <2>3. logout' \in [Tabs -> LogoutRecord]
    BY <1>1, <1>2, <1>3 DEF Types
  <2> QED BY <1>1, <1>2, <2>1, <2>2, <2>3 DEF Types
<1>7. Shared'
  BY <1>1, <1>2, SharedKept DEF Shared
<1>8. AllIssued'
  <2> DEFINE Then(j) == j \in Tokens /\ token'[j] # "unused"
  <2>1. \A j : Issued(j) => Then(j)
    BY <1>5 DEF Issued
  <2> HIDE DEF Then
  <2>2. ASSUME NEW y \in Tabs
        PROVE  /\ login'[y].pc \in {"issued", "getMe"} => Then(login'[y].tok)
               /\ logout'[y].pc \in {"find", "revoke"} => logout'[y].tok # Nil
               /\ logout'[y].tok # Nil => Then(logout'[y].tok)
    BY <1>1, <1>2, <1>3, <1>5, <2>1 DEF AllIssued
  <2>3. ASSUME NEW c \in Calls
        PROVE  /\ flight'[c].pc # "idle" => Then(flight'[c].tok)
               /\ flight'[c].pc = "ok" => Then(flight'[c].new)
    BY <1>1, <1>2, <2>1 DEF AllIssued
  <2>4. store' # Nil => Then(store')
    BY <1>1, <1>2, <2>1 DEF AllIssued
  <2>5. /\ \A j \in Tokens : token'[j] = "unused" => spentBy'[j] = Nil
        /\ \A j \in adrift' : Then(j)
    BY <1>1, <1>2, <1>4, <1>5, <2>1 DEF AllIssued
  <2> QED BY <2>2, <2>3, <2>4, <2>5 DEF AllIssued, Issued, Then
<1>9. AnswersUntouched'
  <2>1. ASSUME NEW j \in Tokens, Untouched(j) PROVE Untouched(j)'
    <3>1. j # k
      BY <2>1 DEF Untouched
    <3> QED BY <1>2, <1>3, <1>5, <2>1, <3>1 DEF Untouched
  <2>2. /\ \A c \in Calls : flight[c].pc = "ok" => flight[c].new \in Tokens
        /\ \A y \in Tabs : login[y].pc = "issued" => login[y].tok \in Tokens
    BY <1>1 DEF AllIssued, Issued
  <2> QED BY <1>1, <1>2, <2>1, <2>2 DEF AnswersUntouched
<1>10. ASSUME NEW j \in Tokens, NEW y \in Tabs PROVE SpentIsHeard(j, y)'
  <2>1. spentBy'[j] = y => spentBy[j] = y
    BY <1>5, SpenderAssumption
  <2> QED BY <1>1, <1>2, <2>1 DEF SpentIsHeard, Hears
<1>11. StoreIsGood'
  <2>1. CASE store = k
    BY <1>2, <1>3, <1>5, <2>1 DEF StoreIsGood
  <2>2. CASE store # k
    <3>1. store # Nil => token'[store] = token[store]
      BY <1>1, <1>5, <2>2 DEF AllIssued, Issued
    <3>2. \A y \in Tabs : logout[y].pc = "done" => logout'[y] = logout[y]
      BY <1>2, <1>5
    <3> QED BY <1>1, <1>2, <3>1, <3>2 DEF StoreIsGood, Hears
  <2> QED BY <2>1, <2>2
<1> QED BY <1>6, <1>7, <1>8, <1>9, <1>10, <1>11 DEF IInv

\* The server revokes the token of a logout that nobody waits for.
LEMMA LateLogoutStep ==
  ASSUME IInv, NEW k \in adrift, LateLogout(k) PROVE IInv'
<1>1. /\ Types /\ Shared /\ AllIssued /\ AnswersUntouched /\ StoreIsGood
      /\ \A j \in Tokens, y \in Tabs : SpentIsHeard(j, y)
  BY DEF IInv
<1>2. /\ adrift' \subseteq adrift
      /\ UNCHANGED <<store, me, call, flight, promise, login, logout, events>>
  BY DEF LateLogout
<1>3. CASE token[k] # "live"
  <2>1. UNCHANGED <<token, spentBy, lost>>
    BY <1>3 DEF LateLogout, ghosts
  <2>2. Types'
    BY <1>1, <1>2, <2>1 DEF Types
  <2>3. \A x \in Tabs : TabGoesOn(x)
    BY <1>2, AllStay
  <2>4. DriftGoesOn
    BY <1>2 DEF DriftGoesOn
  <2> QED BY <1>2, <2>1, <2>2, <2>3, <2>4, NoFlightMoves
<1>4. CASE token[k] = "live"
  <2>1. /\ token' = [token EXCEPT ![k] = "revoked"] /\ lost' = lost \cup {k}
        /\ spentBy' = [spentBy EXCEPT ![k] = IF @ = Nil THEN "signOut" ELSE @]
    BY <1>4 DEF LateLogout, Revoked, SpentBy
  <2>2. k \in Tokens /\ token[k] # "unused"
    BY <1>1 DEF AllIssued, Issued
  <2>3. /\ \A j \in Tokens : token'[j] = IF j = k THEN "revoked" ELSE token[j]
        /\ \A j \in Tokens : spentBy'[j] = IF j = k /\ spentBy[j] = Nil THEN "signOut"
                                           ELSE spentBy[j]
    BY <1>1, <2>1, <2>2 DEF Types
  <2>4. Types'
    BY <1>1, <1>2, <2>1, <2>2 DEF Types
  <2>5. Shared'
    BY <1>1, <1>2, SharedKept DEF Shared
  <2>6. AllIssued'
    <3>1. \A j : Issued(j) => Issued(j)'
      BY <2>3 DEF Issued
    <3>2. \A j \in Tokens : token'[j] = "unused" => spentBy'[j] = Nil
      BY <1>1, <2>2, <2>3 DEF AllIssued
    <3> QED BY <1>1, <1>2, <3>1, <3>2 DEF AllIssued
  <2>7. AnswersUntouched'
    <3>1. \A j \in Tokens : Untouched(j) => Untouched(j)'
      BY <1>2, <2>3 DEF Untouched
    <3>2. /\ \A c \in Calls : flight[c].pc = "ok" => flight[c].new \in Tokens
          /\ \A y \in Tabs : login[y].pc = "issued" => login[y].tok \in Tokens
      BY <1>1 DEF AllIssued, Issued
    <3> QED BY <1>1, <1>2, <3>1, <3>2 DEF AnswersUntouched
  <2>8. ASSUME NEW j \in Tokens, NEW y \in Tabs PROVE SpentIsHeard(j, y)'
    <3>1. spentBy'[j] = y /\ j \notin lost' => spentBy[j] = y /\ j \notin lost
      BY <2>1, <2>3
    <3> QED BY <1>1, <1>2, <3>1 DEF SpentIsHeard, Hears
  <2>9. StoreIsGood'
    <3>1. store # Nil /\ store \notin lost' => store \notin lost /\ token'[store] = token[store]
      BY <1>1, <2>1, <2>3 DEF AllIssued, Issued
    <3> QED BY <1>1, <1>2, <3>1 DEF StoreIsGood, Hears
  <2> QED BY <2>4, <2>5, <2>6, <2>7, <2>8, <2>9 DEF IInv
<1> QED BY <1>3, <1>4

\* A tab is reloaded with whatever it had under way.
LEMMA ReloadStep ==
  ASSUME IInv, NEW x \in Tabs, Reload(x) PROVE IInv'
<1>1. Types /\ Shared /\ AllIssued
  BY DEF IInv
<1>2. PICK f \in [Calls -> UNION {Abandoned(flight[c]) : c \in Calls}] :
        /\ \A c \in Calls :
             f[c] \in IF TabOf[c] = x THEN Abandoned(flight[c]) ELSE {flight[c]}
        /\ flight' = f
  BY DEF Reload
<1>3. /\ events < MaxEvents /\ events' = events + 1
      /\ me' = [me EXCEPT ![x] = "absent"]
      /\ call' = [c \in Calls |-> IF TabOf[c] = x THEN NoCall ELSE call[c]]
      /\ promise' = [promise EXCEPT ![x] = Nil]
      /\ login' = [login EXCEPT ![x] = NoPost] /\ logout' = [logout EXCEPT ![x] = NoPost]
      /\ UNCHANGED <<token, store, spentBy>>
  BY DEF Reload
<1>4. /\ lost' = LostWith({c \in CallsOf(x) : flight[c].awaited})
                     \cup {k \in {logout[x].tok} \ {Nil} : logout[x].pc = "done"}
      /\ adrift' \in {adrift, adrift \cup {logout[x].tok}}
      /\ adrift' # adrift => logout[x].tok # Nil
  BY <1>1 DEF Reload, Adrift, AllIssued
<1>5. /\ NoCall \in CallRecord /\ NoCall.pc = "idle" /\ NoCall.on = Nil
      /\ NoFlight \in FlightRecord /\ NoFlight.pc = "idle" /\ ~NoFlight.awaited
      /\ NoPost \in LoginRecord /\ NoPost \in LogoutRecord
      /\ NoPost.pc = "idle" /\ NoPost.tok = Nil
  BY DEF NoCall, CallRecord, NoFlight, FlightRecord, NoPost, LoginRecord, LogoutRecord, Numbers
<1>6. ASSUME NEW c \in Calls
      PROVE  /\ flight'[c] \in FlightRecord
             /\ TabOf[c] # x => flight'[c] = flight[c]
             /\ TabOf[c] = x =>
                  /\ ~flight'[c].awaited
                  /\ flight'[c].pc # "idle" =>
                       /\ flight'[c].pc = flight[c].pc /\ flight'[c].tok = flight[c].tok
                       /\ flight'[c].new = flight[c].new
  <2> DEFINE g == [flight[c] EXCEPT !.awaited = FALSE]
  <2>1. flight[c] \in FlightRecord
    BY <1>1 DEF Types
  <2>2. g \in FlightRecord /\ ~g.awaited /\ g.pc = flight[c].pc /\ g.tok = flight[c].tok
        /\ g.new = flight[c].new
    BY <2>1 DEF FlightRecord
  <2>3. TabOf[c] = x => flight'[c] \in {NoFlight, g}
    BY <1>2 DEF Abandoned
  <2>4. TabOf[c] # x => flight'[c] = flight[c]
    BY <1>2
  <2> HIDE DEF g
  <2> QED BY <1>5, <2>1, <2>2, <2>3, <2>4
<1>7. /\ lost \subseteq lost' /\ lost' \subseteq Tokens
      /\ \A c \in Calls : TabOf[c] = x /\ flight[c].awaited /\ flight[c].pc = "ok" =>
           flight[c].tok \in lost'
      /\ logout[x].pc = "done" /\ logout[x].tok # Nil => logout[x].tok \in lost'
  <2>1. lost \subseteq Tokens /\ (\A c \in Calls : flight[c].pc = "ok" => flight[c].tok \in Tokens)
          /\ (logout[x].tok # Nil => logout[x].tok \in Tokens)
    BY <1>1 DEF Types, AllIssued, Issued
  <2> QED BY <1>4, <2>1 DEF LostWith, CallsOf
<1>8. /\ \A c \in Calls : call'[c] = IF TabOf[c] = x THEN NoCall ELSE call[c]
      /\ \A y \in Tabs : /\ promise'[y] = IF y = x THEN Nil ELSE promise[y]
                         /\ login'[y] = IF y = x THEN NoPost ELSE login[y]
                         /\ logout'[y] = IF y = x THEN NoPost ELSE logout[y]
  BY <1>1, <1>3 DEF Types
<1>9. Types'
  <2>1. call' \in [Calls -> CallRecord]
    BY <1>1, <1>3, <1>5 DEF Types
  <2>2. flight' \in [Calls -> FlightRecord]
    BY <1>2, <1>6
  <2>3. promise' \in [Tabs -> Calls \cup {Nil}]
    BY <1>1, <1>3 DEF Types
  <2>4. login' \in [Tabs -> LoginRecord] /\ logout' \in [Tabs -> LogoutRecord]
    BY <1>1, <1>3, <1>5 DEF Types
  <2>5. me' \in [Tabs -> {"user", "null", "absent", "denied"}]
    BY <1>1, <1>3 DEF Types
  <2>6. events' \in 0..MaxEvents /\ adrift' \subseteq Tokens
    BY <1>1, <1>3, <1>4, BoundAssumption DEF Types, AllIssued, Issued
  <2> QED BY <1>1, <1>3, <1>7, <2>1, <2>2, <2>3, <2>4, <2>5, <2>6 DEF Types
<1>10. Shared'
  <2>1. ASSUME NEW c \in Calls
        PROVE  IF call'[c].pc = "waiting"
                 THEN call'[c].on # Nil /\ promise'[TabOf[c]] = call'[c].on
                 ELSE call'[c].on = Nil
    <3>1. CASE TabOf[c] = x
      BY <1>5, <1>8, <3>1
    <3>2. CASE TabOf[c] # x
      <4>1. call'[c] = call[c] /\ promise'[TabOf[c]] = promise[TabOf[c]]
        BY <1>8, <3>2, TabAssumption
      <4> QED BY <1>1, <4>1 DEF Shared
    <3> QED BY <3>1, <3>2
  <2>2. ASSUME NEW y \in Tabs, promise'[y] # Nil
        PROVE  /\ TabOf[promise'[y]] = y /\ flight'[promise'[y]].awaited
               /\ call'[promise'[y]].on = promise'[y]
    <3> DEFINE p == promise[y]
    <3>1. y # x /\ promise'[y] = p /\ p # Nil
      BY <1>8, <2>2
    <3>2. p \in Calls /\ TabOf[p] = y /\ flight[p].awaited /\ call[p].on = p
      BY <1>1, <3>1 DEF Types, Shared
    <3> HIDE DEF p
    <3> QED BY <1>6, <1>8, <3>1, <3>2
  <2>3. ASSUME NEW o \in Calls, flight'[o].awaited
        PROVE  promise'[TabOf[o]] = o /\ flight'[o].pc # "idle"
    <3>1. TabOf[o] # x /\ flight'[o] = flight[o]
      BY <1>6, <2>3
    <3>2. promise[TabOf[o]] = o /\ flight[o].pc # "idle"
      BY <1>1, <2>3, <3>1 DEF Shared
    <3> QED BY <1>8, <3>1, <3>2, TabAssumption
  <2> QED BY <2>1, <2>2, <2>3 DEF Shared
<1>11. ASSUME NEW c \in Calls PROVE FlightGoesOn(c)
  <2>1. CASE TabOf[c] = x
    BY <1>6, <1>7, <2>1 DEF FlightGoesOn, Hears
  <2>2. CASE TabOf[c] # x
    <3>1. flight'[c] = flight[c]
      BY <1>6, <2>2
    <3> QED BY <3>1 DEF FlightGoesOn, Hears
  <2> QED BY <2>1, <2>2
<1>12. ASSUME NEW y \in Tabs PROVE TabGoesOn(y)
  <2>1. CASE y = x
    BY <1>3, <1>5, <1>7, <1>8, <2>1 DEF TabGoesOn
  <2>2. CASE y # x
    <3>1. login'[y] = login[y] /\ logout'[y] = logout[y]
      BY <1>8, <2>2
    <3>2. logout[y].pc \in {"find", "revoke"} => logout[y].tok # Nil
      BY <1>1 DEF AllIssued
    <3> QED BY <3>1, <3>2 DEF TabGoesOn
  <2> QED BY <2>1, <2>2
<1>13. DriftGoesOn
  BY <1>4 DEF DriftGoesOn
<1>14. TokensInv'
  BY <1>3, <1>7, <1>11, <1>12, <1>13, TokensKept
<1> QED BY <1>9, <1>10, <1>14 DEF IInv, TokensInv

-----------------------------------------------------------------------------
(* The invariant.                                                          *)

\* One good token is stored, and nothing is under way.
LEMMA InitInv == Init => IInv
<1> SUFFICES ASSUME Init PROVE IInv
  OBVIOUS
<1>1. 1 \in Tokens
  BY BoundAssumption DEF Tokens
<1>2. /\ token = [k \in Tokens |-> IF k = 1 THEN "live" ELSE "unused"]
      /\ store = 1 /\ me = [x \in Tabs |-> "user"]
      /\ call = [c \in Calls |-> NoCall] /\ flight = [c \in Calls |-> NoFlight]
      /\ promise = [x \in Tabs |-> Nil]
      /\ login = [x \in Tabs |-> NoPost] /\ logout = [x \in Tabs |-> NoPost]
      /\ adrift = {} /\ events = 0 /\ spentBy = [k \in Tokens |-> Nil] /\ lost = {}
  BY DEF Init
<1>3. /\ NoCall \in CallRecord /\ NoCall.pc = "idle" /\ NoCall.on = Nil
      /\ NoFlight \in FlightRecord /\ NoFlight.pc = "idle" /\ ~NoFlight.awaited
      /\ NoPost \in LoginRecord /\ NoPost \in LogoutRecord
      /\ NoPost.pc = "idle" /\ NoPost.tok = Nil
  BY DEF NoCall, CallRecord, NoFlight, FlightRecord, NoPost, LoginRecord, LogoutRecord, Numbers
<1>4. Types
  BY <1>1, <1>2, <1>3, BoundAssumption DEF Types, Numbers
<1>5. Shared
  BY <1>2, <1>3 DEF Shared
<1>6. AllIssued
  BY <1>1, <1>2, <1>3 DEF AllIssued, Issued
<1>7. AnswersUntouched
  BY <1>2, <1>3 DEF AnswersUntouched
<1>8. \A k \in Tokens, x \in Tabs : SpentIsHeard(k, x)
  BY <1>2, NilAssumption DEF SpentIsHeard
<1>9. StoreIsGood
  BY <1>1, <1>2 DEF StoreIsGood
<1> QED BY <1>4, <1>5, <1>6, <1>7, <1>8, <1>9 DEF IInv

\* Nothing moves.
LEMMA StutterStep == ASSUME IInv, UNCHANGED vars PROVE IInv'
<1>1. /\ UNCHANGED <<token, store, me, call, flight, promise, login, logout, adrift, events>>
      /\ UNCHANGED <<spentBy, lost>>
  BY DEF vars, ghosts
<1>2. Types'
  BY <1>1 DEF IInv, Types
<1>3. \A x \in Tabs : TabGoesOn(x)
  BY <1>1, AllStay
<1> QED BY <1>1, <1>2, <1>3, NoFlightMoves DEF DriftGoesOn

\* Every step of the browser and the server keeps it.
LEMMA NextInv == IInv /\ [Next]_vars => IInv'
<1> SUFFICES ASSUME IInv, [Next]_vars PROVE IInv'
  OBVIOUS
<1>1. ASSUME NEW c \in Calls, CallStep(c) PROVE IInv'
  BY <1>1, CallEndsStep, JoinRefreshStep, StartRefreshStep, FlightGoesOnStep, RotateStep,
     SettleOkStep, RefreshEndsStep DEF CallStep
<1>2. ASSUME NEW c \in Calls, SendCall(c) \/ RefreshFails(c) \/ Disconnect(c) PROVE IInv'
  BY <1>2, SendCallStep, FlightGoesOnStep, RefreshEndsStep
<1>3. ASSUME NEW x \in Tabs, TabStep(x) PROVE IInv'
  BY <1>3, LogoutStep, LogoutRevokeStep, IssueTokensStep, SetTokensStep, LoginStep DEF TabStep
<1>4. ASSUME NEW x \in Tabs, StartLogout(x) \/ StartLogin(x) \/ LogoutLost(x) \/ Reload(x)
      PROVE  IInv'
  BY <1>4, LogoutStep, LoginStep, ReloadStep
<1>5. ASSUME NEW k \in adrift, LateLogout(k) PROVE IInv'
  BY <1>5, LateLogoutStep
<1>6. CASE Rest \/ UNCHANGED vars
  BY <1>6, StutterStep DEF Rest
<1> QED BY <1>1, <1>2, <1>3, <1>4, <1>5, <1>6 DEF Next

-----------------------------------------------------------------------------
(* What it says to a reader.                                               *)

\* The invariant of the interceptors, useAuth, useLogin and AuthService.
THEOREM SessionsInvariance == Spec => []IInv
<1>1. IInv /\ [Next]_vars => IInv'
  BY NextInv
<1> QED BY InitInv, <1>1, PTL DEF Spec

\* Tabs, calls, refreshes and tokens have their types, and every refresh under
\* way carries a token (api/interceptors.ts).
THEOREM TypeCorrectness == Spec => []TypeOK
<1>1. IInv => TypeOK
  BY DEF IInv, Types, AllIssued, Issued, TypeOK, CallRecord, FlightRecord, LoginRecord,
         LogoutRecord
<1> QED BY SessionsInvariance, <1>1, PTL

\* Calls that meet a 401 together share one refresh (refreshPromise).
THEOREM OneRefreshPerTab == Spec => []PromiseIsShared
<1>1. IInv => PromiseIsShared
  <2> SUFFICES ASSUME IInv PROVE PromiseIsShared
    OBVIOUS
  <2>1. Shared
    BY DEF IInv
  <2>2. ASSUME NEW c \in Calls, call[c].pc = "waiting"
        PROVE  promise[TabOf[c]] = call[c].on /\ flight[call[c].on].awaited
    BY <2>1, <2>2, TabAssumption DEF Shared
  <2>3. ASSUME NEW x \in Tabs, promise[x] # Nil
        PROVE  flight[promise[x]].awaited /\ call[promise[x]].on = promise[x]
    BY <2>1, <2>3 DEF Shared
  <2> QED BY <2>2, <2>3 DEF PromiseIsShared
<1> QED BY SessionsInvariance, <1>1, PTL

\* The refresh token that localStorage keeps is good once all is quiet
\* (token-manager, AuthService.refresh, logout and login).
THEOREM StoredTokensWork == Spec => []StoredTokenIsAlive
<1>1. IInv => StoredTokenIsAlive
  BY DEF IInv, StoreIsGood, Hears, StoredTokenIsAlive, Quiet
<1> QED BY SessionsInvariance, <1>1, PTL

\* A refresh is refused for what another tab, a sign-out or a lost answer did
\* to the token, never for another call of its own tab.
THEOREM NoTabEndsItsOwnSession == Spec => []KickedOutByOthers
<1>1. IInv => KickedOutByOthers
  <2> SUFFICES ASSUME IInv, NEW o \in Calls, flight[o].pc = "refused", flight[o].awaited,
                      spentBy[flight[o].tok] = TabOf[o]
               PROVE  flight[o].tok \in lost
    BY DEF KickedOutByOthers
  <2>1. flight[o].tok \in Tokens /\ TabOf[o] \in Tabs
    BY TabAssumption DEF IInv, AllIssued, Issued
  <2> QED BY <2>1 DEF IInv, SpentIsHeard
<1> QED BY SessionsInvariance, <1>1, PTL

\* What makes tab x signed out.
ReasonFor(x) ==
  \/ \E y \in Tabs : logout[y].pc = "done" /\ logout'[y].pc = "idle"
  \/ \E o \in Calls : flight[o].pc = "refused" /\ flight'[o].pc = "idle"
  \/ \E c \in CallsOf(x) : me[x] = "absent" /\ call[c].retried /\ call'[c].pc = "idle"

\* The token goes only with a sign-out or a refused refresh.
LEMMA TokenGoes ==
  ASSUME IInv, [Next]_vars, store # Nil, store' = Nil, NEW x \in Tabs PROVE ReasonFor(x)
<1>1. Types /\ AllIssued /\ Nil \notin Tokens
  BY NilAssumption DEF IInv
<1>2. ASSUME NEW o \in Calls, SettleRefused(o) PROVE ReasonFor(x)
  <2>1. flight[o].pc = "refused" /\ flight' = [flight EXCEPT ![o] = NoFlight]
    BY <1>2 DEF SettleRefused
  <2>2. flight'[o].pc = "idle"
    BY <1>1, <2>1 DEF Types, NoFlight
  <2> QED BY <2>1, <2>2 DEF ReasonFor
<1>3. ASSUME NEW y \in Tabs, FinishLogout(y) PROVE ReasonFor(x)
  <2>1. logout[y].pc = "done" /\ logout' = [logout EXCEPT ![y] = NoPost]
    BY <1>3 DEF FinishLogout
  <2>2. logout'[y].pc = "idle"
    BY <1>1, <2>1 DEF Types, NoPost
  <2> QED BY <2>1, <2>2 DEF ReasonFor
<1>4. ASSUME NEW c \in Calls, CallStep(c) PROVE SettleRefused(c)
  <2>1. ~SettleOk(c)
    BY <1>1 DEF SettleOk, AllIssued, Issued
  <2>2. ASSUME \/ AnswerCall(c) \/ CallFails(c) \/ RejectRetried(c) \/ RejectSignedOut(c)
               \/ JoinRefresh(c) \/ StartRefresh(c) \/ FindRefreshToken(c) \/ Rotate(c)
               \/ SettleFailed(c) \/ Unheard(c)
        PROVE  store' = store
    BY <2>2 DEF AnswerCall, CallFails, RejectRetried, RejectSignedOut, JoinRefresh,
           StartRefresh, FindRefreshToken, Rotate, SettleFailed, Unheard
  <2> QED BY <1>4, <2>1, <2>2 DEF CallStep
<1>5. ASSUME NEW y \in Tabs, TabStep(y) PROVE FinishLogout(y)
  <2>1. ~SetTokens(y)
    BY <1>1 DEF SetTokens, AllIssued, Issued
  <2>2. LogoutFind(y) \/ LogoutRevoke(y) \/ IssueTokens(y) \/ FinishLogin(y) => store' = store
    BY DEF LogoutFind, LogoutRevoke, IssueTokens, FinishLogin
  <2> QED BY <1>5, <2>1, <2>2 DEF TabStep
<1>6. ASSUME NEW c \in Calls, SendCall(c) \/ RefreshFails(c) \/ Disconnect(c) PROVE FALSE
  BY <1>6 DEF SendCall, RefreshFails, Disconnect
<1>7. ASSUME NEW y \in Tabs, StartLogout(y) \/ StartLogin(y) \/ LogoutLost(y) \/ Reload(y)
      PROVE  FALSE
  BY <1>7 DEF StartLogout, StartLogin, LogoutLost, Reload
<1>8. ~(Rest \/ UNCHANGED vars) /\ ~\E k \in adrift : LateLogout(k)
  BY DEF Rest, vars, LateLogout
<1> QED BY <1>2, <1>3, <1>4, <1>5, <1>6, <1>7, <1>8 DEF Next

\* auth.me is denied only to a call that has been refreshed before.
LEMMA DeniedOnceRefreshed ==
  ASSUME IInv, [Next]_vars, NEW x \in Tabs, me[x] # "denied", me'[x] = "denied"
  PROVE  ReasonFor(x)
<1>1. Types
  BY DEF IInv
<1> DEFINE Told == \E y \in Tabs : \E m \in {"user", "null", "absent", me[y]} :
                     me' = [me EXCEPT ![y] = m]
<1>2. me' # me
  OBVIOUS
<1>3. ~Told
  <2> SUFFICES ASSUME NEW y \in Tabs, NEW m \in {"user", "null", "absent", me[y]},
                      me' = [me EXCEPT ![y] = m]
               PROVE  FALSE
    OBVIOUS
  <2>1. me'[x] = IF x = y THEN m ELSE me[x]
    BY <1>1 DEF Types
  <2> QED BY <2>1
<1>4. ASSUME NEW c \in Calls, RejectRetried(c) PROVE ReasonFor(x)
  <2>1. /\ call[c].retried /\ call' = [call EXCEPT ![c] = NoCall]
        /\ me' = [me EXCEPT ![TabOf[c]] = IF @ = "absent" THEN "denied" ELSE @]
    BY <1>4 DEF RejectRetried
  <2>2. TabOf[c] = x /\ me[x] = "absent"
    BY <1>1, <2>1, TabAssumption DEF Types
  <2>3. call'[c].pc = "idle"
    BY <1>1, <2>1 DEF Types, NoCall
  <2> QED BY <2>1, <2>2, <2>3 DEF ReasonFor, CallsOf
<1>5. ASSUME NEW c \in Calls,
             AnswerCall(c) \/ RejectSignedOut(c) \/ SendCall(c) \/ SettleRefused(c)
      PROVE  Told
  <2>1. TabOf[c] \in Tabs
    BY TabAssumption
  <2> QED BY <1>5, <2>1 DEF AnswerCall, RejectSignedOut, SendCall, SettleRefused
<1>6. ASSUME NEW y \in Tabs, FinishLogout(y) \/ FinishLogin(y) \/ Reload(y) PROVE Told \/ me' = me
  BY <1>6 DEF FinishLogout, FinishLogin, Reload
<1> HIDE DEF Told
<1>7. ASSUME NEW c \in Calls, CallStep(c) PROVE ReasonFor(x)
  <2>1. ASSUME \/ CallFails(c) \/ JoinRefresh(c) \/ StartRefresh(c) \/ FindRefreshToken(c)
               \/ Rotate(c) \/ SettleOk(c) \/ SettleFailed(c) \/ Unheard(c)
        PROVE  me' = me
    BY <2>1 DEF CallFails, JoinRefresh, StartRefresh, FindRefreshToken, Rotate, SettleOk,
           SettleFailed, Unheard
  <2> QED BY <1>2, <1>3, <1>4, <1>5, <1>7, <2>1 DEF CallStep
<1>8. ASSUME NEW c \in Calls, SendCall(c) \/ RefreshFails(c) \/ Disconnect(c) PROVE FALSE
  <2>1. RefreshFails(c) \/ Disconnect(c) => me' = me
    BY DEF RefreshFails, Disconnect
  <2> QED BY <1>2, <1>3, <1>5, <1>8, <2>1
<1>9. ASSUME NEW y \in Tabs, TabStep(y) \/ Reload(y) PROVE FALSE
  <2>1. LogoutFind(y) \/ LogoutRevoke(y) \/ IssueTokens(y) \/ SetTokens(y) => me' = me
    BY DEF LogoutFind, LogoutRevoke, IssueTokens, SetTokens
  <2> QED BY <1>2, <1>3, <1>6, <1>9, <2>1 DEF TabStep
<1>10. ASSUME NEW y \in Tabs, StartLogout(y) \/ StartLogin(y) \/ LogoutLost(y) PROVE FALSE
  BY <1>2, <1>10 DEF StartLogout, StartLogin, LogoutLost
<1>11. ~(Rest \/ UNCHANGED vars) /\ ~\E k \in adrift : LateLogout(k)
  BY <1>2 DEF Rest, vars, LateLogout
<1> QED BY <1>7, <1>8, <1>9, <1>10, <1>11 DEF Next

\* Nothing but a sign-out, a refused refresh or a denied auth.me signs a tab out
\* (interceptors.ts, useAuth).
THEOREM SessionsEndForAReason == Spec => SignedOutForAReason
<1>1. ASSUME IInv, [Next]_vars, NEW x \in Tabs,
             Status(x) # "unauthenticated", Status(x)' = "unauthenticated"
      PROVE  ReasonFor(x)
  <2>1. store # Nil /\ me[x] # "denied"
    BY <1>1 DEF Status
  <2>2. store' = Nil \/ me'[x] = "denied"
    BY <1>1 DEF Status
  <2> QED BY <1>1, <2>1, <2>2, TokenGoes, DeniedOnceRefreshed
<1>2. IInv /\ [Next]_vars =>
        [\A x \in Tabs : Status(x) # "unauthenticated" /\ Status(x)' = "unauthenticated" =>
           \/ \E y \in Tabs : logout[y].pc = "done" /\ logout'[y].pc = "idle"
           \/ \E o \in Calls : flight[o].pc = "refused" /\ flight'[o].pc = "idle"
           \/ \E c \in CallsOf(x) : me[x] = "absent" /\ call[c].retried
                                      /\ call'[c].pc = "idle"]_vars
  BY <1>1 DEF ReasonFor
<1> QED BY SessionsInvariance, <1>2, PTL DEF Spec, SignedOutForAReason
=============================================================================
