-------------------------- MODULE BrowserSessions --------------------------
(***************************************************************************)
(* Who a browser tab acts for.  A tab follows the Supabase login with a    *)
(* chain of tasks that exchange the access token for a server session      *)
(* (frontend App.jsx, api.js); the server keeps the sessions and checks    *)
(* each mutation and each socket against them (internal/auth,              *)
(* internal/realtime/websocket.go).  The tabs of a browser share its       *)
(* cookies and its login: one tab is modelled, and of the others whatever  *)
(* they may do to what is shared.                                          *)
(*                                                                         *)
(* A session is its number; its cookie and its CSRF token are that number. *)
(* The two cookies are always set and expired by the same answer.  The     *)
(* counters of the tab are modelled by what they are compared for: a task  *)
(* is of the latest auth event when it is the last of the chain, and a     *)
(* request knows whether sessionGeneration is still the one it started in. *)
(***************************************************************************)
EXTENDS Integers, Sequences

CONSTANTS
  Accounts,
  Tokens, Owner,   \* access tokens and the account each was issued for
  NoOne,           \* signed out; account 0, as it were
  MaxEvents,       \* bound: auth events the tab has not seen or not finished with
  MaxSessions,     \* bound: sessions created
  MaxFaults        \* bound: requests lost or refused, failed sign-outs

ASSUME SessionsAssumption ==
  /\ NoOne \notin Tokens
  /\ Owner \in [Tokens -> Accounts]
  /\ {MaxEvents, MaxSessions, MaxFaults} \subseteq Nat

VARIABLES
  sessions,   \* web_sessions: the account of each, and whether it can be used
  cookie,     \* the session in the browser's cookies, 0 if there is none
  login,      \* the access token Supabase holds for the browser, or NoOne
  events,     \* auth events the tab has still to see
  tab,        \* backendTokenRef, authSession, sessionCSRF, and whether a sign-out
              \* took the last and left the others
  tasks,      \* backendSessionTaskRef: the chain
  boot,       \* POST /api/session, in flight
  out,        \* signOut, under way
  socket,     \* the room's socket and the session it was opened with
  faults

vars == <<sessions, cookie, login, events, tab, tasks, boot, out, socket, faults>>

NoRequest == [at |-> "none"]
NoSocket == [at |-> "none", session |-> 0, late |-> 0]

(* The page is loaded; the login is the first event.                       *)
Init ==
  /\ sessions = <<>> /\ cookie = 0 /\ faults = 0
  /\ login \in Tokens /\ events = <<login>> /\ tasks = <<>>
  /\ tab = [token |-> NoOne, shown |-> NoOne, csrf |-> 0, half |-> FALSE]
  /\ boot = NoRequest /\ out = NoRequest
  /\ socket = NoSocket

Fault == faults < MaxFaults /\ faults' = faults + 1

-----------------------------------------------------------------------------
(* The server's sessions: session.go and postgres.go.                      *)

Live(s) == s \in DOMAIN sessions /\ sessions[s].live
Revoked(s) == [i \in DOMAIN sessions |-> [sessions[i] EXCEPT !.live = @ /\ i # s]]
Created(known, account) == Append(known, [account |-> account, live |-> TRUE])

(* A limit of a session passes, or another tab signs out.  Cleanup deletes *)
(* what cannot be used any more.                                           *)
Expire(s) ==
  /\ Live(s)
  /\ sessions' = Revoked(s)
  /\ UNCHANGED <<cookie, login, events, tab, tasks, boot, out, socket, faults>>

(* Another tab exchanges a token, and its answer sets the cookies.         *)
OtherBootstraps(account) ==
  /\ Len(sessions) < MaxSessions
  /\ sessions' \in {Created(sessions, account), Created(Revoked(cookie), account)}
  /\ cookie' = Len(sessions')
  /\ UNCHANGED <<login, events, tab, tasks, boot, out, socket, faults>>

(* A late answer to another tab sets the cookies or expires them.          *)
OtherAnswers(s) ==
  /\ cookie' = s
  /\ UNCHANGED <<sessions, login, events, tab, tasks, boot, out, socket, faults>>

-----------------------------------------------------------------------------
(* Supabase's events, of this tab or of others.                            *)

Room == Len(events) + Len(tasks) < MaxEvents
Tell(token) == Room /\ login' = token /\ events' = Append(events, token)

(* Somebody signs in or out, the token is refreshed, or the tab is told    *)
(* again what it knows: by getSession, by the form, or when it is shown.   *)
AuthEvent(token) ==
  /\ Tell(token)
  /\ UNCHANGED <<sessions, cookie, tab, tasks, boot, out, socket, faults>>

-----------------------------------------------------------------------------
(* establishSession and bootstrapSession.                                  *)

(* clearSessionSecurity: requests under way are of an older generation.    *)
Outdated(request) == IF "current" \in DOMAIN request THEN [request EXCEPT !.current = FALSE] ELSE request
KeepsToken(state) ==  \* mutant: only the generation is advanced
  tab' = state /\ out' = Outdated(out)
Clear(state) == tab' = [state EXCEPT !.csrf = 0] /\ out' = Outdated(out)

(* The part that runs at once.                                             *)
Establish ==
  /\ events # <<>>
  /\ LET next == Head(events)
         hidden == [tab EXCEPT !.shown = NoOne]
     IN /\ \/ /\ next = NoOne
              /\ Clear([hidden EXCEPT !.token = NoOne, !.half = FALSE])
              /\ boot' = Outdated(boot)
           \/ /\ next # NoOne
              /\ tab' = IF tab.token # next THEN hidden ELSE tab
              /\ UNCHANGED <<boot, out>>
        /\ tasks' = Append(tasks, next)
  /\ events' = Tail(events)
  /\ UNCHANGED <<sessions, cookie, login, socket, faults>>

(* The part that waits for its turn in the chain.                          *)
Task == Head(tasks)
Latest == Len(tasks) = 1
Done == tasks' = Tail(tasks)

SkipTask ==
  /\ boot = NoRequest /\ Len(tasks) > 1
  /\ Done
  /\ UNCHANGED <<sessions, cookie, login, events, tab, boot, out, socket, faults>>

ForgetSession ==
  /\ boot = NoRequest /\ tasks = <<NoOne>>
  /\ Clear([tab EXCEPT !.token = NoOne, !.shown = NoOne, !.half = FALSE])
  /\ Done
  /\ UNCHANGED <<sessions, cookie, login, events, boot, socket, faults>>

ShowSession ==
  /\ boot = NoRequest /\ tasks = <<tab.token>> /\ tab.token # NoOne
  /\ tab' = [tab EXCEPT !.shown = tab.token]
  /\ Done
  /\ UNCHANGED <<sessions, cookie, login, events, boot, out, socket, faults>>

KeepsReference ==  \* mutant: the token before it still counts as exchanged
  /\ boot = NoRequest /\ Latest /\ Task \notin {NoOne, tab.token}
  /\ Clear(tab)
  /\ boot' = [at |-> "sent", cookie |-> cookie, session |-> 0, current |-> TRUE]
  /\ UNCHANGED <<sessions, cookie, login, events, tasks, socket, faults>>
SendToken ==
  /\ boot = NoRequest /\ Latest /\ Task \notin {NoOne, tab.token}
  /\ Clear([tab EXCEPT !.token = NoOne, !.half = FALSE])
  /\ boot' = [at |-> "sent", cookie |-> cookie, session |-> 0, current |-> TRUE]
  /\ UNCHANGED <<sessions, cookie, login, events, tasks, socket, faults>>

(* bootstrap in http.go: the session of the cookie if it is this account's, *)
(* otherwise a new one in its place, with new cookies.                     *)
AnySession(s, account) == Live(s)  \* mutant: the cookie's session answers for any account
Reusable(s, account) == Live(s) /\ sessions[s].account = account

Bootstrap ==
  /\ boot.at = "sent"
  /\ \/ /\ Reusable(boot.cookie, Owner[Task])
        /\ boot' = [boot EXCEPT !.at = "answered", !.session = boot.cookie]
        /\ UNCHANGED sessions
     \/ /\ ~Reusable(boot.cookie, Owner[Task]) /\ Len(sessions) < MaxSessions
        /\ sessions' = Created(Revoked(boot.cookie), Owner[Task])
        /\ boot' = [boot EXCEPT !.at = "answered", !.session = Len(sessions')]
  /\ UNCHANGED <<cookie, login, events, tab, tasks, out, socket, faults>>

(* The answer.  Its token is installed if nothing cleared the security     *)
(* context meanwhile, and a superseded task goes no further.               *)
Installed == IF boot.current THEN [tab EXCEPT !.csrf = boot.session] ELSE tab
ShowsAnyway(state) ==  \* mutant: a superseded task shows its account
  [state EXCEPT !.token = Task, !.shown = Task]
Certified(state) == IF Latest THEN [state EXCEPT !.token = Task, !.shown = Task] ELSE state

Answer ==
  /\ boot.at = "answered"
  /\ cookie' = IF boot.session # boot.cookie THEN boot.session ELSE cookie
  /\ tab' = Certified(Installed)
  /\ boot' = NoRequest
  /\ Done
  /\ UNCHANGED <<sessions, login, events, out, socket, faults>>

(* The request or its answer is lost, or refused: the task fails.          *)
BootstrapFails ==
  /\ Fault /\ boot # NoRequest
  /\ boot' = NoRequest
  /\ Done
  /\ UNCHANGED <<sessions, cookie, login, events, tab, out, socket>>

-----------------------------------------------------------------------------
(* signOut and logoutSession.                                              *)

(* signOut waits for the chain, which never awaits an answer while an      *)
(* account is shown.  Without a token it cannot go on ("Sign in again").   *)
SignOut ==
  /\ tab.shown # NoOne /\ tasks = <<>> /\ tab.csrf # 0 /\ out = NoRequest
  /\ out' = [at |-> "sent", cookie |-> cookie, csrf |-> tab.csrf, current |-> TRUE]
  /\ UNCHANGED <<sessions, cookie, login, events, tab, tasks, boot, socket, faults>>

(* Authenticate and ValidateMutation, for every mutation of the tab.       *)
Accepts(request) == Live(request.cookie) /\ request.csrf = request.cookie

(* logout in http.go.  A refusal ends signOut with an error.               *)
Revoke ==
  /\ out.at = "sent"
  /\ IF Accepts(out) THEN sessions' = Revoked(out.cookie) /\ out' = [out EXCEPT !.at = "revoked"]
     ELSE out' = NoRequest /\ UNCHANGED sessions
  /\ UNCHANGED <<cookie, login, events, tab, tasks, boot, socket, faults>>

(* The answer expires the cookies, whatever they hold by now.              *)
LoggedOut ==
  /\ out.at = "revoked"
  /\ cookie' = 0
  /\ tab' = [tab EXCEPT !.csrf = IF out.current THEN 0 ELSE @]
  /\ out' = [at |-> "supabase"]
  /\ UNCHANGED <<sessions, login, events, tasks, boot, socket, faults>>

(* supabase.auth.signOut, and the reset of the tab after it.               *)
SignedOut ==
  /\ out.at = "supabase"
  /\ Tell(NoOne)
  /\ tab' = [tab EXCEPT !.token = NoOne, !.shown = NoOne, !.half = FALSE]
  /\ out' = NoRequest
  /\ UNCHANGED <<sessions, cookie, tasks, boot, socket, faults>>

LogoutFails ==
  /\ Fault /\ out.at \in {"sent", "revoked"}
  /\ out' = NoRequest
  /\ UNCHANGED <<sessions, cookie, login, events, tab, tasks, boot, socket>>

(* The server session is gone; the login, and what the tab shows, are not. *)
SignOutFails ==
  /\ Fault /\ out.at = "supabase"
  /\ out' = NoRequest
  /\ tab' = [tab EXCEPT !.half = tab.token # NoOne /\ tab.csrf = 0]
  /\ UNCHANGED <<sessions, cookie, login, events, tasks, boot, socket>>

-----------------------------------------------------------------------------
(* The socket.                                                             *)

(* ServeHTTP authenticates the cookie's session.                           *)
Open ==
  /\ socket = NoSocket /\ Live(cookie)
  /\ socket' = [at |-> "open", session |-> cookie, late |-> 0]
  /\ UNCHANGED <<sessions, cookie, login, events, tab, tasks, boot, out, faults>>

(* serveConnection revalidates before it writes a snapshot, and on a tick. *)
Late == IF Live(socket.session) THEN 0 ELSE 1
WritesUnchecked ==  \* mutant: a snapshot is written without revalidating the session
  /\ socket.at = "open"
  /\ socket' = [socket EXCEPT !.at = "checked"]
  /\ UNCHANGED <<sessions, cookie, login, events, tab, tasks, boot, out, faults>>
Revalidate ==
  /\ socket.at = "open"
  /\ socket' = IF Live(socket.session) THEN [socket EXCEPT !.at = "checked"] ELSE NoSocket
  /\ UNCHANGED <<sessions, cookie, login, events, tab, tasks, boot, out, faults>>

(* The browser or the network ends it, a write or a ping fails, or the     *)
(* lease cannot be renewed.                                                *)
Hangup ==
  /\ socket # NoSocket
  /\ socket' = NoSocket
  /\ UNCHANGED <<sessions, cookie, login, events, tab, tasks, boot, out, faults>>

Write ==
  /\ socket.at = "checked" /\ socket.late < 2
  /\ socket' = [socket EXCEPT !.at = "open", !.late = @ + Late]
  /\ UNCHANGED <<sessions, cookie, login, events, tab, tasks, boot, out, faults>>

Others ==
  \/ \E account \in Accounts : OtherBootstraps(account)
  \/ \E s \in 0 .. Len(sessions) : OtherAnswers(s) \/ Expire(s)
Tab == Establish \/ SkipTask \/ ForgetSession \/ ShowSession \/ SendToken \/ Answer
Leaving == SignOut \/ Revoke \/ LoggedOut \/ SignedOut
Socket == Open \/ Revalidate \/ Write \/ Hangup
Faults == BootstrapFails \/ LogoutFails \/ SignOutFails

Next ==
  \/ \E token \in Tokens \cup {NoOne} : AuthEvent(token)
  \/ Others \/ Tab \/ Bootstrap \/ Leaving \/ Socket \/ Faults

Spec == Init /\ [][Next]_vars

-----------------------------------------------------------------------------
Quiet == events = <<>> /\ tasks = <<>> /\ out = NoRequest

(* At no moment does the tab hold the token of a session of another        *)
(* account than it shows.  The server refuses a mutation unless the cookie *)
(* is that of the session whose token it carries: so it runs for the       *)
(* account the tab showed when the player made it, however often it is     *)
(* sent and whatever other tabs do to the cookies meanwhile.               *)
TokenOfShown == tab.shown # NoOne /\ tab.csrf # 0 =>
  sessions[tab.csrf].account = Owner[tab.shown]

(* A tab that has caught up shows the login of the browser, or nobody: the *)
(* latest auth event wins, in whatever order the answers came.             *)
ShowsLatest == Quiet => tab.shown \in {NoOne, login}

(* What a tab shows, it can act for: it holds a token.  Only a sign-out    *)
(* that Supabase refused, after the server had revoked the session, leaves *)
(* a tab that shows an account and has none.                               *)
ShownCanAct == Quiet /\ tab.shown # NoOne /\ ~tab.half => tab.csrf # 0

(* A browser that is signed out holds no token: a bootstrap that is        *)
(* answered after the sign-out installs none.                              *)
SignedOutForgets == Quiet /\ login = NoOne => tab.csrf = 0

(* After its session is revoked or has expired, a socket gets at most the  *)
(* one frame that was checked before (README, failure drill 5).            *)
OneLateFrame == socket.late <= 1
=============================================================================
