--------------------------- MODULE SessionProofs ---------------------------
(***************************************************************************)
(* Proofs about BrowserSessions for any accounts, tokens and bounds.       *)
(***************************************************************************)
EXTENDS BrowserSessions, SequenceTheorems, TLAPS

Logins == Tokens \cup {NoOne}
Pending == [at : {"sent", "answered"}, cookie : Nat, session : Nat, current : BOOLEAN]
Asked == [at : {"sent", "revoked"}, cookie : Nat, csrf : Nat, current : BOOLEAN]
Supabase == [at |-> "supabase"]

TabType == [token : Logins, shown : Logins, csrf : Nat, half : BOOLEAN]
SessionType == [account : Accounts, live : BOOLEAN]

ServerTypes == sessions \in Seq(SessionType) /\ cookie \in Nat
ChainTypes ==
  /\ login \in Logins /\ events \in Seq(Logins) /\ tasks \in Seq(Logins)
  /\ tab \in TabType
RequestTypes == boot \in {NoRequest} \cup Pending /\ out \in {NoRequest, Supabase} \cup Asked
SocketTypes == socket \in [at : {"none", "open", "checked"}, session : Nat, late : Nat]

IssuedFor(s, account) == s \in DOMAIN sessions /\ sessions[s].account = account

(* While an exchange is under way the tab shows nothing and vouches for    *)
(* nothing; the token that was answered is the one of the task's account.  *)
Exchanging == boot # NoRequest =>
  /\ tasks # <<>> /\ Task # NoOne
  /\ tab.token = NoOne /\ tab.shown = NoOne /\ tab.csrf = 0
  /\ ~boot.current => Len(tasks) > 1
  /\ boot.at = "answered" => IssuedFor(boot.session, Owner[Task])

(* The CSRF token is of the account of the access token it was exchanged   *)
(* for, and only a sign-out takes it away.                                 *)
Vouched == tab.token # NoOne =>
  /\ tab.csrf # 0 => IssuedFor(tab.csrf, Owner[tab.token])
  /\ ~tab.half /\ out # Supabase => tab.csrf # 0

(* An account is shown only while nothing else is on its way in the chain. *)
Shown == tab.shown # NoOne =>
  tab.shown = tab.token /\ \A i \in DOMAIN tasks : tasks[i] = tab.token

(* The last thing the tab will see, or has seen, is the browser's login.   *)
Newest ==
  IF events # <<>> THEN events[Len(events)] = login
  ELSE IF tasks # <<>> THEN tasks[Len(tasks)] = login
  ELSE tab.shown \in {NoOne, login} /\ (login = NoOne => tab.csrf = 0)

(* A late frame is the last one: its session stays dead.                   *)
LastFrame == socket.at # "none" =>
  /\ socket.session \in DOMAIN sessions
  /\ socket.late \in {0, 1}
  /\ socket.late = 1 => socket.at = "open" /\ ~sessions[socket.session].live

Types == ServerTypes /\ ChainTypes /\ RequestTypes /\ SocketTypes
SessionInv ==
  Types /\ Exchanging /\ Vouched /\ Shown /\ Newest /\ LastFrame /\ (socket.at = "none" => socket.late = 0)

-----------------------------------------------------------------------------
(* The server's operations on its sessions.                                *)

(* A session keeps its account, and one that is dead stays dead.           *)
Kept == \A s \in DOMAIN sessions :
  /\ s \in DOMAIN sessions'
  /\ sessions'[s].account = sessions[s].account
  /\ sessions'[s].live => sessions[s].live

(* Revoking a session changes no other and removes none.                   *)
LEMMA RevokedKeeps ==
  ASSUME sessions \in Seq(SessionType), NEW s
  PROVE  /\ Revoked(s) \in Seq(SessionType) /\ DOMAIN Revoked(s) = DOMAIN sessions
         /\ Len(Revoked(s)) = Len(sessions)
         /\ \A i \in DOMAIN sessions : /\ Revoked(s)[i].account = sessions[i].account
                                       /\ Revoked(s)[i].live => sessions[i].live
<1>1. DOMAIN sessions = 1 .. Len(sessions) /\ Len(sessions) \in Nat
  OBVIOUS
<1>2. ASSUME NEW i \in DOMAIN sessions
      PROVE  /\ [sessions[i] EXCEPT !.live = @ /\ i # s] \in SessionType
             /\ [sessions[i] EXCEPT !.live = @ /\ i # s].account = sessions[i].account
             /\ [sessions[i] EXCEPT !.live = @ /\ i # s].live => sessions[i].live
  <2>1. sessions[i] \in SessionType
    BY <1>1
  <2> QED
    BY <2>1 DEF SessionType
<1>3. Revoked(s) \in [1 .. Len(sessions) -> SessionType]
  BY <1>1, <1>2 DEF Revoked
<1>4. Revoked(s) \in Seq(SessionType) /\ Len(Revoked(s)) = Len(sessions)
  BY <1>1, <1>3
<1> QED
  BY <1>1, <1>2, <1>3, <1>4 DEF Revoked

(* A new session is the last one, for the account it was made for.         *)
LEMMA CreatedKeeps ==
  ASSUME NEW known \in Seq(SessionType), NEW account \in Accounts
  PROVE  /\ Created(known, account) \in Seq(SessionType)
         /\ Len(Created(known, account)) = Len(known) + 1
         /\ DOMAIN known \subseteq DOMAIN Created(known, account)
         /\ \A i \in DOMAIN known : Created(known, account)[i] = known[i]
         /\ Created(known, account)[Len(known) + 1].account = account
         /\ Len(known) + 1 \in DOMAIN Created(known, account)
<1>1. [account |-> account, live |-> TRUE] \in SessionType
  BY DEF SessionType
<1> QED
  BY <1>1 DEF Created

(* What a step that only grows or revokes sessions keeps.                  *)
LEMMA KeptIssued ==
  ASSUME Kept, NEW s, NEW account, IssuedFor(s, account)
  PROVE  IssuedFor(s, account)'
BY DEF Kept, IssuedFor

(* The sessions a socket was checked against are still there.              *)
LEMMA KeptFrame ==
  ASSUME Kept, LastFrame, socket' = socket, socket \in [at : {"none", "open", "checked"}, session : Nat, late : Nat],
         sessions \in Seq(SessionType), sessions' \in Seq(SessionType)
  PROVE  LastFrame'
<1>1. CASE socket.at = "none"
  BY <1>1 DEF LastFrame
<1>2. CASE socket.at # "none"
  <2>1. socket.session \in DOMAIN sessions /\ socket.session \in DOMAIN sessions'
    BY <1>2 DEF LastFrame, Kept
  <2>2. sessions'[socket.session].live => sessions[socket.session].live
    BY <2>1 DEF Kept
  <2> QED
    BY <1>2, <2>1, <2>2 DEF LastFrame
<1> QED
  BY <1>1, <1>2

(* A step of the server alone that keeps the sessions it issued.           *)
LEMMA ServerStep ==
  ASSUME SessionInv, Kept, ServerTypes', UNCHANGED <<login, events, tab, tasks, socket>>,
         boot' = boot, out' = out
  PROVE  SessionInv'
<1> USE DEF SessionInv, Types
<1>1. LastFrame'
  BY KeptFrame DEF ServerTypes, SocketTypes
<1>2. Exchanging'
  BY KeptIssued DEF Exchanging, Task
<1>3. Vouched'
  BY KeptIssued DEF Vouched
<1> QED
  BY <1>1, <1>2, <1>3 DEF ChainTypes, RequestTypes, SocketTypes, Shown, Newest

(* An expired session is gone, as if it were revoked.                      *)
LEMMA ExpireStep ==
  ASSUME SessionInv, NEW s, Expire(s)
  PROVE  SessionInv'
<1>1. ServerTypes' /\ Kept
  BY RevokedKeeps DEF SessionInv, Types, ServerTypes, Expire, Kept
<1> QED
  BY <1>1, ServerStep DEF Expire

(* A bootstrap keeps every session but the one it replaces.                *)
LEMMA GrownKeeps ==
  ASSUME ServerTypes, NEW account \in Accounts, NEW s,
         sessions' \in {Created(sessions, account), Created(Revoked(s), account)}
  PROVE  /\ sessions' \in Seq(SessionType) /\ Kept /\ Len(sessions') \in Nat
         /\ Len(sessions') \in DOMAIN sessions' /\ sessions'[Len(sessions')].account = account
<1>1. CASE sessions' = Created(sessions, account)
  <2>1. sessions \in Seq(SessionType) /\ Len(sessions) \in Nat
    BY DEF ServerTypes
  <2> QED
    BY <1>1, <2>1, CreatedKeeps DEF Kept
<1>2. CASE sessions' = Created(Revoked(s), account)
  <2>1. sessions \in Seq(SessionType) /\ Len(sessions) \in Nat
    BY DEF ServerTypes
  <2> QED
    BY <1>2, <2>1, RevokedKeeps, CreatedKeeps DEF Kept
<1> QED
  BY <1>1, <1>2

(* Another tab may take the cookie; it is newer than all this tab knows.   *)
LEMMA OtherStep ==
  ASSUME SessionInv, NEW account \in Accounts, OtherBootstraps(account)
  PROVE  SessionInv'
<1>1. ServerTypes' /\ Kept
  BY GrownKeeps DEF SessionInv, Types, ServerTypes, OtherBootstraps
<1> QED
  BY <1>1, ServerStep DEF OtherBootstraps

(* Another tab's logout may take the cookie away.                          *)
LEMMA OtherAnswerStep ==
  ASSUME SessionInv, NEW s \in Nat, OtherAnswers(s)
  PROVE  SessionInv'
<1>1. ServerTypes' /\ Kept
  BY DEF SessionInv, Types, ServerTypes, OtherAnswers, Kept
<1> QED
  BY <1>1, ServerStep DEF OtherAnswers

-----------------------------------------------------------------------------
(* The tab.                                                                *)

(* Raising the client's generation leaves an exchange that will not        *)
(* install its token.                                                      *)
LEMMA OutdatedBoot ==
  ASSUME boot \in {NoRequest} \cup Pending
  PROVE  /\ Outdated(boot) \in {NoRequest} \cup Pending
         /\ Outdated(boot) = NoRequest <=> boot = NoRequest
         /\ boot # NoRequest => /\ Outdated(boot).at = boot.at
                                /\ Outdated(boot).session = boot.session
<1>1. CASE boot = NoRequest
  BY <1>1 DEF NoRequest, Outdated
<1>2. CASE boot \in Pending
  BY <1>2 DEF Pending, Outdated, NoRequest
<1> QED
  BY <1>1, <1>2

(* Raising the client's generation leaves a logout that will not clear a   *)
(* newer token.                                                            *)
LEMMA OutdatedOut ==
  ASSUME out \in {NoRequest, Supabase} \cup Asked
  PROVE  /\ Outdated(out) \in {NoRequest, Supabase} \cup Asked
         /\ Outdated(out) = Supabase <=> out = Supabase
<1>1. CASE out = NoRequest
  BY <1>1 DEF NoRequest, Supabase, Outdated
<1>2. CASE out = Supabase
  BY <1>2 DEF NoRequest, Supabase, Outdated
<1>3. CASE out \in Asked
  BY <1>3 DEF Asked, Outdated, Supabase
<1> QED
  BY <1>1, <1>2, <1>3

(* A tab that has forgotten its account.                                   *)
LEMMA Bare ==
  ASSUME NEW state \in TabType
  PROVE  LET bare == [state EXCEPT !.token = NoOne, !.half = FALSE]
         IN /\ bare \in TabType /\ bare.token = NoOne /\ ~bare.half
            /\ bare.shown = state.shown /\ bare.csrf = state.csrf
<1> DEFINE once == [state EXCEPT !.token = NoOne]
<1>1. once \in TabType /\ once.token = NoOne /\ once.shown = state.shown /\ once.csrf = state.csrf
  BY DEF TabType, Logins
<1> HIDE DEF once
<1>2. [once EXCEPT !.half = FALSE] \in TabType
  BY <1>1 DEF TabType
<1> QED
  BY <1>1, <1>2 DEF TabType, once

(* clearSessionSecurity leaves the tab without a token.                    *)
LEMMA Cleared ==
  ASSUME NEW state \in TabType, Clear(state), RequestTypes
  PROVE  /\ tab' \in TabType /\ tab'.csrf = 0 /\ tab'.half = state.half
         /\ tab'.token = state.token /\ tab'.shown = state.shown
         /\ out' \in {NoRequest, Supabase} \cup Asked
         /\ out' = Supabase <=> out = Supabase
<1>1. tab' = [state EXCEPT !.csrf = 0] /\ out' = Outdated(out)
  BY DEF Clear
<1> QED
  BY <1>1, OutdatedOut DEF TabType, RequestTypes

(* A step of the tab leaves the server and its sockets as they are.        *)
LEMMA Elsewhere ==
  ASSUME SessionInv, UNCHANGED <<sessions, cookie, socket>>
  PROVE  /\ ServerTypes' /\ SocketTypes' /\ LastFrame' /\ (socket.at = "none" => socket.late = 0)'
         /\ \A s, account : IssuedFor(s, account)' <=> IssuedFor(s, account)
BY DEF SessionInv, Types, ServerTypes, SocketTypes, LastFrame, IssuedFor

(* A login, refresh or sign-out is the latest event once it is told.       *)
LEMMA AuthEventStep ==
  ASSUME SessionInv, NEW token \in Logins, AuthEvent(token)
  PROVE  SessionInv'
<1> USE DEF SessionInv, Types, AuthEvent, Tell
<1>1. ChainTypes' /\ events' # <<>> /\ events'[Len(events')] = login'
  BY DEF ChainTypes
<1>2. Exchanging' /\ Vouched' /\ Shown'
  BY DEF Exchanging, Vouched, Shown, Task, IssuedFor
<1> QED
  BY <1>1, <1>2, Elsewhere DEF Newest, RequestTypes

(* Handling an event hides another account and puts its task last in the   *)
(* chain.                                                                  *)
LEMMA EstablishStep ==
  ASSUME SessionInv, Establish
  PROVE  SessionInv'
<1> DEFINE next == Head(events)
           hidden == [tab EXCEPT !.shown = NoOne]
<1> USE DEF SessionInv, Types
<1>1. /\ events \in Seq(Logins) /\ events # <<>> /\ next \in Logins
      /\ events' = Tail(events) /\ events' \in Seq(Logins)
      /\ events' # <<>> => events'[Len(events')] = events[Len(events)]
      /\ events' = <<>> => next = events[Len(events)]
  BY DEF Establish, ChainTypes
<1>2. /\ tasks' = Append(tasks, next) /\ tasks \in Seq(Logins) /\ tasks' \in Seq(Logins)
      /\ tasks' # <<>> /\ tasks'[Len(tasks')] = next /\ Len(tasks') = Len(tasks) + 1
      /\ tasks # <<>> => Task' = Task /\ Len(tasks') > 1
      /\ \A i \in DOMAIN tasks' : \/ i \in DOMAIN tasks /\ tasks'[i] = tasks[i]
                                  \/ tasks'[i] = next
  BY <1>1 DEF Establish, ChainTypes, Task
<1>3. Newest'
  BY <1>1, <1>2 DEF Newest, Establish
<1>4. CASE next = NoOne
  <2> DEFINE bare == [hidden EXCEPT !.token = NoOne, !.half = FALSE]
  <2>1. Clear(bare) /\ boot' = Outdated(boot)
    BY <1>4 DEF Establish
  <2>2. hidden \in TabType /\ hidden.shown = NoOne
    BY DEF ChainTypes, TabType, Logins
  <2>3. bare \in TabType /\ bare.token = NoOne /\ bare.shown = NoOne /\ ~bare.half
    BY <2>2, Bare
  <2>4. /\ RequestTypes' /\ tab' \in TabType
        /\ tab'.token = NoOne /\ tab'.shown = NoOne /\ tab'.csrf = 0
    BY <2>1, <2>3, Cleared, OutdatedBoot DEF RequestTypes
  <2>5. Exchanging'
    BY <1>2, <2>1, <2>4, OutdatedBoot, Elsewhere DEF Exchanging, RequestTypes, Establish
  <2> QED
    BY <1>1, <1>2, <1>3, <2>4, <2>5, Elsewhere DEF ChainTypes, Vouched, Shown, Establish
<1>5. CASE next # NoOne
  <2>1. tab' = (IF tab.token # next THEN hidden ELSE tab) /\ UNCHANGED <<boot, out>>
    BY <1>5 DEF Establish
  <2>2. /\ tab' \in TabType
        /\ tab'.token = tab.token /\ tab'.csrf = tab.csrf /\ tab'.half = tab.half
        /\ tab'.shown \in {tab.shown, NoOne}
        /\ tab'.shown # NoOne => tab.shown # NoOne /\ next = tab.token
    BY <2>1 DEF ChainTypes, TabType, Logins
  <2>3. Exchanging'
    BY <1>2, <2>1, <2>2, Elsewhere DEF Exchanging, Establish
  <2>4. Vouched'
    BY <2>1, <2>2, Elsewhere DEF Vouched, Establish
  <2>5. Shown'
    BY <1>2, <2>2 DEF Shown
  <2> QED
    BY <1>1, <1>2, <1>3, <2>1, <2>2, <2>3, <2>4, <2>5, Elsewhere DEF ChainTypes, RequestTypes, Establish
<1> QED
  BY <1>4, <1>5

(* What a task leaves behind when its turn is over.                        *)
LEMMA Turned ==
  ASSUME ChainTypes, tasks # <<>>, tasks' = Tail(tasks)
  PROVE  /\ Task \in Logins /\ tasks' \in Seq(Logins)
         /\ tasks' = <<>> => Len(tasks) = 1 /\ tasks[Len(tasks)] = Task
         /\ tasks' # <<>> => Len(tasks) > 1 /\ tasks'[Len(tasks')] = tasks[Len(tasks)]
         /\ Len(tasks) > 1 => tasks' # <<>>
         /\ \A i \in DOMAIN tasks' : i + 1 \in DOMAIN tasks /\ tasks'[i] = tasks[i + 1]
<1>1. tasks \in Seq(Logins) /\ Len(tasks) \in Nat /\ Len(tasks) > 0 /\ Task = tasks[1] /\ Task \in Logins
  BY DEF ChainTypes, Task
<1>2. tasks' \in Seq(Logins) /\ Len(tasks') = Len(tasks) - 1
  BY <1>1
<1>3. ASSUME NEW i \in DOMAIN tasks'
      PROVE  i + 1 \in DOMAIN tasks /\ tasks'[i] = tasks[i + 1]
  BY <1>1, <1>2, <1>3
<1>4. ASSUME tasks' # <<>>
      PROVE  Len(tasks) > 1 /\ tasks'[Len(tasks')] = tasks[Len(tasks)]
  BY <1>1, <1>2, <1>4
<1>5. ASSUME tasks' = <<>>
      PROVE  Len(tasks) = 1
  <2>1. Len(tasks') = 0
    BY <1>2, <1>5, EmptySeq
  <2> QED
    BY <1>1, <1>2, <2>1
<1> QED
  BY <1>1, <1>2, <1>3, <1>4, <1>5

(* A superseded task changes nothing that is shown.                        *)
LEMMA SkipTaskStep ==
  ASSUME SessionInv, SkipTask
  PROVE  SessionInv'
<1> USE DEF SessionInv, Types, SkipTask, Done
<1>1. tasks # <<>>
  BY DEF ChainTypes
<1>2. ChainTypes' /\ Shown' /\ Newest'
  BY <1>1, Turned DEF ChainTypes, Shown, Newest
<1> QED
  BY <1>2, Elsewhere DEF RequestTypes, Exchanging, Vouched

(* The task of a sign-out forgets account and token together.              *)
LEMMA ForgetSessionStep ==
  ASSUME SessionInv, ForgetSession
  PROVE  SessionInv'
<1> DEFINE hidden == [tab EXCEPT !.token = NoOne, !.shown = NoOne, !.half = FALSE]
<1> USE DEF SessionInv, Types, ForgetSession, Done
<1>1. /\ hidden \in TabType /\ hidden.token = NoOne /\ hidden.shown = NoOne
  <2> DEFINE once == [tab EXCEPT !.shown = NoOne]
  <2>1. once \in TabType /\ once.shown = NoOne
    BY DEF ChainTypes, TabType, Logins
  <2>2. hidden = [once EXCEPT !.token = NoOne, !.half = FALSE]
    BY DEF ChainTypes, TabType
  <2> QED
    BY <2>1, <2>2, Bare
<1>2. /\ RequestTypes' /\ tab' \in TabType
      /\ tab'.token = NoOne /\ tab'.shown = NoOne /\ tab'.csrf = 0
  BY <1>1, Cleared DEF RequestTypes
<1>3. tasks' = <<>> /\ Newest'
  BY <1>2 DEF Newest
<1> QED
  BY <1>2, <1>3, Elsewhere DEF ChainTypes, Exchanging, Vouched, Shown

(* The task of a certified login shows the account whose token is          *)
(* installed.                                                              *)
LEMMA ShowSessionStep ==
  ASSUME SessionInv, ShowSession
  PROVE  SessionInv'
<1> USE DEF SessionInv, Types, ShowSession, Done
<1>1. /\ tab' \in TabType /\ tab'.shown = tab.token
      /\ tab'.token = tab.token /\ tab'.csrf = tab.csrf /\ tab'.half = tab.half
  BY DEF ChainTypes, TabType
<1>2. tasks' = <<>> /\ Newest'
  BY <1>1 DEF Newest
<1> QED
  BY <1>1, <1>2, Elsewhere DEF ChainTypes, RequestTypes, Exchanging, Vouched, Shown

(* The exchange of a token carries the generation of its sending.          *)
LEMMA SendTokenStep ==
  ASSUME SessionInv, SendToken
  PROVE  SessionInv'
<1> DEFINE bare == [tab EXCEPT !.token = NoOne, !.half = FALSE]
<1> USE DEF SessionInv, Types, SendToken
<1>1. bare \in TabType /\ bare.token = NoOne /\ bare.shown = tab.shown
  BY Bare DEF ChainTypes
<1>2. Len(tasks) = 1 /\ tasks # <<>> /\ 1 \in DOMAIN tasks /\ Task = tasks[1]
  <2>1. tasks \in Seq(Logins) /\ Len(tasks) = 1
    BY DEF Latest, ChainTypes
  <2> QED
    BY <2>1, EmptySeq DEF Task
<1>3. tab.shown = NoOne
  <2>1. Task # tab.token
    OBVIOUS
  <2>2. tab.shown # NoOne => tasks[1] = tab.token
    BY <1>2 DEF Shown
  <2> QED
    BY <1>2, <2>1, <2>2
<1>4. /\ tab' \in TabType /\ tab'.token = NoOne /\ tab'.shown = NoOne /\ tab'.csrf = 0
      /\ out' \in {NoRequest, Supabase} \cup Asked
  BY <1>1, <1>3, Cleared
<1>5. boot' \in Pending /\ boot'.current /\ boot'.at = "sent"
  BY DEF Pending, ServerTypes
<1>6. Exchanging'
  BY <1>2, <1>4, <1>5 DEF Exchanging, Task
<1>7. Newest'
  BY <1>2, <1>4 DEF Newest
<1> QED
  BY <1>4, <1>5, <1>6, <1>7, Elsewhere DEF ChainTypes, RequestTypes, Vouched, Shown

(* The server answers an exchange with the session of the token's account. *)
LEMMA BootstrapStep ==
  ASSUME SessionInv, Bootstrap
  PROVE  SessionInv'
<1> USE DEF SessionInv, Types
<1>1. boot \in Pending /\ boot # NoRequest
  BY DEF Bootstrap, RequestTypes, NoRequest
<1>2. tasks # <<>> /\ Task \in Tokens /\ Owner[Task] \in Accounts
  BY <1>1, SessionsAssumption DEF Exchanging, Task, ChainTypes, Logins
<1>3. /\ sessions' \in Seq(SessionType) /\ Kept
      /\ boot' \in Pending /\ boot'.current = boot.current
      /\ boot'.session \in DOMAIN sessions' /\ sessions'[boot'.session].account = Owner[Task]
  <2>1. CASE /\ Reusable(boot.cookie, Owner[Task])
             /\ boot' = [boot EXCEPT !.at = "answered", !.session = boot.cookie]
             /\ UNCHANGED sessions
    <3>1. boot' \in Pending /\ boot'.current = boot.current /\ boot'.session = boot.cookie
      BY <1>1, <2>1 DEF Pending
    <3>2. boot.cookie \in DOMAIN sessions /\ sessions[boot.cookie].account = Owner[Task]
      BY <2>1 DEF Reusable, Live
    <3> QED
      BY <2>1, <3>1, <3>2 DEF Kept, ServerTypes
  <2>2. CASE /\ sessions' = Created(Revoked(boot.cookie), Owner[Task])
             /\ boot' = [boot EXCEPT !.at = "answered", !.session = Len(sessions')]
    <3>1. /\ sessions' \in Seq(SessionType) /\ Kept /\ Len(sessions') \in Nat
          /\ Len(sessions') \in DOMAIN sessions' /\ sessions'[Len(sessions')].account = Owner[Task]
      BY <1>2, <2>2, GrownKeeps
    <3>2. boot' \in Pending /\ boot'.current = boot.current /\ boot'.session = Len(sessions')
      BY <1>1, <2>2, <3>1 DEF Pending
    <3> QED
      BY <3>1, <3>2
  <2> QED
    BY <2>1, <2>2 DEF Bootstrap
<1>4. UNCHANGED <<cookie, login, events, tab, tasks, out, socket>>
  BY DEF Bootstrap
<1>5. LastFrame'
  BY <1>3, <1>4, KeptFrame DEF ServerTypes, SocketTypes
<1>6. Exchanging'
  BY <1>1, <1>3, <1>4 DEF Exchanging, IssuedFor, Task
<1>7. Vouched'
  BY <1>3, <1>4, KeptIssued DEF Vouched
<1> QED
  BY <1>3, <1>4, <1>5, <1>6, <1>7
  DEF ServerTypes, ChainTypes, RequestTypes, SocketTypes, Shown, Newest

(* The two cases of a length.                                              *)
LEMMA OneOrMore ==
  ASSUME NEW n \in Nat \ {0}
  PROVE  n \in Nat /\ (n = 1 \/ n > 1) /\ (n > 1 => n # 1)
OBVIOUS

(* The answer's token is installed only in the generation that asked, and  *)
(* only the last task of the chain shows its account.                      *)
LEMMA AnswerStep ==
  ASSUME SessionInv, Answer
  PROVE  SessionInv'
<1> USE DEF SessionInv, Types
<1>1. /\ boot \in Pending /\ boot # NoRequest /\ boot.at = "answered"
      /\ tasks # <<>> /\ Task \in Logins /\ Task # NoOne
      /\ tab.token = NoOne /\ tab.shown = NoOne /\ tab.csrf = 0
      /\ ~boot.current => Len(tasks) > 1
      /\ IssuedFor(boot.session, Owner[Task])
  BY DEF Answer, RequestTypes, NoRequest, Exchanging, Task, ChainTypes
<1>2. /\ tasks' = Tail(tasks) /\ boot' = NoRequest
      /\ UNCHANGED <<sessions, login, events, out, socket>>
  BY DEF Answer, Done
<1>3. cookie' \in Nat
  BY <1>1 DEF Answer, ServerTypes, Pending
<1>4. /\ Installed \in TabType /\ Installed.token = NoOne /\ Installed.shown = NoOne
      /\ Installed.csrf \in {0, boot.session}
      /\ boot.current => Installed.csrf = boot.session
  BY <1>1 DEF Installed, TabType, Pending, ChainTypes
<1>5. Len(tasks) \in Nat /\ (Len(tasks) = 1 \/ Len(tasks) > 1) /\ (Len(tasks) > 1 => Len(tasks) # 1)
  <2>1. tasks \in Seq(Logins) /\ tasks # <<>>
    BY <1>1 DEF ChainTypes
  <2>2. Len(tasks) \in Nat \ {0}
    BY <2>1
  <2> QED
    BY <2>2, OneOrMore
<1>6. CASE Len(tasks) > 1
  <2>1. tab' = Installed
    <3>1. ~Latest
      BY <1>6, <1>5 DEF Latest
    <3> QED
      BY <3>1 DEF Answer, Certified
  <2>2. tab' \in TabType /\ tab'.token = NoOne /\ tab'.shown = NoOne
    BY <1>4, <2>1
  <2>3. tasks' # <<>> /\ tasks' \in Seq(Logins) /\ tasks'[Len(tasks')] = tasks[Len(tasks)]
    BY <1>1, <1>2, <1>6, Turned
  <2>4. Newest'
    BY <1>1, <1>2, <2>3 DEF Newest
  <2> QED
    BY <1>2, <1>3, <2>2, <2>3, <2>4
    DEF ServerTypes, SocketTypes, ChainTypes, RequestTypes, Exchanging, Vouched, Shown, LastFrame
<1>7. CASE Len(tasks) = 1
  <2>1. tab' = [Installed EXCEPT !.token = Task, !.shown = Task]
    BY <1>7 DEF Answer, Certified, Latest
  <2>2. boot.session # 0
    BY <1>1 DEF IssuedFor, ServerTypes
  <2>3. boot.current /\ Installed.csrf = boot.session
    BY <1>1, <1>4, <1>7
  <2> DEFINE token == [Installed EXCEPT !.token = Task]
  <2>4. token \in TabType /\ token.token = Task /\ token.csrf = boot.session
    BY <1>1, <1>4, <2>3 DEF TabType
  <2>5. tab' = [token EXCEPT !.shown = Task]
    BY <1>4, <2>1 DEF TabType
  <2> HIDE DEF token
  <2>6. /\ tab' \in TabType /\ tab'.token = Task /\ tab'.shown = Task
        /\ tab'.csrf = boot.session
    BY <1>1, <2>4, <2>5 DEF TabType
  <2>7. tasks' = <<>> /\ tasks' \in Seq(Logins)
    BY <1>1, <1>2, <1>7, Turned
  <2>8. tasks[Len(tasks)] = Task
    BY <1>7 DEF Task, ChainTypes
  <2>9. Newest'
    BY <1>1, <1>2, <2>6, <2>7, <2>8 DEF Newest
  <2>10. Vouched'
    BY <1>1, <1>2, <2>2, <2>6 DEF Vouched, IssuedFor
  <2> QED
    BY <1>2, <1>3, <2>6, <2>7, <2>9, <2>10
    DEF ServerTypes, SocketTypes, ChainTypes, RequestTypes, Exchanging, Shown, LastFrame
<1> HIDE DEF SessionInv
<1> QED
  BY <1>6, <1>7, <1>5

(* A failed exchange leaves the task without an account to show.           *)
LEMMA BootstrapFailsStep ==
  ASSUME SessionInv, BootstrapFails
  PROVE  SessionInv'
<1> USE DEF SessionInv, Types, BootstrapFails, Done
<1>1. tasks # <<>> /\ tab.token = NoOne /\ tab.shown = NoOne /\ tab.csrf = 0
  BY DEF Exchanging
<1>2. ChainTypes' /\ Newest'
  BY <1>1, Turned DEF ChainTypes, Newest
<1> QED
  BY <1>1, <1>2, Elsewhere DEF RequestTypes, Exchanging, Vouched, Shown

-----------------------------------------------------------------------------
(* Signing out.                                                            *)

(* The tab asks for a logout with the token it has.                        *)
LEMMA SignOutStep ==
  ASSUME SessionInv, SignOut
  PROVE  SessionInv'
<1> USE DEF SessionInv, Types, SignOut
<1>1. out' \in Asked /\ out' # Supabase
  BY DEF Asked, Supabase, ServerTypes, ChainTypes, TabType
<1>2. out # Supabase
  BY DEF Supabase, NoRequest
<1> QED
  BY <1>1, <1>2, Elsewhere
  DEF ChainTypes, RequestTypes, Exchanging, Vouched, Shown, Newest, Task

(* The server revokes the session of the cookie.                           *)
LEMMA RevokeStep ==
  ASSUME SessionInv, Revoke
  PROVE  SessionInv'
<1> USE DEF SessionInv, Types
<1>1. out \in Asked /\ out # Supabase
  BY DEF Revoke, RequestTypes, NoRequest, Supabase
<1>2. UNCHANGED <<cookie, login, events, tab, tasks, boot, socket>>
  BY DEF Revoke
<1>3. out' \in {NoRequest, Supabase} \cup Asked /\ out' # Supabase
  BY <1>1 DEF Revoke, Asked, NoRequest, Supabase
<1>4. sessions' \in Seq(SessionType) /\ Kept
  BY RevokedKeeps DEF Revoke, ServerTypes, Kept
<1>5. LastFrame'
  BY <1>2, <1>4, KeptFrame DEF ServerTypes, SocketTypes
<1>6. Exchanging' /\ Vouched'
  BY <1>1, <1>2, <1>4, KeptIssued DEF Exchanging, Vouched, Task
<1> QED
  BY <1>2, <1>3, <1>4, <1>5, <1>6
  DEF ServerTypes, ChainTypes, RequestTypes, SocketTypes, Shown, Newest

(* The answer to a logout clears the token it was asked with.              *)
LEMMA LoggedOutStep ==
  ASSUME SessionInv, LoggedOut
  PROVE  SessionInv'
<1> USE DEF SessionInv, Types, LoggedOut
<1>1. out' = Supabase
  BY DEF Supabase
<1>2. /\ tab' \in TabType /\ tab'.csrf \in {0, tab.csrf}
      /\ tab'.token = tab.token /\ tab'.shown = tab.shown
  BY DEF ChainTypes, TabType
<1>3. LastFrame' /\ ServerTypes'
  BY DEF LastFrame, ServerTypes
<1>4. Exchanging'
  BY <1>2 DEF Exchanging, Task, IssuedFor
<1>5. Vouched'
  BY <1>1, <1>2 DEF Vouched, IssuedFor
<1>6. Newest'
  BY <1>2 DEF Newest
<1> QED
  BY <1>1, <1>2, <1>3, <1>4, <1>5, <1>6 DEF ChainTypes, RequestTypes, SocketTypes, Shown

(* Supabase's answer makes a sign-out of its own event.                    *)
LEMMA SignedOutStep ==
  ASSUME SessionInv, SignedOut
  PROVE  SessionInv'
<1> USE DEF SessionInv, Types, SignedOut, Tell
<1>1. tab' \in TabType /\ tab'.token = NoOne /\ tab'.shown = NoOne /\ tab'.csrf = tab.csrf
  <2> DEFINE once == [tab EXCEPT !.shown = NoOne]
  <2>1. once \in TabType /\ once.shown = NoOne /\ once.csrf = tab.csrf
    BY DEF ChainTypes, TabType, Logins
  <2>2. tab' = [once EXCEPT !.token = NoOne, !.half = FALSE]
    BY DEF ChainTypes, TabType
  <2> QED
    BY <2>1, <2>2, Bare
<1>2. events' \in Seq(Logins) /\ events' # <<>> /\ events'[Len(events')] = login' /\ login' \in Logins
  BY DEF ChainTypes, Logins
<1>3. Exchanging'
  BY <1>1, Elsewhere DEF Exchanging, Task
<1> QED
  BY <1>1, <1>2, <1>3, Elsewhere DEF ChainTypes, RequestTypes, Vouched, Shown, Newest

(* A failed logout leaves the tab as it was.                               *)
LEMMA LogoutFailsStep ==
  ASSUME SessionInv, LogoutFails
  PROVE  SessionInv'
<1> USE DEF SessionInv, Types, LogoutFails
<1>1. out # Supabase /\ out' # Supabase
  BY DEF Supabase, NoRequest
<1> QED
  BY <1>1, Elsewhere
  DEF ChainTypes, RequestTypes, Exchanging, Vouched, Shown, Newest, Task

(* A sign-out that fails after the logout leaves an account without a      *)
(* token, marked as such.                                                  *)
LEMMA SignOutFailsStep ==
  ASSUME SessionInv, SignOutFails
  PROVE  SessionInv'
<1> USE DEF SessionInv, Types, SignOutFails
<1>1. /\ tab' \in TabType /\ tab'.csrf = tab.csrf
      /\ tab'.token = tab.token /\ tab'.shown = tab.shown
      /\ tab.token # NoOne /\ ~tab'.half => tab'.csrf # 0
  BY DEF ChainTypes, TabType
<1>2. Exchanging' /\ Vouched'
  BY <1>1, Elsewhere DEF Exchanging, Vouched, Task
<1> QED
  BY <1>1, <1>2, Elsewhere DEF ChainTypes, RequestTypes, Shown, Newest

-----------------------------------------------------------------------------
(* The socket.                                                             *)

(* A step of the socket leaves the tab and the sessions as they are.       *)
LEMMA SocketStep ==
  ASSUME SessionInv, SocketTypes', LastFrame', (socket.at = "none" => socket.late = 0)',
         UNCHANGED <<sessions, cookie, login, events, tab, tasks, boot, out>>
  PROVE  SessionInv'
BY DEF SessionInv, Types, ServerTypes, ChainTypes, RequestTypes, Exchanging, Vouched, Shown, Newest,
       IssuedFor, Task

(* A socket opens with a session that is live.                             *)
LEMMA OpenStep ==
  ASSUME SessionInv, Open
  PROVE  SessionInv'
<1>1. SocketTypes' /\ LastFrame' /\ (socket.at = "none" => socket.late = 0)'
  BY DEF Open, Live, SessionInv, Types, ServerTypes, SocketTypes, LastFrame
<1> QED
  BY <1>1, SocketStep DEF Open

(* A socket that closes is forgotten.                                      *)
LEMMA HangupStep ==
  ASSUME SessionInv, Hangup
  PROVE  SessionInv'
<1>1. SocketTypes' /\ LastFrame' /\ (socket.at = "none" => socket.late = 0)'
  BY DEF Hangup, NoSocket, SocketTypes, LastFrame
<1> QED
  BY <1>1, SocketStep DEF Hangup

(* Only a live session passes the check before a frame.                    *)
LEMMA RevalidateStep ==
  ASSUME SessionInv, Revalidate
  PROVE  SessionInv'
<1>1. CASE Live(socket.session)
  <2>1. socket' = [socket EXCEPT !.at = "checked"]
    BY <1>1 DEF Revalidate
  <2>2. SocketTypes' /\ LastFrame' /\ (socket.at = "none" => socket.late = 0)'
    BY <1>1, <2>1 DEF Revalidate, Live, SessionInv, Types, SocketTypes, LastFrame
  <2> QED
    BY <2>2, SocketStep DEF Revalidate
<1>2. CASE ~Live(socket.session)
  <2>1. SocketTypes' /\ LastFrame' /\ (socket.at = "none" => socket.late = 0)'
    BY <1>2 DEF Revalidate, NoSocket, SocketTypes, LastFrame
  <2> QED
    BY <2>1, SocketStep DEF Revalidate
<1> QED
  BY <1>1, <1>2

(* One frame follows each check.                                           *)
LEMMA WriteStep ==
  ASSUME SessionInv, Write
  PROVE  SessionInv'
<1>1. /\ socket.at = "checked" /\ socket.late = 0 /\ socket.session \in DOMAIN sessions
      /\ socket \in [at : {"none", "open", "checked"}, session : Nat, late : Nat]
  BY DEF Write, SessionInv, Types, SocketTypes, LastFrame
<1>2. /\ socket'.at = "open" /\ socket'.late = Late /\ socket'.session = socket.session
      /\ socket' \in [at : {"none", "open", "checked"}, session : Nat, late : Nat]
  <2> DEFINE opened == [socket EXCEPT !.at = "open"]
  <2>1. /\ opened \in [at : {"none", "open", "checked"}, session : Nat, late : Nat]
        /\ opened.at = "open" /\ opened.late = 0 /\ opened.session = socket.session
    BY <1>1
  <2>2. Late \in {0, 1}
    BY DEF Late
  <2>3. socket' = [opened EXCEPT !.late = opened.late + Late]
    BY <1>1 DEF Write
  <2> HIDE DEF opened
  <2>4. opened.late + Late = Late
    BY <2>1, <2>2
  <2>5. socket' = [opened EXCEPT !.late = Late]
    BY <2>3, <2>4
  <2> QED
    BY <2>1, <2>2, <2>5
<1>3. UNCHANGED <<sessions, cookie, login, events, tab, tasks, boot, out>>
  BY DEF Write
<1>4. SocketTypes' /\ LastFrame' /\ (socket.at = "none" => socket.late = 0)'
  BY <1>1, <1>2, <1>3 DEF Late, Live, SocketTypes, LastFrame
<1> QED
  BY <1>3, <1>4, SocketStep

-----------------------------------------------------------------------------
(* Before the first event there is nothing to hold.                        *)
LEMMA InitInv ==
  ASSUME Init
  PROVE  SessionInv
<1>1. login \in Logins /\ events = <<login>> /\ tasks = <<>> /\ sessions = <<>>
  BY DEF Init, Logins
<1>2. /\ events \in Seq(Logins) /\ events # <<>> /\ events[Len(events)] = login
      /\ tasks \in Seq(Logins) /\ sessions \in Seq(SessionType)
  BY <1>1
<1>3. tab \in TabType /\ tab.token = NoOne /\ tab.shown = NoOne
  BY DEF Init, TabType, Logins
<1> QED
  BY <1>1, <1>2, <1>3
  DEF Init, NoSocket, SessionInv, Types, ServerTypes, ChainTypes, RequestTypes, SocketTypes,
      Exchanging, Vouched, Shown, Newest, LastFrame

(* Every step, of the tab, the server or others.                           *)
LEMMA StepInv ==
  ASSUME SessionInv, [Next]_vars
  PROVE  SessionInv'
<1>1. CASE UNCHANGED vars
  <2>1. ServerTypes' /\ Kept
    BY <1>1 DEF vars, Kept, SessionInv, Types, ServerTypes
  <2> QED
    BY <1>1, <2>1, ServerStep DEF vars
<1>2. ASSUME NEW token \in Tokens \cup {NoOne}, AuthEvent(token)
      PROVE  SessionInv'
  BY <1>2, AuthEventStep DEF Logins
<1>3. CASE Others
  <2>1. ASSUME NEW account \in Accounts, OtherBootstraps(account)
        PROVE  SessionInv'
    BY <2>1, OtherStep
  <2>2. ASSUME NEW s \in 0 .. Len(sessions), OtherAnswers(s) \/ Expire(s)
        PROVE  SessionInv'
    <3>1. s \in Nat
      <4>1. sessions \in Seq(SessionType)
        BY DEF SessionInv, Types, ServerTypes
      <4>2. Len(sessions) \in Nat
        BY <4>1
      <4>3. s \in 0 .. Len(sessions)
        OBVIOUS
      <4> QED
        BY <4>2, <4>3
    <3> QED
      BY <2>2, <3>1, OtherAnswerStep, ExpireStep
  <2> QED
    BY <1>3, <2>1, <2>2 DEF Others
<1>4. CASE Tab
  BY <1>4, EstablishStep, SkipTaskStep, ForgetSessionStep, ShowSessionStep, SendTokenStep, AnswerStep
  DEF Tab
<1>5. CASE Bootstrap
  BY <1>5, BootstrapStep
<1>6. CASE Leaving
  BY <1>6, SignOutStep, RevokeStep, LoggedOutStep, SignedOutStep DEF Leaving
<1>7. CASE Socket
  BY <1>7, OpenStep, RevalidateStep, WriteStep, HangupStep DEF Socket
<1>8. CASE Faults
  BY <1>8, BootstrapFailsStep, LogoutFailsStep, SignOutFailsStep DEF Faults
<1> QED
  BY <1>1, <1>2, <1>3, <1>4, <1>5, <1>6, <1>7, <1>8 DEF Next

(* The invariant of the whole: what each request under way, each task that *)
(* waits and the last event still promise (App.jsx establishSession and    *)
(* signOut, api.js, http.go).                                              *)
THEOREM SessionInvariant == Spec => []SessionInv
<1>1. Init => SessionInv
  BY InitInv
<1>2. SessionInv /\ [Next]_vars => SessionInv'
  BY StepInv
<1> QED
  BY <1>1, <1>2, PTL DEF Spec

(* Whatever other tabs do to the cookies, the CSRF token a tab holds is of *)
(* a session of the account it shows (api.js:155, App.jsx:52).             *)
THEOREM TokenOfShownHolds == Spec => []TokenOfShown
<1>1. SessionInv => TokenOfShown
  BY DEF SessionInv, Vouched, Shown, TokenOfShown, IssuedFor
<1> QED
  BY <1>1, SessionInvariant, PTL

(* When the chain of tasks is done the tab shows the latest login, or      *)
(* nobody: no answer that came late has won (App.jsx:52, the chain of      *)
(* backendSessionTaskRef).                                                 *)
THEOREM ShowsLatestHolds == Spec => []ShowsLatest
<1>1. SessionInv => ShowsLatest
  BY DEF SessionInv, Newest, ShowsLatest, Quiet
<1> QED
  BY <1>1, SessionInvariant, PTL

(* A tab that shows an account, and is not half way out, can send a        *)
(* mutation for it (api.js: sessionCSRF).                                  *)
THEOREM ShownCanActHolds == Spec => []ShownCanAct
<1>1. SessionInv => ShownCanAct
  BY DEF SessionInv, Vouched, Shown, ShownCanAct, Quiet, Supabase, NoRequest
<1> QED
  BY <1>1, SessionInvariant, PTL

(* No answer leaves a CSRF token behind in a tab that saw the sign-out     *)
(* (api.js: sessionGeneration).                                            *)
THEOREM SignedOutForgetsHolds == Spec => []SignedOutForgets
<1>1. SessionInv => SignedOutForgets
  BY DEF SessionInv, Newest, SignedOutForgets, Quiet
<1> QED
  BY <1>1, SessionInvariant, PTL

(* A socket sends at most one frame after its session ended: the one whose *)
(* check came before (websocket.go, serveConnection).                      *)
THEOREM OneLateFrameHolds == Spec => []OneLateFrame
<1>1. SessionInv => OneLateFrame
  BY DEF SessionInv, Types, SocketTypes, LastFrame, OneLateFrame
<1> QED
  BY <1>1, SessionInvariant, PTL
=============================================================================
