# Rock Paper Money: verification project

The program is a multiplayer rock-paper-scissors game for virtual coins: Go servers
(`src/backend`) over one PostgreSQL database, Redis as a carrier of hints, and a browser
client (`src/frontend`). Two players share a room; each round takes 50 coins from both
into escrow and pays 75 to the winner and 25 to the house, or 50 back to each. Every
server runs the same workers, so every step below may happen on any of them.

Paths are relative to `src/`; `postgres/` stands for
`backend/internal/room/adapter/postgres/`.

## 1. Inventory

| Component | State it keeps | Operations | Talks to |
|---|---|---|---|
| Room rules, `room/domain/room.go` | one aggregate: players, wins, moves, result, forfeiter, round, next-round votes, closed | Restore, Join, Leave, Forfeit, ResolveInactivity, ResolveDeadlineDraw, ResolveCommittedMoves, AdvanceCommittedNextRound | loaded and saved by the store |
| Room store, `postgres/commands.go` | `room_rooms`, `room_seats`, `room_rounds`, `room_moves`, `room_next_round_requests`, revisions | create, join, move, next-round request, leave, recharge: one transaction each, with a receipt | called by the HTTP routes; wakes the reconciler |
| Wallet ledger, `postgres/repository.go` 640-860 | `wallet_accounts`, `wallet_transactions`, `game_round_history` | fundRound, settleRound, recharge | called inside the transactions of the others |
| Round reconciliation, `postgres/reconciliation.go` | the claims `settling` of `room_rounds` | resolve a round with two moves, advance a round with two votes | called after a command and by the worker |
| Durable presence, `postgres/deadlines.go` 20-200 | `room_connections` with leases, `room_presence` with generations | open, renew, close, reap | called by the WebSocket handler and the deadline worker |
| Deadlines, `postgres/deadlines.go` 200-470 | `room_deadlines` of kinds inactivity and disconnect | ProcessNextDeadline | deadline worker of every server |
| Command receipts | `command_receipts` | claim, replay, expire | inside every command |
| Reconciliation worker, `worker/reconciliation.go`, `postgres/listener.go` | a channel of notified rooms, LISTEN connection | batch scan, notified reconciliation | reconciliation |
| Transactional outbox, `postgres/outbox.go`, `worker/outbox.go` | `room_outbox`: status, claim, attempts, times | claim, publish, mark, release, clean up | Redis |
| Realtime hub, `realtime/hub.go`, `realtime/redis.go` | rooms with consumers and a snapshot, a subscription for each, two kinds of mutex | Acquire, reconcile, release, subscribe, reconnect | Redis, store, socket queues |
| WebSocket handler, `realtime/websocket.go` | a queue of one snapshot for each socket | setup, write loop, ping, revalidate, shut down | hub, presence, sessions |
| Web client, live updates, `frontend/src/realtime.js` | last revision shown, retry timer | show, ignore, reconnect on a gap | WebSocket |
| Browser sessions, `auth/session.go`, `auth/postgres.go`, `auth/http.go`, `frontend/src/api.js`, `frontend/src/App.jsx` | `web_sessions`, two cookies, the tab's token, account and security token | bootstrap, authenticate, log out, expire, clean up; the tab's chain of exchanges | authenticates every command and socket; deletes connections by foreign key |
| Runtime, `internal/operations/`, `cmd/` | the worker loops, health | start, stop in order | all |
| HTTP router, token verification, metrics, problem reports, migrations, in-memory repository, presentation | — | — | — |

What is hard here, and what makes each part correct:

* **Store, ledger, reconciliation, deadlines.** A round can be ended by the reconciler,
  by the inactivity deadline and by two disconnect deadlines, on several servers, while
  players move, leave, come back, recharge and play elsewhere from the same wallet. It
  is right when the escrow holds a stake exactly as long as the round is open, each
  result is paid once and never revised, no coin is made or lost, every funded round
  ends, and nobody forfeits who is connected.
* **Presence.** Leases expire, are renewed late, are reaped, or vanish with a session;
  generations keep an old grace period from ending a later absence.
* **Outbox.** Servers die with claims in hand, publications fail after Redis took them,
  a publisher outlives its lease. It is right when no row leaves before its hint was
  given, a live lease excludes others, and every row is published in the end.
* **Feed.** Hints are lost, repeated and reordered, loads race, sockets come and go
  while the room is created or closed. It is right when every socket is served by the
  room the hub has, the hub catches up, no setup hangs, and sockets converge.
* **Locks.** A transaction reads before it locks, and different kinds lock the same rows in
  different orders. It is right when what is saved was loaded from what is committed,
  nothing that was committed in between is lost, and deadlocks are known and rare.
* **Reconciliation worker.** Notifications are dropped by a full channel or a lost
  connection, and a scan sees only the oldest rounds. It is right when every transition
  that is due and possible is made, and its own notifications do not keep it busy.
* **Browser sessions.** Logins, refreshes, sign-outs and late answers cross each other, and
  other tabs replace the cookies. A tab is right when it acts for the account it shows,
  shows the latest login, and forgets it on a sign-out; a socket, when it stops with its
  session.

`PROJECT.json` lists every component with its status, and under `hazards` each hard
behaviour at its line with the properties that watch it.

## 2. Modules

| Module | What it is |
|---|---|
| `RoomRules` | the aggregate of `room.go` as operators on a record: for each method a guard (`CanJoin`, ...) and the room it leaves (`Join`, ...) |
| `RoomStore` (EXTENDS `RoomRules`) | the PostgreSQL store, one action for each committed transaction |
| `PaidRounds` | the abstract promise about money: recharges, a stake of 50 from both, one payment |
| `RoomStoreProperties` | properties of the store, its sums of coins, and the refinement mapping to `PaidRounds` |
| `RoomStoreProofs` | TLAPS proofs about the store: types, and revisions in the outbox |
| `LedgerProofs` (EXTENDS `RoomStoreProofs`) | the ledger, and what no step does to results and revisions |
| `PromiseProofs` (EXTENDS `LedgerProofs`) | that the store implements `PaidRounds`, counts its wins and loses no coin |
| `DeadlineProofs` (EXTENDS `LedgerProofs`) | deadlines, presence and forfeits |
| `RoomLocks` | the row locks of the same transactions, statement by statement |
| `LocksProofs` | TLAPS proofs about the row locks |
| `Reconciler` | the reconciliation workers, their notifications and batches |
| `Outbox` | the outbox rows and the runs of the outbox workers |
| `OutboxProofs` | TLAPS proofs about the outbox |
| `RoomFeed` | hub, subscription, socket handlers and browsers of one room on one server |
| `FeedProofs` | TLAPS proofs about hub, subscriptions and sockets |
| `BrowserSessions` | one tab, the server's sessions and one socket, with other tabs around them |
| `SessionProofs` | TLAPS proofs about the browser sessions |
| `MCRoomStore`, `MCRoomLocks`, `MCReconciler`, `MCOutbox`, `MCRoomFeed`, `MCBrowserSessions` | model values and symmetry for TLC |

`RoomStore` composes the rules, the ledger, presence and deadlines because one
transaction writes all of them. `Outbox` and `RoomFeed` are the two stages behind it:
the store's `outbox[c]` is the set of revisions whose rows `Outbox` publishes, and the
rows `Outbox` publishes are the hints `RoomFeed` starts from (`unsent`,
`PublishRevision`, `PublishAgain`). They are joined by these interfaces, not by one
state space: `EveryRevisionAnnounced`, `EveryHintPublished` and `HubCatchesUp` state the
three links of the chain from a commit to the hub. `RoomLocks` and `Reconciler` are what two
abstractions of `RoomStore` rest on: that a transaction is one step, and that a
transition which can be made is made in the end. `BrowserSessions` is the layer in front: it
decides for which account a command or a socket reaches the store, and its sessions are
those whose end is `DeleteSession` in `RoomStore`.

### State and actions of RoomStore

| Variables | Tables |
|---|---|
| `rooms`, `seats`, `wins` | `room_rooms`, `room_seats` |
| `rounds` | `room_rounds` with its moves and next-round requests |
| `wallet`, `escrow`, `house`, `mint` | `wallet_accounts` of users, of rounds, of the house and of the mint |
| `staked`, `settled`, `recharged`, `history` | `wallet_transactions` by business key, `game_round_history` |
| `outbox`, `receipts` | `room_outbox`, `command_receipts` |
| `presence`, `conns`, `deadlines` | `room_presence`, open `room_connections`, pending `room_deadlines` |

| Actions | Code |
|---|---|
| `CreateCommand` ... `RechargeCommand` | the transactions of `commands.go`, with `fundRound` inside a join |
| `ReconcileResolve`, `ReconcileAdvance` | `ReconcileRoom`: claim, load, apply, save, settle or fund, cancel deadlines, announce, release |
| `OpenConnection`, `RenewConnection`, `CloseConnection`, `ReapExpiredConnection` | `deadlines.go` 20-200 |
| `DeleteSession` | `DeleteExpired` of `auth/postgres.go`, through the foreign key of the connections |
| `ProcessNextDeadline` = `CancelUnclaimed`, `CancelInapplicable`, `CancelDeadline`, `ForfeitAbsent`, `DrawAbsent`, `ResolveIdle` | one transaction of the deadline worker, split by outcome |

Abstractions of `RoomStore`, and why they are sound for what is stated:

* **A transaction is one step.** The rows it depends on are locked until it commits. Where
  the code locks less (`recordRoomAction` reads the room's status without its lock) and
  where two lock orders meet is the question of `RoomLocks`.
* **An error is no step**, because it rolls back. A command replayed from its receipt, or
  refused as a conflict, changes nothing and is a stuttering step. Receipts expire at
  any time (`CleanupCommandReceipts`): untimed, hence more behaviours than the code has.
* **Terminal rows are dropped.** A closed connection and a completed or cancelled
  deadline decide nothing later.
* **One clock.** Servers and database share `clock`, in ticks; only the order of
  `Grace`, `Inactivity` and `Lease` matters (20 s, 30 s and the lease in the code).
* **Wallets exist from the start with 0**; the code creates them when first needed.
* **Ties** between deadlines of different rooms may go either way (the code orders them
  by their identities, which the model does not have).
* The forced reap that precedes a deadline run is a separate `ReapExpiredConnection`;
  the best-effort `ReconcileRoom` after a command is the separate `Reconcile` action.
  Neither is atomic with what it follows in the code.

### State and actions of RoomLocks

`room` is what is committed of a room that the transactions tell apart: its status, the
guest's seat, the current round with its state, moves and requests; `revision` is apart
because a statement of its own reads it. `Plan` lists the statements of each kind of
transaction in the order of the code. A statement that waits for a row lock under READ
COMMITTED has taken its snapshot before: `Ask` is that snapshot, and `ShareRound` or
`ClaimRound`, which get the lock, see the new version of the locked row and the old version
of the room it joins. That is how a vote can be recorded in a room that a player is leaving,
and why `ClosedRoomStays` excepts such a vote, which no transaction acts on any more.
`Load`, `Save` and the others are the steps between; `Rollback` is an error, a lost server,
or the deadlock that PostgreSQL detects and ends by aborting a transaction.

Left out because they cannot interfere: a recharge (the mint and one wallet) and the
creation of a room (nobody else can know it); receipts, which every command claims before
any other row; deadlines, which are written only by holders of the room; escrow rows, which
belong to a round that is locked.

### State and actions of Reconciler

`rounds` is of each room the current round: `ready` when two moves or two requests wait for
the reconciler, `resolved` once it has a result. `oldest` is the order in which the batch
query sees them. `linked`, `woken` and `hints` are the LISTEN connection of each worker and its
two channels, `work` the batch it is at. `Drain`, `Scan`, `TakeHint`, `Try` and `NextBatch` are
`Run`, `drain` and `reconcileNotified` in their order, with the channels first and the timer
when they are empty. A transition is one step, whose effects are `RoomStore`'s; it fails,
rolled back, in a room of `Broke`, whose players cannot pay another stake.

`ReconcilerAssumption` requires fewer such rooms than a batch holds, and it is needed: as many
of them as a batch fill every batch of the scan, oldest first, and no later round is reached
by it. And every notification resets the timer of the scan, so a stream of
notifications that never pauses for the interval puts it off; the rounds of the model are
bounded, so its streams end.

### State and actions of BrowserSessions

A session is its number, and so are its cookie and its security token. `tab` has
`backendTokenRef`, `authSession` and `sessionCSRF`; `tasks` is the chain of
`backendSessionTaskRef`; `boot` and `out` are the exchange and the sign-out under way, each
with the cookie it was sent with. The sequence numbers are modelled by what they are
compared for: a task is superseded when it is not the last of the chain, a request is
outdated (`current`) when `clearSessionSecurity` ran after it was sent. `Bootstrap` and
`Revoke` are the handlers of `auth/http.go`; `Answer`, `LoggedOut` and `SignedOut` what the tab
does with their answers. The other tabs of the browser may do anything to what is shared:
create a session for any account, revoke any, and leave any cookie, at any time. `half` marks
a tab whose sign-out revoked the server's session and was then refused by Supabase.
`socket.late` counts the frames written after the socket's session had ended.

### State and actions of Outbox

`row` is `room_outbox`; `batch`, `current`, `pc`, `age` are the local variables of
`OutboxWorker.RunOnce` on each server. `ClaimOutbox` reads the clock and claims the batch
in one step; `Publish`, `PublishFails`, `MarkOutboxPublished`, `ClaimLost`,
`ReleaseOutbox` and `CleanupPublishedOutbox` are the calls of the loop in their order, and
`Crash` stops a run anywhere. Times are kept relative to the present (`Tick` counts them
down), so no clock has to be bounded; times in the past are told apart up to `Horizon`,
ages up to `OldAge`, and attempts up to the one whose delay is `MaxRetry`. The claim
token is the server's name: a server has one run at a time, and a run that lost its
claim may only meet a token of its own server from a later run after it has stopped.

### State and actions of RoomFeed

`hub`, `room`, `made`, `mu` are `Hub.rooms`, its `localRoom`s and `h.mu`; `th[t]` is the
program counter and the locals of a goroutine: the handler of a socket, or the
subscription of a `localRoom`. A step is what happens under `h.mu` at once, one operation
on a queue, or one call to Redis or PostgreSQL. `queue` is the channel of capacity one,
`client` is `lastRevision` and `initialFrame` of `realtime.js`. `CheckRevision`,
`LockReconcile`, `LoadRoom`, `ApplySnapshot`, `Deliver` and `OfferAgain` are
`Hub.reconcile` in its order (the lock of `reconcileMu` and the second check under `h.mu`
are one step: nobody who holds `h.mu` waits for a `reconcileMu`). `Deliver` and
`OfferAgain` are the two halves of `snapshotQueue.Offer`, between which another
goroutine may put its snapshot. A snapshot is its revision; a frame is handled by the
browser in the step that writes it; a dead socket's queue is forgotten when it is
released. `missed` records that a hint was dropped because its load failed, which
`reconcile`'s caller ignores: `HubCatchesUp` promises nothing after that. The server
holds `h.mu` while one room subscribes; with one room in the model, that this stops all
other rooms is not shown.

## 3. Runs

All bounds are constants of the specifications, named in their `CONSTANTS` sections.
`CHECK_DEADLOCK FALSE` is set everywhere: clocks, revisions, faults and rounds are
bounded, so a run really may stop at its bounds, and players never have to act.

| Run | Question | Bounds and why they are enough |
|---|---|---|
| `Ledger` | do all orders of recharges, moves, votes, leaving, reconciliation and inactivity keep ledger and results consistent; does every funded round of a single room end, and a voted and payable round start? | under `FairSpec`, without symmetry; two accounts, one room, two rounds (the second is the first that needs an advance and may find wallets empty), recharges of 50 and 100 (exactly one stake, and two), two throws: all three results; two ticks, so an inactivity deadline of each round can expire |
| `TwoRooms` | do rooms that share wallets keep the coins and the promise of `PaidRounds`? | three accounts, two rooms: one account can sit in both, with two others or the same; one key, used again after its receipt is gone; accounts and rooms are interchangeable, hence the symmetry |
| `Presence` | do revisions, grace periods and forfeits follow the recorded presence? | two connections, three generations: absent, back, absent again, with an old deadline pending |
| `Absence` | which of reconciler, inactivity and disconnect ends the round, is it paid once, and does a player who stays away end it at the grace period? | under `FairSpec`; one throw (the result of two throws is `Ledger`'s question), one connection that either player opens and opens again, two rounds, two ticks, inactivity twice the grace period: the absent player's grace period can run out alone or together with the inactivity deadline. That both players hold connections is `Presence`'s case |
| `Locks` | is what a transaction saves what is committed, and who can wait for whom? | three transactions of any kinds (two of one room and one that shares its wallets, or a circle of three), two rooms of the same two accounts in opposite seats, one of them in every committed state |
| `Workers` | does every due transition get made whatever happens to its notification, and do echoes end? | one worker, three rooms of which one cannot pay and is the oldest, batches of two, two batches a drain: a full batch leaves one room out; one crash, lost connection or failed transaction |
| `Sessions` | does a tab act for whom it shows, show the latest login and forget it; how late may a socket write? | two accounts with a token each, two sessions created, three auth events ahead of the tab: two exchanges, one superseded, and a sign-out between them; one fault |
| `Publication` | is no hint lost, no live claim shared, every row published? | two servers, two rows (one batch, and its second row left claimed when the first fails), lease of two ticks, backoff of one and two ticks, so a publisher can outlive its claim |
| `Feed` | are sockets always served by the hub's room, does the hub catch up, does every setup end? | two browsers, two `localRoom`s one after the other, two revisions, one fault (of Redis, of PostgreSQL, of the network, or a hangup) at any point |
| `Reload` (violation) | can every committed room be loaded again? | finding 1 |
| `Stalled` (violation) | does every funded round end when there are two rooms? | finding 2 |
| `StaleSocket` (violation) | do sockets converge to the committed revision? | finding 3 |

`PROJECT.json` has, for each property of each passing run, a mutant: a plausible bug put
into the definition it names, which TLC finds with that property. The mutated forms
stand before the definitions they replace, marked `mutant`.

### Findings

1. **`Reload`** A grace period that ends with both players gone draws the round
   (`room.go` 353-365), also when one move is committed. `Restore` accepts a draw only
   with no move or two equal ones (433-450), so the committed room can never be loaded
   again: not joined, left, advanced or streamed. Where a load of the room is a guard,
   the model therefore has `Restorable`.
2. **`Stalled`** `ProcessNextDeadline` takes the earliest due deadline of all rooms. One
   of a room that waits for its second player, whose only player went away, is not
   claimed (not funded) and not cancelled (still active): it stays first for ever and no
   deadline of any other room is reached. With one room this cannot harm a funded round,
   which is why `Ledger` passes `FundedRoundSettles` and `Stalled` refutes it.
3. **`StaleSocket`** `Acquire` hands out the stored snapshot after it unlocked the hub. A
   newer snapshot may get into the queue of one first; the older one evicts it, and the
   reconcile that follows finds nothing new to deliver.

### Observations

Behaviours met while modelling that no document of the repository speaks of, or that a
property had to except:

* When the server has revoked a session and Supabase then refuses the sign-out, the tab goes
  on showing the account without a token: it can neither play nor sign out until the token
  is refreshed or the page loaded again. `ShownCanAct` excepts it (`half`).
* `api.js` 129 keeps a failed logout retryable; if only the answer of the logout was lost,
  the retry is refused, since its session is gone (`LogoutFails`, then `Revoke`).
* Of two tabs that bootstrap at the same time the one whose cookie was replaced holds a
  token that the server refuses until it bootstraps again.
* A request for the next round may be recorded in a room that closes meanwhile.
* A player leaving and a transaction that locked the round first can deadlock; one of them
  is aborted and its command fails or its worker tries again.
* A host who is absent when the guest joins has only a grace period of an older generation,
  which never applies: only inactivity ends that round.
* `realtime.js` 77 closes only a socket that is open; one that is still connecting survives
  that the player leaves the room.

## 4. Fairness

* `RoomStore`: weak fairness of `Tick`, of `ProcessNextDeadline` and of `Reconcile(c)` for
  each room. The servers poll on tickers for as long as they run (`worker/`), a failed
  transaction is retried at the next poll, and several servers run the same workers.
  Nothing is assumed of players, connections, sessions or the cleanup. For `Reconcile(c)`,
  `ReadyRoundMoves` of `Reconciler` is the reason, with its limits: fewer rooms that cannot pay
  than a batch holds, and pauses between notifications.
* `Reconciler`: weak fairness of each worker's next step and of its reconnection. A worker
  loops for as long as its process lives, its timer fires when nothing else comes, and
  `compose.yaml` restarts a process that died; so a crash is a fresh start. Nothing is assumed
  of players or of the best-effort pass after a command.
* `RoomLocks` and `BrowserSessions` state safety only, and no fairness.
* `Outbox`: weak fairness of `Tick` and of some server's run (not of each server: one may
  stay down); strong fairness, per row, of a publication by the server that still holds
  the claim and of the mark that follows it. A row that is claimed again and again is
  thus once published and marked without a crash, a failure of Redis or of the database,
  and within its lease. Without that assumption nothing can be promised: Redis may be
  down for ever.
* `RoomFeed`: weak fairness of every goroutine's next step and of the publication of each
  hint (which is what `Outbox` shows). A goroutine at a call to PostgreSQL or Redis gets
  an answer or an error, since every call has a context with a timeout. Nobody has to
  connect, stay connected, or commit anything.

## 5. Proofs

TLAPS proves these theorems for any number of rooms, accounts, keys, connections, servers,
rows, sockets and transactions, and any values of the bounds, the timing constants and the
configuration. With them every invariant, every action property that a passing run
checks, and the refinement are theorems; what is left to TLC alone is liveness (section 6).

| Theorem | States | Inductive invariant |
|---|---|---|
| `RoomStoreProofs!Typing` | `Spec => []TypeOK` | `TypeInv` |
| `RoomStoreProofs!RevisionsAnnounced` | `Spec => []EveryRevisionAnnounced` | `RevisionInv`, with `TypeInv` |
| `LedgerProofs!StakesInEscrow` | `Spec => []EscrowHoldsStakes` | `LedgerInv`, with `TypeInv` |
| `LedgerProofs!SettledOnce` | `Spec => []SettlementMatchesRound` | the same |
| `LedgerProofs!RoundsInOrder` | `Spec => []OneOpenRound` | the same |
| `OutboxProofs!PublishedBeforeMarked` | `Spec => []NoHintLost` | `Inv` |
| `OutboxProofs!OneLiveClaim` | `Spec => []LeaseExcludes` | the same |
| `OutboxProofs!RowsTyped` | `Spec => []RowTypeOK` | `TableOK`, with `Inv` |
| `PromiseProofs!PromiseKept` | `Spec => PaysAsPromised` | `MatchInv`, with `TypeInv` and `LedgerInv` |
| `PromiseProofs!WinsCounted` | `Spec => []WinsMatchHistory` | `WinsInv`, with the same |
| `PromiseProofs!NoCoinLost` | `Spec => []CoinsConserved` | `CoinInv`: `Balance` with all of these |
| `LedgerProofs!OutcomesStand` | `Spec => OutcomeImmutable` | `LabelInv`, with `TypeInv` and `LedgerInv` |
| `LedgerProofs!NothingUnseen` | `Spec => VisibleChangeBumpsRevision` | `RevisionInv`, with `TypeInv` and `LedgerInv` |
| `DeadlineProofs!TimerTracksRound` | `Spec => []InactivityTracksRound` | `StoreInv`: `DeadlineInv` with all of the above |
| `DeadlineProofs!GraceForAbsent` | `Spec => []GraceOnlyForAbsent` | the same |
| `DeadlineProofs!ForfeitsAreFair` | `Spec => ForfeitOnlyAbsent` | the same |
| `LocksProofs!LoadedStaysCurrent` | `Spec => []LoadedIsCurrent` | `LocksInv` |
| `LocksProofs!RevisionsTaken` | `Spec => RevisionsGapless` | the same |
| `LocksProofs!ActionsNeverErased` | `Spec => ActionsKept` | the same |
| `LocksProofs!DecidedRoundsFixed` | `Spec => DecidedRoundFixed` | the same |
| `LocksProofs!ClosedRoomsStay` | `Spec => ClosedRoomStays` | the same |
| `LocksProofs!DeadlocksOnlyLeave` | `Spec => []OnlyLeaveDeadlocks` | the same, and that the rows locked have a highest rank |
| `FeedProofs!FeedTyped` | `Spec => []FeedTypeOK` | `FeedInv` |
| `FeedProofs!SocketsStayServed` | `Spec => []ServedFromHub` | the same |
| `SessionProofs!TokenOfShownHolds` | `Spec => []TokenOfShown` | `SessionInv` |
| `SessionProofs!ShowsLatestHolds` | `Spec => []ShowsLatest` | the same |
| `SessionProofs!ShownCanActHolds` | `Spec => []ShownCanAct` | the same |
| `SessionProofs!SignedOutForgetsHolds` | `Spec => []SignedOutForgets` | the same |
| `SessionProofs!OneLateFrameHolds` | `Spec => []OneLateFrame` | the same |

* **Types.** The content of `TypeOK` is in the columns with a range: no wallet of a user is
  overdrawn, no committed round is left `settling`, a deadline names a role exactly when
  it is a disconnect deadline, history rows hold real results and players. `TypeOK` alone
  is not inductive: a room that does not exist has no current round, and an action that
  reads `rounds[c][Round(c)]` needs one. So `TypeInv == TypeOK /\ Started`, where `Started`
  says that a room has status `none` exactly when its round is 0 and that open
  connections belong to rooms with a round. The lemmas go along the code: the rules keep a
  room's type (`AwardRoom`, `Endings`), a load gives a room (`LoadRoom`), saving, funding and
  settling keep their tables (`SaveRows`, `FundTypes`, `SettleTypes`), then one lemma for
  each action, and `TypeStep` puts them together.
* **Revisions.** `StepRevises` shows that a step takes one revision of one room, which exists
  afterwards, and announces it, or takes none. To conclude that the outbox of a room is
  `1 .. revision`, a room that does not exist must have taken none; `RevisionInv` adds that.
* **Ledger.** `EscrowHoldsStakes`, `SettlementMatchesRound` and `OneOpenRound` are not inductive
  one by one: a round is paid correctly because its escrow was full and it was neither
  filed nor settled before, and a guest's arrival can stake a round only because nothing
  in the room is finished or filed while a seat is empty. `LedgerInv` is their conjunction,
  room by room (`Booked`, `Ordered`), with two additions: a finished round has both seats
  taken, and a room that exists has its host. The frame lemmas (`Elsewhere`, `SameAccounts`,
  `Untouched`) dispose of what a step leaves alone; `FundBooks` and `SettleBooks` say what
  staking and paying do; `JoinLedger`, `AdvanceLedger` and `EndingLedger` are the three places
  where they happen, the last one for the reconciler and all deadlines at once.
* **The promise.** The refinement is proved as refinements are: the initial state maps to
  the initial state of `PaidRounds`, and each action to a recharge, a stake, a payment or a
  stutter. That a payment is the one promised needs `LedgerInv`, and that it goes to two
  different accounts, which have staked: `MatchInv` adds that a room seats two different
  accounts, that a room without a round has no guest, and that a finished round was funded.
* **Wins.** Only a step that files a history row credits a win, to the seat the row names
  (`Moves` lists what a step may do to the accounts, the wins and the history: nothing, a
  recharge, a stake, a payment). That the row is new is `LedgerInv`, that the set counted is
  finite is `WinsInv`.
* **Coins.** `CoinsConserved` adds up functions, with a fold that chooses an element at each
  step. `Sum` is the same total by a function that always picks the same element
  (`SumOfFunction`); it exists for every finite set (`AddsExists`), and two functions that
  differ in one cell have sums that differ by the difference of the cell (`SumChange`).
  These are proved by the smallest set that would refute them, which
  `FS_StrictSubsetOrderingWellFounded` provides. A recharge then moves one cell of
  `recharged`, one wallet and the mint, a stake two wallets and one escrow, a payment one
  escrow, one or two wallets, the house and one row of the history: in each case both sides
  of `Balance` move by the same amount. That the two wallets are different cells is
  `MatchInv` again, and that the escrow held exactly two stakes is `LedgerInv`.
* **Results.** Every transaction is shown to stand in one relation to what was there
  (`Keeps`, and `Shows` for revisions); the two theorems are these relations. The reconciler
  and the deadlines guard on the status of the row, the theorem is about its result, so
  `LabelInv` ties them: an active row has no result, and a funded row without a result is
  active.
* **Deadlines.** An open round has its timer or both moves, and a timer's round is open
  (`Clocked`). A grace period is of a generation that has been; one of the current round and
  the present generation is of an absent player; one of an older generation exists only
  in the first round, from before the guest's arrival opened it (`Graced`). So the deadline
  that makes a player forfeit is of the current round and the present absence: a deadline
  that is claimed and does not apply can only exist in round 1. The proof carries every
  invariant of the store (`StoreInv`).
* **Browser sessions.** While an exchange is under way the tab shows nothing and vouches for
  nothing, and the answer in flight is of the task's account (`Exchanging`); a security
  token is of the account of the access token it was exchanged for (`Vouched`); what is shown
  is not contradicted by the chain (`Shown`); the last event or task is the browser's login
  (`Newest`); a frame that came late is the last (`LastFrame`). The sessions of other
  tabs matter only through one fact: a session keeps its account, and dead it stays dead.
* **Outbox.** A run marks only what it has published (`MarksPublished`), and whatever a run
  has in hand it holds with exactly the rest of its lease, or it is older than a lease
  (`ClaimsHold`); two live claims would need two owners of one row. `Shaped` gives the rows
  their columns and says how a run's local variables fit together. That a retry delay
  is an integer is a lemma of its own (`DelayTime`).
* **Locks.** `LocksInv` says which rows a transaction holds by how far it has come (`Holding`,
  and `Own` for the converse: it holds no others), that two holders of a row both share it
  (`Exclusion`), and what of its reads is still so (`Knows`). The heart is the last: a
  reconciler loads before it locks the room, and what it loaded stays current because it has
  claimed the round row, which every other transaction that changes the room, a leaving one
  included, locks before it saves. A commit is then a step from the committed room to the
  one its kind writes (`Follows`), and the four action properties are read off that
  relation. For the deadlocks, rows are ranked: round, move or request, room, wallets by
  account. Every transaction but a leaving one waits only for a row of a higher rank than it
  holds; a guest who joins takes the room before the round, but never waits for the round,
  since nobody else locks the round of a room without a guest (`JoinRoundFree`). In a set of
  transactions that wait for each other, the one that waits for the highest rank waits for
  a row whose holder waits for a higher one.
* **Feed.** `Creation` says that who holds `h.mu` across a subscription is at `subscribe`,
  that the hub has no room meanwhile and that the one being made is untouched;
  `Membership`, that the consumers of the hub's room are exactly the sockets that have
  acquired it and that its subscription has neither ended nor been cancelled. Both need to
  know where each kind of goroutine may stand and to where its call of `reconcile` returns
  (`Handler`, `Runner`). A release is the delicate step: it forgets the queue of the socket
  in every other goroutine (`ForgetMoves`), and cancels the subscription exactly when no
  other socket has acquired the room.

The assumptions are those the modules name: `NoOne` is no account, throws are throws,
amounts are positive, ticks and bounds are naturals (`RoomStore`); codes, accounts and
idempotency keys are finitely many, which the code ensures by bounding the length of each
(`FiniteAssumption` of `RoomStoreProperties`; only the sums need it); row identities and the
configuration are positive, `NoServer` is no server (`Outbox`); host and guest of a room are
different accounts, numbered in the order in which the code sorts their wallets, and a room
starts in a committed state (`LocksAssumption`); `NoSocket` is no socket and a socket is not
a room, since both name goroutines (`SocketsAssumption`); signed out is no token, every token
has its account, and the bounds are naturals (`BrowserSessions`). TLC evaluates them on every
run.

TLC checked every inductive invariant on the bounds of the runs too, but for two it cannot
evaluate: `Balance`, which is `CoinsConserved` with its sums written differently, and that
locked rows have a highest rank, which quantifies over the naturals. Two definitions could not be reasoned about as
they stood and were written again: in `Written` of `RoomLocks` and in `Release` of `RoomFeed`
two arms of a `CASE` could both apply, and which one TLC takes is not what a `CASE` means.
What TLC evaluated is unchanged.

Induction over data is out of the prover's reach in general: the theorems of the library that
state it take an operator. The few facts of this kind that the theorems need, about sums over
finite sets and about the rank of a lock, are proved from the smallest counterexample
(`WFMin` and the well-founded orders of naturals and of finite sets), which needs no operator.

## 6. What is only model-checked

* **Liveness** (`FundedRoundSettles`, `AbsenceEnds`, `NextRoundStarts`, `ReadyRoundMoves`,
  `EchoesEnd`, `EveryHintPublished`, `SetupEnds`, `HubCatchesUp`): the prover has no rules for
  fairness and `ENABLED`. The invariants these arguments rest on are theorems: that an open
  round has its timer or both moves, that a claim holds its lease, that a socket at
  `subscribe` holds the lock the others wait for.
* **The violations** (`Reload`, `Stalled`, `StaleSocket`): a counterexample needs no proof.

## 7. Not modelled, and the plan

Not modelled, and why:

* Token verification, CORS, parsing and status codes: no state of their own but the key
  cache, a map under one mutex. `BrowserSessions` starts from tokens that verify.
* The order of a shutdown: one goroutine's sequence of calls, each with its own timeout.
  What it does to the others is in the models as the end of connections, hangups, crashes
  of workers and claims that run out.
* Metrics and logs (they decide nothing); problem reports (one insert, one query);
  migrations (run once, under an advisory lock); the in-memory repository and the
  repository's older methods `repository.go` 28-461 (no route of the server reaches them);
  presentation and storage of the client.

Two hazards of `PROJECT.json` have no property. A subscription that is confirmed when its
setup has timed out (`hub.go` 79) leaks, which the feed models and which harms no socket;
a hint whose load fails (`hub.go` 116) is dropped, which `HubCatchesUp` excepts, because the
code promises no retry.

What was planned is done, up to these:

1. `RoomFeed` with two rooms, for what the holding of `h.mu` during a subscription does to the
   other room.
2. That what `RoomLocks` commits for each kind is what `RoomStore` does for it: a refinement
   of one room of `RoomStore`, whose steps `Follows` lists.
3. Theorems about `PaidRounds` itself (a pot is paid what was staked into it), and a type and
   safety invariant of `Reconciler`, whose runs ask for liveness only.
4. Two live connections of both players together with two rounds in one run of `Absence`,
   which `DeadlineProofs` covers for safety and no run for liveness.
