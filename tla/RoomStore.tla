----------------------------- MODULE RoomStore -----------------------------
(***************************************************************************)
(* The authoritative PostgreSQL store of rooms, rounds, wallets, presence  *)
(* and deadlines (internal/room/adapter/postgres), one action for each     *)
(* committed transaction.  A transaction that returns an error rolls back, *)
(* so a failed one is no step.  The rows a transaction reads are locked    *)
(* until it commits; a command replayed from its receipt changes nothing.  *)
(*                                                                         *)
(* Time is a counter of ticks shared by the servers and the database.      *)
(* deadlines and conns hold the pending deadlines and the open             *)
(* connections: rows that are cancelled, completed or closed decide        *)
(* nothing afterwards and are dropped at once.                             *)
(***************************************************************************)
EXTENDS Integers, RoomRules

CONSTANTS
  Codes,            \* room codes
  Accounts,         \* authenticated accounts
  Keys,             \* idempotency keys
  Conns,            \* connection identifiers
  NoOne,            \* the account of an empty seat
  Throws,           \* the throws players make
  RechargeAmounts,  \* the amounts accounts add to their wallets
  Grace,            \* DisconnectGracePeriod, in ticks
  Inactivity,       \* FundedInactivityDeadline, in ticks
  Lease,            \* LeaseDuration of a connection, in ticks
  MaxRound,         \* bound: rounds of one room
  MaxClock,         \* bound: ticks
  MaxGeneration     \* bound: presence generations that may reconnect

ASSUME NoOneAssumption == NoOne \notin Accounts
ASSUME ThrowsAssumption == Throws \subseteq Throw
ASSUME AmountsAssumption == RechargeAmounts \subseteq Nat \ {0}
ASSUME TicksAssumption == Grace \in Nat /\ Inactivity \in Nat /\ Lease \in Nat \ {0}
ASSUME BoundsAssumption == MaxRound \in Nat \ {0} /\ MaxClock \in Nat /\ MaxGeneration \in Nat

VARIABLES
  rooms,        \* room_rooms: status, round, revision
  seats,        \* room_seats: the account in each role
  wins,         \* room_seats: the wins of each role
  rounds,       \* room_rounds with its room_moves and room_next_round_requests
  wallet,       \* wallet_accounts of users
  escrow,       \* wallet_accounts of funded rounds
  house, mint,  \* the house and the recharge mint
  staked,       \* wallet_transactions stake:code:round
  settled,      \* wallet_transactions settlement:code:round
  recharged,    \* wallet_transactions recharge:account:key, with the amount
  history,      \* game_round_history
  outbox,       \* room_outbox: the revisions announced for each room
  receipts,     \* command_receipts: the keys in use
  presence,     \* room_presence: generation (0: no row) and present
  conns,        \* room_connections that are open
  deadlines,    \* room_deadlines that are pending
  clock

money == <<wallet, escrow, house, mint, staked, settled, recharged, history>>
game == <<rooms, seats, wins, rounds, outbox>>
connectivity == <<presence, conns>>
vars == <<game, money, receipts, connectivity, deadlines, clock>>

RoundStake == 50
WinnerPayout == 75
HousePayout == 25

Rounds == 1 .. MaxRound

NoRoom == [status |-> "none", round |-> 0, revision |-> 0]
NoRound == [status |-> "none", result |-> NoResult, forfeited |-> NoRole,
            funded |-> FALSE, moves |-> [p \in Role |-> NoMove], next |-> {}]

Init ==
  /\ rooms = [c \in Codes |-> NoRoom]
  /\ seats = [c \in Codes |-> [p \in Role |-> NoOne]]
  /\ wins = [c \in Codes |-> [p \in Role |-> 0]]
  /\ rounds = [c \in Codes |-> [n \in Rounds |-> NoRound]]
  /\ wallet = [a \in Accounts |-> 0]
  /\ escrow = [c \in Codes |-> [n \in Rounds |-> 0]]
  /\ house = 0 /\ mint = 0
  /\ staked = {} /\ settled = {} /\ history = {}
  /\ recharged = [a \in Accounts |-> [k \in Keys |-> 0]]
  /\ outbox = [c \in Codes |-> {}]
  /\ receipts = {}
  /\ presence = [c \in Codes |-> [p \in Role |-> [gen |-> 0, present |-> FALSE]]]
  /\ conns = {} /\ deadlines = {}
  /\ clock = 0

-----------------------------------------------------------------------------
(* Reading and writing one room.                                           *)

Round(c) == rooms[c].round
Row(c) == rounds[c][Round(c)]
Seated(c, a, p) == seats[c][p] = a
Full(c) == \A p \in Role : seats[c][p] # NoOne

(* load: the aggregate of the current round; Restorable says it succeeds.  *)
Load(c) ==
  [players |-> {p \in Role : seats[c][p] # NoOne}, wins |-> wins[c],
   moves |-> Row(c).moves, result |-> Row(c).result, forfeited |-> Row(c).forfeited,
   round |-> Round(c), next |-> Row(c).next, closed |-> rooms[c].status = "closed"]

(* save: the round row of an aggregate, and the rows around it.            *)
RoundRow(r, funded) ==
  [status |-> IF Resolved(r) THEN "resolved" ELSE "active", result |-> r.result,
   forfeited |-> r.forfeited, funded |-> funded, moves |-> r.moves, next |-> r.next]

SaveRoom(c, r) ==
  /\ rooms' = [rooms EXCEPT ![c] =
       [status |-> IF r.closed THEN "closed" ELSE "active", round |-> r.round,
        revision |-> @.revision + 1]]
  /\ wins' = [wins EXCEPT ![c] = r.wins]

Save(c, r, funded) ==
  SaveRoom(c, r) /\ rounds' = [rounds EXCEPT ![c][r.round] = RoundRow(r, funded)]

(* Every transaction that takes a revision announces it.                   *)
Announce(c) == outbox' = [outbox EXCEPT ![c] = @ \cup {rooms'[c].revision}]

SilentBump(c) ==  \* mutant: the outbox row is forgotten
  rooms' = [rooms EXCEPT ![c].revision = @ + 1] /\ UNCHANGED outbox
NoBump(c) == UNCHANGED <<rooms, outbox>>  \* mutant: the revision stands still

BumpRevision(c) ==
  /\ rooms' = [rooms EXCEPT ![c].revision = @ + 1]
  /\ Announce(c)

Fresh(k) == k \notin receipts
Receipt(k) == receipts' = receipts \cup {k}
-----------------------------------------------------------------------------
(* Wallets.                                                                *)

InactivityDeadline(c, n) ==
  [room |-> c, round |-> n, kind |-> "inactivity", role |-> NoRole, gen |-> n,
   due |-> clock + Inactivity]

AffordMore(owners) ==  \* mutant: off by one
  \A a \in owners : wallet[a] > RoundStake
AffordOne(owners) ==  \* mutant: one balance is looked at
  \E a \in owners : wallet[a] >= RoundStake
Afford(owners) == \A a \in owners : wallet[a] >= RoundStake

StakeOne(c, n, owners) ==  \* mutant: one stake reaches the escrow
  /\ staked' = staked \cup {<<c, n>>}
  /\ wallet' = [a \in Accounts |-> IF a \in owners THEN wallet[a] - RoundStake ELSE wallet[a]]
  /\ escrow' = [escrow EXCEPT ![c][n] = @ + RoundStake]
StakeBoth(c, n, owners) ==
  /\ staked' = staked \cup {<<c, n>>}
  /\ wallet' = [a \in Accounts |-> IF a \in owners THEN wallet[a] - RoundStake ELSE wallet[a]]
  /\ escrow' = [escrow EXCEPT ![c][n] = @ + 2 * RoundStake]

(* fundRound: both stakes move into escrow, once for each round, and the   *)
(* round's inactivity deadline starts.                                     *)
FundRound(c, n, owners) ==
  /\ IF rounds[c][n].funded \/ <<c, n>> \in staked
     THEN UNCHANGED <<wallet, escrow, staked>>
     ELSE Afford(owners) /\ StakeBoth(c, n, owners)
  /\ deadlines' = deadlines \cup {InactivityDeadline(c, n)}

(* settlementEffects: what a result pays a role and the house.             *)
PayoutWhole(result, p) ==  \* mutant: the winner takes the house's share too
  IF result = Draw THEN RoundStake
  ELSE IF result = WinFor(p) THEN WinnerPayout + HousePayout ELSE 0
PayoutNoRefund(result, p) ==  \* mutant: a draw refunds the host alone
  IF result = Draw THEN (IF p = "host" THEN RoundStake ELSE 0)
  ELSE IF result = WinFor(p) THEN WinnerPayout ELSE 0
Payout(result, p) ==
  IF result = Draw THEN RoundStake
  ELSE IF result = WinFor(p) THEN WinnerPayout ELSE 0
HouseEarnings(result) == IF result = Draw THEN 0 ELSE HousePayout

HistoryWithoutForfeit(c, r) ==  \* mutant: a forfeit is filed as a plain win
  [room |-> c, round |-> r.round, host |-> seats[c]["host"], guest |-> seats[c]["guest"],
   result |-> r.result, forfeit |-> FALSE, earnings |-> HouseEarnings(r.result)]
HistoryRow(c, r) ==
  [room |-> c, round |-> r.round, host |-> seats[c]["host"], guest |-> seats[c]["guest"],
   result |-> r.result, forfeit |-> r.forfeited # NoRole,
   earnings |-> HouseEarnings(r.result)]

HasHistory(c, n) == \E h \in history : h.room = c /\ h.round = n

(* settleRound: the escrow of the resolved room r is paid out, once.       *)
SettleLater(c, r) == UNCHANGED money  \* mutant: the result is saved, not paid
SettleRound(c, r) ==
  IF HasHistory(c, r.round) THEN UNCHANGED money
  ELSE /\ Full(c)
       /\ escrow[c][r.round] = 2 * RoundStake
       /\ IF <<c, r.round>> \in settled THEN UNCHANGED money
          ELSE /\ settled' = settled \cup {<<c, r.round>>}
               /\ escrow' = [escrow EXCEPT ![c][r.round] = @ - 2 * RoundStake]
               /\ wallet' = [a \in Accounts |->
                    CASE Seated(c, a, "host") -> wallet[a] + Payout(r.result, "host")
                      [] Seated(c, a, "guest") -> wallet[a] + Payout(r.result, "guest")
                      [] OTHER -> wallet[a]]
               /\ house' = house + HouseEarnings(r.result)
               /\ history' = history \cup {HistoryRow(c, r)}
               /\ UNCHANGED <<mint, staked, recharged>>

RechargeAgain(a, k) == TRUE  \* mutant: the business key is not unique
NewRecharge(a, k) == recharged[a][k] = 0

RechargeCommand(a, amount, k) ==
  /\ Fresh(k) /\ NewRecharge(a, k)
  /\ recharged' = [recharged EXCEPT ![a][k] = amount]
  /\ wallet' = [wallet EXCEPT ![a] = @ + amount]
  /\ mint' = mint - amount
  /\ Receipt(k)
  /\ UNCHANGED <<game, escrow, house, staked, settled, history, connectivity, deadlines, clock>>

-----------------------------------------------------------------------------
(* Commands of players.                                                    *)

CreateCommand(a, c, k) ==
  /\ Fresh(k)
  /\ wallet[a] >= RoundStake
  /\ rooms[c].status = "none"
  /\ rooms' = [rooms EXCEPT ![c] = [status |-> "active", round |-> 1, revision |-> 1]]
  /\ rounds' = [rounds EXCEPT ![c][1] = [NoRound EXCEPT !.status = "active"]]
  /\ seats' = [seats EXCEPT ![c]["host"] = a]
  /\ Announce(c) /\ Receipt(k)
  /\ UNCHANGED <<wins, money, connectivity, deadlines, clock>>

JoinCommand(a, c, k) ==
  /\ Fresh(k)
  /\ rooms[c].status # "none"
  /\ Restorable(Load(c)) /\ CanJoin(Load(c))
  /\ \A p \in Role : ~Seated(c, a, p)
  /\ FundRound(c, Round(c), {seats[c]["host"], a})
  /\ seats' = [seats EXCEPT ![c]["guest"] = a]
  /\ presence' = [presence EXCEPT ![c] =
       [p \in Role |-> [gen |-> @[p].gen + 1, present |-> @[p].present]]]
  /\ Save(c, Join(Load(c)), TRUE)
  /\ Announce(c) /\ Receipt(k)
  /\ UNCHANGED <<house, mint, settled, recharged, history, conns, clock>>

(* recordRoomAction: what a move and a next-round request have in common.  *)
RecordRoomAction(c, k, required) ==
  /\ Fresh(k)
  /\ rooms[c].status = "active"
  /\ Row(c).status = required
  /\ Row(c).funded /\ Full(c)
  /\ BumpRevision(c) /\ Receipt(k)
  /\ UNCHANGED <<seats, wins, money, connectivity, deadlines, clock>>

ReplacesMove(c, p) == TRUE  \* mutant: a second move overwrites the first
NewMove(c, p) == Row(c).moves[p] = NoMove

SubmitMoveCommand(a, c, throw, k) ==
  \E p \in Role :
    /\ Seated(c, a, p)
    /\ RecordRoomAction(c, k, "active")
    /\ NewMove(c, p)
    /\ rounds' = [rounds EXCEPT ![c][Round(c)].moves[p] = throw]

RequestNextRoundCommand(a, c, k) ==
  \E p \in Role :
    /\ Seated(c, a, p)
    /\ RecordRoomAction(c, k, "resolved")
    /\ p \notin Row(c).next
    /\ rounds' = [rounds EXCEPT ![c][Round(c)].next = @ \cup {p}]

LeaveCommand(a, c, k) ==
  \E p \in Role :
    /\ Fresh(k)
    /\ rooms[c].status # "none"
    /\ Restorable(Load(c))
    /\ Seated(c, a, p)
    /\ CanLeave(Load(c), p)
    /\ Save(c, Leave(Load(c)), Row(c).funded)
    /\ Announce(c) /\ Receipt(k)
    /\ UNCHANGED <<seats, money, connectivity, deadlines, clock>>

CleanupCommandReceipts(k) ==
  /\ k \in receipts
  /\ receipts' = receipts \ {k}
  /\ UNCHANGED <<game, money, connectivity, deadlines, clock>>

-----------------------------------------------------------------------------
(* Reconciliation of committed moves and next-round requests.              *)

ClaimResolve(c) ==
  /\ rooms[c].status = "active"
  /\ Row(c).status = "active" /\ Row(c).funded
  /\ Submitted(Load(c)) = Role

(* Settling a round cancels every deadline of it that is still pending.    *)
KeepInactivity(c) ==  \* mutant: only grace periods are cancelled
  {d \in deadlines : ~(d.room = c /\ d.round = Round(c) /\ d.kind = "disconnect")}
OtherDeadlines(c) == {d \in deadlines : ~(d.room = c /\ d.round = Round(c))}

ReconcileResolve(c) ==
  LET r == Load(c) IN
  /\ ClaimResolve(c)
  /\ Restorable(r) /\ CanResolveCommittedMoves(r, Round(c))
  /\ Save(c, ResolveCommittedMoves(r), TRUE)
  /\ SettleRound(c, ResolveCommittedMoves(r))
  /\ deadlines' = OtherDeadlines(c)
  /\ Announce(c)
  /\ UNCHANGED <<seats, receipts, connectivity, clock>>

ClaimAdvance(c) ==
  /\ rooms[c].status = "active"
  /\ Row(c).status = "resolved"
  /\ Row(c).next = Role

(* The old round is claimed as settling and released as resolved; the new  *)
(* round is inserted and funded.                                           *)
ReconcileAdvance(c) ==
  LET r == Load(c)
      n == Round(c) + 1
      released == [rounds EXCEPT ![c][Round(c)].status = "resolved"]
  IN
  /\ n <= MaxRound
  /\ ClaimAdvance(c)
  /\ Restorable(r) /\ CanAdvance(r, Round(c))
  /\ FundRound(c, n, {seats[c][p] : p \in Role})
  /\ SaveRoom(c, Advance(r))
  /\ rounds' = [released EXCEPT ![c][n] = RoundRow(Advance(r), TRUE)]
  /\ Announce(c)
  /\ UNCHANGED <<seats, house, mint, settled, recharged, history, receipts,
                 connectivity, clock>>

-----------------------------------------------------------------------------
(* Connections of seated players.  A connection holds a lease; the first   *)
(* connection of an absent role makes it present, and closing the last     *)
(* one starts its grace period.                                            *)

Connection(id, c, p) == [id |-> id, room |-> c, role |-> p, lease |-> clock + Lease]

Live(c, p, at) == \E k \in conns : k.room = c /\ k.role = p /\ k.lease > at

DisconnectDeadline(c, p, gen, due) ==
  [room |-> c, round |-> Round(c), kind |-> "disconnect", role |-> p, gen |-> gen,
   due |-> due]

(* Coming back cancels the grace period of that absence.                   *)
KeepGrace(c, p, gen) == deadlines  \* mutant: the grace period runs on
WithoutGrace(c, p, gen) ==
  {d \in deadlines : ~(/\ d.room = c /\ d.round = Round(c) /\ d.kind = "disconnect"
                        /\ d.role = p /\ d.gen = gen)}

OpenConnection(a, c, id) ==
  \E p \in Role :
    LET seat == presence[c][p]
        gen == IF seat.gen = 0 THEN 1 ELSE seat.gen
    IN
    /\ rooms[c].status # "none" /\ Seated(c, a, p)
    /\ \A k \in conns : k.id # id
    /\ conns' = conns \cup {Connection(id, c, p)}
    /\ \/ /\ seat.present
          /\ UNCHANGED <<presence, deadlines, rooms, outbox>>
       \/ /\ ~seat.present
          /\ seat.gen < MaxGeneration
          /\ presence' = [presence EXCEPT ![c][p] = [gen |-> gen, present |-> TRUE]]
          /\ deadlines' = WithoutGrace(c, p, gen)
          /\ BumpRevision(c)
    /\ UNCHANGED <<seats, wins, rounds, money, receipts, clock>>

(* A lease that has expired but is not reaped yet can still be renewed.    *)
RenewConnection(k) ==
  /\ k \in conns
  /\ conns' = (conns \ {k}) \cup {Connection(k.id, k.room, k.role)}
  /\ UNCHANGED <<game, money, receipts, presence, deadlines, clock>>

(* closeConnection: k disappeared at the time at.                          *)
Disappear(k, at) ==
  LET c == k.room
      p == k.role
      gen == presence[c][p].gen + 1
  IN
  /\ k \in conns
  /\ conns' = conns \ {k}
  /\ IF presence[c][p].present /\ \A l \in conns \ {k} :
             ~(l.room = c /\ l.role = p /\ l.lease > at)
     THEN /\ presence' = [presence EXCEPT ![c][p] = [gen |-> gen, present |-> FALSE]]
          /\ deadlines' = deadlines \cup {DisconnectDeadline(c, p, gen, at + Grace)}
          /\ BumpRevision(c)
     ELSE UNCHANGED <<presence, deadlines, rooms, outbox>>
  /\ UNCHANGED <<seats, wins, rounds, money, receipts, clock>>

CloseConnection(k) == Disappear(k, clock)
ReapExpiredConnection(k) == k.lease <= clock /\ Disappear(k, k.lease)

(* Deleting a revoked session deletes the connections opened with it, by   *)
(* foreign key; nothing tells the room.                                    *)
DeleteSession(k) ==
  /\ k \in conns
  /\ conns' = conns \ {k}
  /\ UNCHANGED <<game, money, receipts, presence, deadlines, clock>>

-----------------------------------------------------------------------------
(* ProcessNextDeadline: one transaction of the deadline worker.            *)

Due(d) == d \in deadlines /\ d.due <= clock

(* The order by due time, kind and identity.  Identities grow with the     *)
(* rounds of a room; between rooms a tie may go either way.                *)
Before(d, e) ==
  \/ d.due < e.due
  \/ d.due = e.due /\ d.kind = "disconnect" /\ e.kind = "inactivity"
  \/ d.due = e.due /\ d.kind = e.kind /\ d.room = e.room /\ d.round < e.round

Candidate(d) == Due(d) /\ \A e \in deadlines : Due(e) => ~Before(e, d)

ActiveRound(d) ==
  /\ rooms[d.room].status = "active"
  /\ Round(d.room) = d.round
  /\ Row(d.room).status = "active"

ClaimDeadline(d) == Candidate(d) /\ ActiveRound(d) /\ Row(d.room).funded

(* A candidate that cannot be claimed is cancelled, but not when only the  *)
(* missing funding stopped it: then the transaction commits no change.     *)
CancelUnclaimed(d) ==
  /\ Candidate(d) /\ ~ActiveRound(d)
  /\ deadlines' = deadlines \ {d}
  /\ UNCHANGED <<game, money, receipts, connectivity, clock>>

(* nextApplicableDeadline looks at the due deadlines of the claimed room.  *)
DueIn(c) == {d \in deadlines : d.room = c /\ Due(d)}

AnyGeneration(d) ==  \* mutant: the grace period of an earlier absence counts
  /\ rooms[d.room].status = "active" /\ ~Resolved(Load(d.room)) /\ Row(d.room).funded
  /\ d.kind = "disconnect" => ~presence[d.room][d.role].present
LateGeneration(d) ==  \* mutant: the generation is compared before it is raised
  /\ rooms[d.room].status = "active" /\ ~Resolved(Load(d.room)) /\ Row(d.room).funded
  /\ d.kind = "disconnect" =>
       presence[d.room][d.role] = [gen |-> d.gen + 1, present |-> FALSE]
Applicable(d) ==
  /\ rooms[d.room].status = "active" /\ ~Resolved(Load(d.room)) /\ Row(d.room).funded
  /\ d.kind = "disconnect" =>
       presence[d.room][d.role] = [gen |-> d.gen, present |-> FALSE]

ClaimRoom(c) == (\E d \in DueIn(c) : ClaimDeadline(d)) /\ Restorable(Load(c))

NextApplicable(d) ==
  /\ Due(d) /\ Applicable(d)
  /\ \A e \in DueIn(d.room) : Applicable(e) => ~Before(e, d)

(* The deadlines cancelled on the way to d.                                *)
Skipped(d) == {e \in DueIn(d.room) : Before(e, d)}

CancelInapplicable(c) ==
  /\ ClaimRoom(c)
  /\ \A d \in DueIn(c) : ~Applicable(d)
  /\ deadlines' = deadlines \ DueIn(c)
  /\ UNCHANGED <<game, money, receipts, connectivity, clock>>

(* The player is back, or both moves are in and wait for the reconciler.   *)
CancelDeadline(d) ==
  /\ d \in deadlines /\ ClaimRoom(d.room) /\ NextApplicable(d)
  /\ IF d.kind = "disconnect" THEN Live(d.room, d.role, clock)
     ELSE ~CanResolveInactivity(Load(d.room), Round(d.room))
  /\ deadlines' = deadlines \ (Skipped(d) \cup {d})
  /\ UNCHANGED <<game, money, receipts, connectivity, clock>>

SettleDeadline(d, r) ==
  /\ ClaimRoom(d.room) /\ NextApplicable(d)
  /\ Save(d.room, r, TRUE)
  /\ SettleRound(d.room, r)
  /\ deadlines' = OtherDeadlines(d.room) \ Skipped(d)
  /\ Announce(d.room)
  /\ UNCHANGED <<seats, receipts, connectivity, clock>>

ForfeitToNobody(d) ==  \* mutant: the opponent may be gone as well
  LET r == Load(d.room) IN
  /\ d \in deadlines /\ d.kind = "disconnect"
  /\ ~Live(d.room, d.role, clock)
  /\ CanForfeit(r, Round(d.room))
  /\ SettleDeadline(d, Forfeit(r, d.role))
ForfeitAbsent(d) ==
  LET r == Load(d.room) IN
  /\ d \in deadlines /\ d.kind = "disconnect"
  /\ ~Live(d.room, d.role, clock) /\ Live(d.room, Opponent(d.role), clock)
  /\ CanForfeit(r, Round(d.room))
  /\ SettleDeadline(d, Forfeit(r, d.role))

DrawAbsent(d) ==
  LET r == Load(d.room) IN
  /\ d \in deadlines /\ d.kind = "disconnect"
  /\ \A p \in Role : ~Live(d.room, p, clock)
  /\ CanResolveDeadlineDraw(r, Round(d.room))
  /\ SettleDeadline(d, ResolveDeadlineDraw(r))

ResolveIdle(d) ==
  LET r == Load(d.room) IN
  /\ d \in deadlines /\ d.kind = "inactivity"
  /\ CanResolveInactivity(r, Round(d.room))
  /\ SettleDeadline(d, ResolveInactivity(r))

ProcessNextDeadline ==
  \/ \E c \in Codes : CancelInapplicable(c)
  \/ \E d \in deadlines :
       \/ CancelUnclaimed(d)
       \/ CancelDeadline(d)
       \/ ForfeitAbsent(d)
       \/ DrawAbsent(d)
       \/ ResolveIdle(d)

-----------------------------------------------------------------------------
Tick ==
  /\ clock < MaxClock
  /\ clock' = clock + 1
  /\ UNCHANGED <<game, money, receipts, connectivity, deadlines>>

Command ==
  \E a \in Accounts, k \in Keys :
    \/ \E amount \in RechargeAmounts : RechargeCommand(a, amount, k)
    \/ \E c \in Codes :
         \/ CreateCommand(a, c, k)
         \/ JoinCommand(a, c, k)
         \/ \E throw \in Throws : SubmitMoveCommand(a, c, throw, k)
         \/ RequestNextRoundCommand(a, c, k)
         \/ LeaveCommand(a, c, k)

Reconcile(c) == ReconcileResolve(c) \/ ReconcileAdvance(c)

Connect ==
  \/ \E a \in Accounts, c \in Codes, id \in Conns : OpenConnection(a, c, id)
  \/ \E k \in conns :
       \/ RenewConnection(k)
       \/ CloseConnection(k)
       \/ ReapExpiredConnection(k)
       \/ DeleteSession(k)

Next ==
  \/ Command
  \/ \E k \in receipts : CleanupCommandReceipts(k)
  \/ \E c \in Codes : Reconcile(c)
  \/ Connect
  \/ ProcessNextDeadline
  \/ Tick

Spec == Init /\ [][Next]_vars

(* The workers of every server poll for ever; players promise nothing.     *)
Fairness ==
  /\ WF_vars(Tick)
  /\ WF_vars(ProcessNextDeadline)
  /\ \A c \in Codes : WF_vars(Reconcile(c))

FairSpec == Spec /\ Fairness
=============================================================================
