----------------------------- MODULE RoomLocks -----------------------------
(***************************************************************************)
(* The row locks of the store's transactions, statement by statement.      *)
(* RoomStore takes a transaction as one step; this module shows what       *)
(* carries that: which rows a transaction locks and in which order, what   *)
(* it has read before it holds them, and what of it may be stale when it   *)
(* writes (internal/room/adapter/postgres).                                *)
(*                                                                         *)
(* The database is PostgreSQL under READ COMMITTED.  A statement takes its *)
(* snapshot when it starts (the step "ask"); when it then gets a row lock  *)
(* it has waited for, it sees the new version of that row and still the    *)
(* old version of every other row.                                         *)
(***************************************************************************)
EXTENDS Integers, FiniteSets, Sequences

CONSTANTS
  Txs,          \* connections of the servers to the database
  Codes,        \* rooms
  Host, Guest,  \* the accounts of a room, numbered as their names are sorted
  Start,        \* bound: the committed states each room may start in
  MaxBegun      \* bound: transactions begun

VARIABLES
  room,      \* the committed rows of each room: room_rooms, its current round with
             \* moves and requests, and whether the guest's seat is taken
  revision,  \* room_rooms.revision, committed
  locks,     \* the row locks held
  tx,        \* the transactions
  begun      \* how many were begun

vars == <<room, revision, locks, tx, begun>>

Role == {"host", "guest"}

(* What each transaction does, in its order: "ask" starts the statement    *)
(* that "share" or "claim" finishes with a lock on the round, "insert"     *)
(* waits for another insertion of the same key, "save" writes and commits. *)
Plan ==
  [join      |-> <<"room", "load", "wallets", "round", "save">>,
   leave     |-> <<"room", "load", "round", "save">>,
   move      |-> <<"ask", "share", "insert", "room", "save">>,
   vote      |-> <<"ask", "share", "insert", "room", "save">>,
   reconcile |-> <<"ask", "claim", "load", "room", "wallets", "save">>,
   deadline  |-> <<"ask", "claim", "room", "load", "wallets", "save">>,
   presence  |-> <<"room", "save">>]
Kinds == DOMAIN Plan
Actions == {"move", "vote"}

LoadsUnlocked(kind) ==  \* mutant: leaving loads the room before it locks it
  [Plan EXCEPT !.leave = <<"load", "room", "round", "save">>][kind]
Statements(kind) == Plan[kind]

(* The states in which committed transactions leave a room.                *)
Waiting == [status |-> "active", guest |-> FALSE, round |-> 1, state |-> "active",
            funded |-> FALSE, moves |-> {}, votes |-> {}]
Playing(moves) == [Waiting EXCEPT !.guest = TRUE, !.funded = TRUE, !.moves = moves]
Decided(moves, votes) == [Playing(moves) EXCEPT !.state = "resolved", !.votes = votes]
Committed == {Waiting} \cup {Playing(m) : m \in SUBSET Role}
                       \cup {Decided(m, v) : m \in {{}, Role}, v \in SUBSET Role}

ASSUME LocksAssumption ==
  /\ {Host, Guest} \subseteq [Codes -> Nat \ {0}]
  /\ \A c \in Codes : Host[c] # Guest[c]
  /\ Start \in [Codes -> SUBSET Committed]
  /\ MaxBegun \in Nat

Idle == [kind |-> "none"]

Init ==
  /\ room \in [Codes -> Committed] /\ \A c \in Codes : room[c] \in Start[c]
  /\ revision = [c \in Codes |-> 1]
  /\ locks = {} /\ begun = 0
  /\ tx = [t \in Txs |-> Idle]

-----------------------------------------------------------------------------
(* Locks.                                                                  *)

Running(t) == tx[t].kind # "none"
Statement(t) == Statements(tx[t].kind)[tx[t].at]
At(t, statement) == Running(t) /\ Statement(t) = statement

RoomRow(t) == <<"room", tx[t].code>>
RoundRow(t) == <<"round", tx[t].code, tx[t].round>>
ActionRow(t) == <<tx[t].kind, tx[t].code, tx[t].round, tx[t].role>>
WalletRow(w) == <<"wallet", w>>
Holds(t, row) == \E l \in locks : l.tx = t /\ l.row = row

(* The wallets a transaction locks: those of both players, and the house,  *)
(* which sorts before them, when it pays.                                  *)
Pays(t) == tx[t].kind = "deadline" \/ (tx[t].kind = "reconcile" /\ tx[t].seen.state = "active")
Wallets(t) ==
  LET c == tx[t].code IN {Host[c], Guest[c]} \cup (IF Pays(t) THEN {0} ELSE {})
Unlocked(t) == {w \in Wallets(t) : ~Holds(t, WalletRow(w))}

ByRole(t, w) ==  \* mutant: the wallets are locked as the seats are ordered
  LET c == tx[t].code
  IN (w = Guest[c] => Host[c] \notin Unlocked(t)) /\ (w = 0 => Unlocked(t) = {0})
NextWallet(t, w) == \A v \in Unlocked(t) : w <= v

(* The lock a transaction asks for next, if its statement needs one.       *)
Lock(row, mode) == {[row |-> row, mode |-> mode]}
Wanted(t) ==
  CASE At(t, "room") -> Lock(RoomRow(t), "exclusive")
    [] At(t, "share") -> Lock(RoundRow(t), "share")
    [] At(t, "claim") \/ At(t, "round") -> Lock(RoundRow(t), "exclusive")
    [] At(t, "insert") -> Lock(ActionRow(t), "exclusive")
    [] At(t, "wallets") ->
         UNION {Lock(WalletRow(w), "exclusive") : w \in {v \in Unlocked(t) : NextWallet(t, v)}}
    [] OTHER -> {}

WaitsFor(t, u) ==
  /\ t # u
  /\ \E want \in Wanted(t), l \in locks :
       /\ l.tx = u /\ l.row = want.row
       /\ "exclusive" \in {want.mode, l.mode}
Blocked(t) == \E u \in Txs : WaitsFor(t, u)

Acquire(t) ==
  /\ ~Blocked(t)
  /\ locks' = locks \cup {[tx |-> t, row |-> want.row, mode |-> want.mode] : want \in Wanted(t)}
Proceed(t, changed) == tx' = [tx EXCEPT ![t] = [changed EXCEPT !.at = @ + 1]]

(* Commit or rollback.                                                     *)
End(t) ==
  /\ tx' = [tx EXCEPT ![t] = Idle]
  /\ locks' = {l \in locks : l.tx # t}

-----------------------------------------------------------------------------
(* Transactions.                                                           *)

(* The reconciler and the deadlines are given the round that was current   *)
(* when they were told; a player acts in the role of a seat.               *)
Begin(t, kind, c, p) ==
  /\ ~Running(t) /\ begun < MaxBegun
  /\ kind \in Actions \/ p = "host"
  /\ begun' = begun + 1
  /\ tx' = [tx EXCEPT ![t] = [kind |-> kind, at |-> 1, code |-> c, role |-> p,
                              round |-> room[c].round, seen |-> Waiting, revision |-> 0]]
  /\ UNCHANGED <<room, revision, locks>>

(* The row of round n, which is resolved once it is not the current one.   *)
State(c, n) == IF n = room[c].round THEN room[c].state ELSE "resolved"

Resolvable(r) == r.state = "active" /\ r.funded /\ r.moves = Role
Advanceable(r) == r.state = "resolved" /\ r.votes = Role
Claimable(kind, r) ==
  r.status = "active" /\ (IF kind = "deadline" THEN r.state = "active" /\ r.funded
                          ELSE Resolvable(r) \/ Advanceable(r))

(* The snapshot of recordRoomAction, claimRoomTransition or the claim of a *)
(* deadline.                                                               *)
Ask(t) ==
  /\ At(t, "ask")
  /\ LET r == room[tx[t].code]
         read == IF tx[t].kind \in Actions THEN r.round ELSE tx[t].round
     IN IF tx[t].kind \in Actions \/ (read = r.round /\ Claimable(tx[t].kind, r))
        THEN Proceed(t, [tx[t] EXCEPT !.seen = r, !.round = read]) /\ UNCHANGED locks
        ELSE End(t)
  /\ UNCHANGED <<room, revision, begun>>

(* recordRoomAction: the round's row is new, the rest is from the snapshot. *)
Required(kind) == IF kind = "move" THEN "active" ELSE "resolved"
AllowedBySnapshot(t) ==  \* mutant: the round's row is read without a lock
  LET r == tx[t].seen IN r.status = "active" /\ r.state = Required(tx[t].kind) /\ r.guest
Allowed(t) ==
  /\ tx[t].seen.status = "active" /\ tx[t].seen.guest
  /\ State(tx[t].code, tx[t].round) = Required(tx[t].kind)

ShareRound(t) ==
  /\ At(t, "share") /\ ~Blocked(t)
  /\ IF Allowed(t) THEN Acquire(t) /\ Proceed(t, [tx[t] EXCEPT !.seen = Waiting]) ELSE End(t)
  /\ UNCHANGED <<room, revision, begun>>

Recorded(t) ==
  LET r == room[tx[t].code]
  IN \/ tx[t].round # r.round
     \/ tx[t].role \in (IF tx[t].kind = "move" THEN r.moves ELSE r.votes)

InsertAction(t) ==
  /\ At(t, "insert") /\ ~Blocked(t)
  /\ IF Recorded(t) THEN End(t) ELSE Acquire(t) /\ Proceed(t, tx[t])
  /\ UNCHANGED <<room, revision, begun>>

(* A claim for the resolution that comes too late asks for the advance.    *)
ClaimUnlocked(t) ==  \* mutant: the claim reads the round without locking it
  /\ At(t, "claim")
  /\ Proceed(t, tx[t])
  /\ UNCHANGED <<room, revision, locks, begun>>
ClaimRound(t) ==
  /\ At(t, "claim") /\ ~Blocked(t)
  /\ LET state == State(tx[t].code, tx[t].round) IN
     IF state = tx[t].seen.state THEN Acquire(t) /\ Proceed(t, tx[t])
     ELSE IF tx[t].kind = "deadline" THEN End(t)
     ELSE tx' = [tx EXCEPT ![t].at = 1] /\ UNCHANGED locks
  /\ UNCHANGED <<room, revision, begun>>

ReadRevision(t) ==  \* mutant: SELECT revision, without FOR UPDATE
  /\ At(t, "room")
  /\ Proceed(t, [tx[t] EXCEPT !.revision = revision[tx[t].code]])
  /\ UNCHANGED <<room, revision, locks, begun>>
LockRoom(t) ==
  /\ At(t, "room") /\ Acquire(t)
  /\ Proceed(t, [tx[t] EXCEPT !.revision = revision[tx[t].code]])
  /\ UNCHANGED <<room, revision, begun>>

LockRound(t) ==
  /\ At(t, "round") /\ Acquire(t)
  /\ Proceed(t, tx[t])
  /\ UNCHANGED <<room, revision, begun>>

LockWallet(t) ==
  /\ At(t, "wallets")
  /\ IF Unlocked(t) = {} THEN Proceed(t, tx[t]) /\ UNCHANGED locks
     ELSE Acquire(t) /\ UNCHANGED tx
  /\ UNCHANGED <<room, revision, begun>>

(* load, and the guard of the rules the loaded room must pass.             *)
CanAdvanceClosed(r) == Advanceable(r)  \* mutant: a closed room advances
CanAdvance(r) == r.status = "active" /\ Advanceable(r)
Passes(t, r) ==
  CASE tx[t].kind = "join" -> r.status = "active" /\ ~r.guest
    [] tx[t].kind = "leave" -> r.status = "active" /\ (r.state = "resolved" \/ ~r.guest)
    [] tx[t].kind = "deadline" -> r.status = "active" /\ r.state = "active"
    [] OTHER -> r.round = tx[t].round /\ (IF Pays(t) THEN r.status = "active" /\ Resolvable(r)
                                          ELSE CanAdvance(r))

Load(t) ==
  /\ At(t, "load")
  /\ LET r == room[tx[t].code] IN
     IF Passes(t, r) THEN Proceed(t, [tx[t] EXCEPT !.seen = r, !.round = r.round]) /\ UNCHANGED locks
     ELSE End(t)
  /\ UNCHANGED <<room, revision, begun>>

(* What a transaction writes: join, leave, the reconciler and deadlines    *)
(* save the whole room they loaded, the others change the committed rows.  *)
Written(t) ==
  LET r == tx[t].seen
      now == room[tx[t].code]
  IN CASE tx[t].kind = "join" -> [r EXCEPT !.guest = TRUE, !.funded = TRUE]
       [] tx[t].kind = "leave" -> [r EXCEPT !.status = "closed"]
       [] Pays(t) -> [r EXCEPT !.state = "resolved"]
       [] tx[t].kind = "reconcile" /\ ~Pays(t) ->
            [r EXCEPT !.round = @ + 1, !.state = "active", !.moves = {}, !.votes = {}]
       [] tx[t].kind = "move" -> [now EXCEPT !.moves = @ \cup {tx[t].role}]
       [] tx[t].kind = "vote" -> [now EXCEPT !.votes = @ \cup {tx[t].role}]
       [] tx[t].kind = "presence" -> now

Save(t) ==
  /\ At(t, "save")
  /\ room' = [room EXCEPT ![tx[t].code] = Written(t)]
  /\ revision' = [revision EXCEPT ![tx[t].code] = tx[t].revision + 1]
  /\ End(t)
  /\ UNCHANGED begun

(* An error, a timeout, a lost server or a deadlock PostgreSQL has found.  *)
Rollback(t) ==
  /\ Running(t)
  /\ End(t)
  /\ UNCHANGED <<room, revision, begun>>

Step(t) ==
  \/ Ask(t) \/ ShareRound(t) \/ InsertAction(t) \/ ClaimRound(t)
  \/ LockRoom(t) \/ LockRound(t) \/ LockWallet(t) \/ Load(t) \/ Save(t)

Next ==
  \E t \in Txs :
    \/ \E kind \in Kinds, c \in Codes, p \in Role : Begin(t, kind, c, p)
    \/ Step(t)
    \/ Rollback(t)

Spec == Init /\ [][Next]_vars

-----------------------------------------------------------------------------
(* save writes back the whole room that load returned, moves and requests  *)
(* included, and deletes those it did not see.  Until the transaction      *)
(* ends, what it loaded is what is committed, although the reconciler loads *)
(* before it has locked the room.                                          *)
Loaded(t) == \E i \in 1 .. tx[t].at - 1 : Statements(tx[t].kind)[i] = "load"
LoadedIsCurrent == \A t \in Txs : Running(t) /\ Loaded(t) => tx[t].seen = room[tx[t].code]

(* Moves, requests, the reconciler and deadlines lock the round before the *)
(* room, joining and leaving the room before the round: no set of          *)
(* transactions waits in a circle unless one of them is a player leaving.  *)
Deadlock(S) == S # {} /\ \A t \in S : \E u \in S : WaitsFor(t, u)
OnlyLeaveDeadlocks == \A S \in SUBSET Txs : Deadlock(S) => \E t \in S : tx[t].kind = "leave"

(* Every commit that changes a room takes the next revision, also when the *)
(* revision it adds one to was read by an earlier statement.               *)
RevisionsGapless == [][\A c \in Codes :
  /\ revision'[c] \in {revision[c], revision[c] + 1}
  /\ room'[c] # room[c] => revision'[c] # revision[c]]_vars

(* No transaction erases a move or a request for the next round that       *)
(* another one committed while it ran.                                     *)
ActionsKept == [][\A c \in Codes : room'[c].round = room[c].round =>
  /\ room[c].moves \subseteq room'[c].moves
  /\ room[c].votes \subseteq room'[c].votes]_vars

(* A round that was decided, by both moves, by a deadline or by a forfeit, *)
(* stays decided on those moves: no move is recorded that the result does  *)
(* not count, although a move reads the round's status before its insert.  *)
DecidedRoundFixed == [][\A c \in Codes :
  room[c].state = "resolved" /\ room'[c].round = room[c].round =>
     room'[c].moves = room[c].moves /\ room'[c].state = "resolved"]_vars

(* A closed room stays closed, in the round it was closed in, whatever     *)
(* transaction had already claimed that round.  A request for the next     *)
(* round may still be added to it: recordRoomAction reads the room's       *)
(* status in a snapshot and locks the round only.                          *)
ClosedRoomStays == [][\A c \in Codes : room[c].status = "closed" =>
  [room'[c] EXCEPT !.votes = {}] = [room[c] EXCEPT !.votes = {}]]_vars
=============================================================================
